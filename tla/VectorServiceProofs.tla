------------------------ MODULE VectorServiceProofs ------------------------
(***************************************************************************)
(* Proofs about VectorService, for every set of identifiers and payloads,  *)
(* every combination of I/O faults and every value of the bounds:          *)
(* acknowledged writes are served unless a recovery gave up, a crash at    *)
(* any instant leaves files that recover to an acknowledged state, the     *)
(* exact index and the payload store never part, and the resolver never    *)
(* gives an internal id twice.  As long as every append to the log is all  *)
(* or nothing, every recovery completes, the ANN index holds what the      *)
(* store holds, and the service implements the durable map of module       *)
(* VectorMap; when no snapshot fails either, the log stays short.          *)
(***************************************************************************)
EXTENDS VectorService, SequenceTheorems, FiniteSetTheorems, WellFoundedInduction, TLAPS


\* Payloads that pass the checks of AddVectors, and the absent one.
Stored == {val \in Val : Dim[val] \in 1 .. MaxVectorDim} \cup {None}

\* The elements of a request: vectors to add, or an id with None to delete.
ReqVector == [id : ID \cup {BlankID}, val : Val \cup {None}]

\* x is what snapshot s and the first n lines of log w say of id.
Says(w, s, n, id, x) ==
  \/ \E k \in 1 .. n :
       /\ w[k].id = id /\ w[k].val = x
       /\ \A j \in 1 .. n : w[j].id = id => j <= k
  \/ /\ \A j \in 1 .. n : w[j].id # id
     /\ x = s[id]

ReadableUpTo(w, n) == \A k \in 1 .. n : Readable(w[k])

\* Lines of a log, and the first n vectors of a batch, passed the checks.
GoodLines(w) ==
  \A k \in 1 .. Len(w) : w[k] = Garbled \/ (w[k].id \in ID /\ w[k].val \in Stored)
Good(b, n) == \A i \in 1 .. n : b[i].id \in ID /\ b[i].val \in Stored
Distinct(b, n) == \A i, j \in 1 .. n : b[i].id = b[j].id => i = j
Outside(b, n, id) == \A i \in 1 .. n : b[i].id # id

----------------------------------------------------------------------------
(* The inductive invariant: one part for the stored data, one for the      *)
(* files, and one for each place the holder of persistMu can be at.        *)

StoredInv ==
  /\ snapshot \in [ID -> Stored] /\ store \in [ID -> Stored] /\ index \in [ID -> Stored]
  /\ wal \in Seq(Line) /\ GoodLines(wal)
  /\ tornTail \in BOOLEAN /\ (tornTail => Len(wal) > 0)
  /\ batch \in Seq(ReqVector)
  /\ cur \in Nat
  /\ saved \in Val \cup {None}
  /\ aborted \in BOOLEAN
  /\ allowed \in [ID -> SUBSET (Val \cup {None})]
  /\ pc \in PCs

\* A restart that can read the whole log recovers an acknowledged state.
FilesInv ==
  ~aborted /\ ReadableUpTo(wal, Len(wal)) =>
    \A id \in ID : \E x \in allowed[id] : Says(wal, snapshot, Len(wal), id, x)

Served == ~aborted => \A id \in ID : store[id] \in allowed[id]

AtIdle == index = store /\ Served

AtRestoreTrunc == AtIdle /\ snapshot = store

\* The first n vectors of the batch are in the index and not in the store.
Indexed(n) ==
  /\ Good(batch, n) /\ Distinct(batch, n)
  /\ \A i \in 1 .. n : /\ batch[i].val # None
                       /\ store[batch[i].id] = None
                       /\ index[batch[i].id] = batch[i].val
  /\ \A id \in ID : Outside(batch, n, id) => index[id] = store[id]
  /\ Served

AtIndex ==
  /\ cur \in 1 .. Len(batch)
  /\ \A i \in 1 .. Len(batch) : batch[i].val \in Val
  /\ Indexed(cur - 1)

AtUpsert == Len(batch) > 0 /\ Indexed(Len(batch))

\* The request is applied to the index and the store.
Applied ==
  /\ Len(batch) > 0 /\ Good(batch, Len(batch)) /\ Distinct(batch, Len(batch))
  /\ \A i \in 1 .. Len(batch) : store[batch[i].id] = batch[i].val
  /\ index = store
  /\ ~aborted => \A id \in ID : Outside(batch, Len(batch), id) => store[id] \in allowed[id]

\* Dropping the vectors of the batch gives back an acknowledged state.
Undoable == ~aborted => \A i \in 1 .. Len(batch) : None \in allowed[batch[i].id]

IsAdd == \A i \in 1 .. Len(batch) : batch[i].val # None

AtAnn == cur \in 1 .. Len(batch) /\ Applied /\ IsAdd /\ Undoable

AtRollback ==
  /\ cur >= 1
  /\ Good(batch, Len(batch))
  /\ \A i \in 1 .. Len(batch) :
       i < cur => store[batch[i].id] = None /\ index[batch[i].id] = None
  /\ \A id \in ID : Outside(batch, Len(batch), id) => index[id] = store[id]
  /\ ~aborted => \A id \in ID : Outside(batch, Len(batch), id) => store[id] \in allowed[id]
  /\ Undoable

\* The payload being deleted can be put back.
Restorable ==
  /\ Len(batch) = 1 /\ batch[1].id \in ID /\ batch[1].val = None
  /\ saved \in Stored \ {None}
  /\ ~aborted => saved \in allowed[batch[1].id]

AtDelIndex == Restorable /\ AtIdle

AtDelStore ==
  /\ Restorable
  /\ index[batch[1].id] = None
  /\ \A id \in ID \ {batch[1].id} : index[id] = store[id]
  /\ Served

AtDelAnn ==
  /\ Restorable
  /\ index = store /\ store[batch[1].id] = None
  /\ ~aborted => \A id \in ID \ {batch[1].id} : store[id] \in allowed[id]

AtWal ==
  /\ Applied
  /\ IF IsDelete THEN Restorable ELSE IsAdd /\ Undoable

\* The files say of the request what the store does.
AtLogged ==
  /\ Applied
  /\ Served
  /\ ~aborted /\ ReadableUpTo(wal, Len(wal)) =>
       \A i \in 1 .. Len(batch) : Says(wal, snapshot, Len(wal), batch[i].id, batch[i].val)

AtTrunc == AtLogged /\ snapshot = store

\* The lines replayed so far could be read, and the store is what they say.
AtReplay ==
  /\ index = store
  /\ cur \in 1 .. (Len(wal) + 1)
  /\ ReadableUpTo(wal, cur - 1)
  /\ \A id \in ID : Says(wal, snapshot, cur - 1, id, store[id])

\* A process that has not begun to load holds nothing.
AtDown == index = store

IInv ==
  /\ StoredInv
  /\ FilesInv
  /\ pc \in {"down", "load"} => AtDown
  /\ pc \in {"idle", "restoreSave"} => AtIdle
  /\ pc = "restoreTrunc" => AtRestoreTrunc
  /\ pc = "index" => AtIndex
  /\ pc = "upsert" => AtUpsert
  /\ pc = "ann" => AtAnn
  /\ pc = "rollback" => AtRollback
  /\ pc = "delIndex" => AtDelIndex
  /\ pc = "delStore" => AtDelStore
  /\ pc = "delAnn" => AtDelAnn
  /\ pc = "wal" => AtWal
  /\ pc \in {"snap", "sync", "save"} => AtLogged
  /\ pc = "trunc" => AtTrunc
  /\ pc = "replay" => AtReplay

----------------------------------------------------------------------------
(* The beginning of each request, and the steps that leave the files alone.*)

USE DEF diskVars, memVars, reqVars, histVars


LEMMA BatchIsSeq ==
  ASSUME NEW b \in Batches
  PROVE  /\ b \in Seq(ReqVector)
         /\ Len(b) >= 1
         /\ \A i \in 1 .. Len(b) : b[i].val \in Val
<1>1. PICK n \in 1 .. MaxBatch : b \in [1 .. n -> Vector]
  BY DEF Batches
<1>2. n \in Nat /\ n >= 1
  BY ServiceAssumption
<1>3. b \in Seq(Vector)
  BY <1>1, <1>2, SeqDef
<1>4. Len(b) = n
  BY <1>1, <1>2, <1>3
<1>5. Vector \subseteq ReqVector
  BY DEF Vector, ReqVector
<1>6. b \in Seq(ReqVector)
  BY <1>3, <1>5, SeqMonotonic
<1> QED
  BY <1>1, <1>2, <1>4, <1>6 DEF Vector

LEMMA BatchElem ==
  ASSUME StoredInv
  PROVE  /\ batch \in Seq(ReqVector) /\ Len(batch) \in Nat
         /\ DOMAIN batch = 1 .. Len(batch)
         /\ \A i \in 1 .. Len(batch) : /\ batch[i] \in ReqVector
                                       /\ batch[i].id \in ID \cup {BlankID}
                                       /\ batch[i].val \in Val \cup {None}
<1>1. batch \in Seq(ReqVector)
  BY DEF StoredInv
<1>2. \A i \in 1 .. Len(batch) : batch[i] \in ReqVector
  BY <1>1, ElementOfSeq
<1> QED
  BY <1>1, <1>2, LenProperties DEF ReqVector

LEMMA WalElem ==
  ASSUME StoredInv
  PROVE  /\ wal \in Seq(Line) /\ Len(wal) \in Nat /\ DOMAIN wal = 1 .. Len(wal)
         /\ \A k \in 1 .. Len(wal) : wal[k] \in Line
<1>1. wal \in Seq(Line)
  BY DEF StoredInv
<1> QED
  BY <1>1, ElementOfSeq, LenProperties

LEMMA PrefixIs ==
  ASSUME NEW S, NEW s \in Seq(S), NEW n \in 0 .. Len(s)
  PROVE  /\ SubSeq(s, 1, n) \in Seq(S) /\ Len(SubSeq(s, 1, n)) = n
         /\ \A i \in 1 .. n : SubSeq(s, 1, n)[i] = s[i]
<1>1. Len(s) \in Nat /\ n \in Int /\ \A i \in 1 .. n : s[i] \in S
  BY LenProperties, ElementOfSeq
<1>2. /\ SubSeq(s, 1, n) \in Seq(S)
      /\ Len(SubSeq(s, 1, n)) = IF 1 <= n THEN n - 1 + 1 ELSE 0
      /\ \A i \in 1 .. n - 1 + 1 : SubSeq(s, 1, n)[i] = s[1 + i - 1]
  BY <1>1, SubSeqProperties
<1> QED
  BY <1>1, <1>2

LEMMA SaysNothing ==
  ASSUME NEW w, NEW s, NEW id PROVE Says(w, s, 0, id, s[id])
  BY DEF Says

LEMMA SaysUnique ==
  ASSUME NEW w, NEW s, NEW n \in Nat, NEW id, NEW x, NEW y,
         Says(w, s, n, id, x), Says(w, s, n, id, y)
  PROVE  x = y
<1>1. CASE \A j \in 1 .. n : w[j].id # id
  BY <1>1 DEF Says
<1>2. CASE \E j \in 1 .. n : w[j].id = id
  <2>1. PICK k \in 1 .. n : /\ w[k].id = id /\ w[k].val = x
                            /\ \A j \in 1 .. n : w[j].id = id => j <= k
    BY <1>2 DEF Says
  <2>2. PICK l \in 1 .. n : /\ w[l].id = id /\ w[l].val = y
                            /\ \A j \in 1 .. n : w[j].id = id => j <= l
    BY <1>2 DEF Says
  <2>3. k = l
    BY <2>1, <2>2
  <2> QED
    BY <2>1, <2>2, <2>3
<1> QED
  BY <1>1, <1>2

\* A new snapshot changes what the files say only of ids the log is silent on.
LEMMA SaysOfSnapshot ==
  ASSUME NEW w, NEW s, NEW t, NEW n \in Nat, NEW id, NEW x, Says(w, s, n, id, x)
  PROVE  Says(w, t, n, id, x) \/ Says(w, t, n, id, t[id])
  BY DEF Says

LEMMA InitIInv == Init => IInv
<1> SUFFICES ASSUME Init PROVE IInv
  OBVIOUS
<1>1. EmptyMap \in [ID -> Stored] /\ \A id \in ID : EmptyMap[id] = None
  BY DEF EmptyMap, Stored
<1>2. /\ <<>> \in Seq(Line) /\ <<>> \in Seq(ReqVector) /\ Len(<<>>) = 0
  BY EmptySeq
<1>3. StoredInv
  <2>1. [id \in ID |-> {None}] \in [ID -> SUBSET (Val \cup {None})]
    OBVIOUS
  <2>2. GoodLines(<<>>)
    BY <1>2 DEF GoodLines
  <2> QED
    BY <1>1, <1>2, <2>1, <2>2 DEF Init, StoredInv, PCs
<1>4. FilesInv
  <2>1. Len(wal) = 0 /\ \A id \in ID : None \in allowed[id]
    BY <1>2 DEF Init
  <2>2. \A id \in ID : Says(wal, snapshot, 0, id, None)
    BY <1>1, SaysNothing DEF Init
  <2> QED
    BY <2>1, <2>2 DEF FilesInv
<1> QED
  BY <1>3, <1>4 DEF Init, IInv, AtDown

----------------------------------------------------------------------------
(* AddVectors.                                                             *)

LEMMA AddVectorsIInv ==
  ASSUME IInv, NEW b \in Batches, AddVectors(b) PROVE IInv'
<1>1. StoredInv'
  BY BatchIsSeq DEF AddVectors, IInv, StoredInv, PCs
<1>2. FilesInv'
  BY DEF AddVectors, IInv, FilesInv
<1>3. AtIndex'
  BY BatchIsSeq
  DEF AddVectors, IInv, AtIndex, AtIdle, Indexed, Served, Good, Distinct, Outside
<1> QED
  BY <1>1, <1>2, <1>3 DEF AddVectors, IInv

LEMMA AddToIndexIInv ==
  ASSUME IInv, AddToIndex PROVE IInv'
<1> DEFINE vec == batch[cur]
<1>0. StoredInv /\ AtIndex /\ FilesInv
  BY DEF AddToIndex, IInv
<1>1. /\ cur \in 1 .. Len(batch) /\ Len(batch) \in Nat
      /\ vec.val \in Val /\ vec.id \in ID \cup {BlankID}
  BY <1>0, BatchElem DEF AtIndex
<1>2. /\ vec.id \in ID /\ vec.val \in Stored /\ vec.val # None
      /\ index[vec.id] = None
      /\ index' = [index EXCEPT ![vec.id] = vec.val]
  BY <1>1, ServiceAssumption, PersistenceAssumption
  DEF AddToIndex, Valid, Stored, Put
<1>3. StoredInv'
  BY <1>0, <1>1, <1>2 DEF AddToIndex, StoredInv, PCs
<1>4. FilesInv'
  BY <1>0 DEF AddToIndex, FilesInv
<1>5. /\ Good(batch, cur) /\ Distinct(batch, cur)
      /\ \A i \in 1 .. cur : /\ batch[i].val # None /\ store[batch[i].id] = None
                            /\ index'[batch[i].id] = batch[i].val
      /\ \A id \in ID : Outside(batch, cur, id) => index'[id] = store[id]
      /\ Served'
  <2>0. index \in [ID -> Stored]
    BY <1>0 DEF StoredInv
  <2>1. \A i \in 1 .. (cur - 1) : batch[i].id \in ID /\ batch[i].id # vec.id
    BY <1>0, <1>1, <1>2 DEF AtIndex, Indexed, Good
  <2>2. store[vec.id] = None
    BY <1>0, <1>2, <2>1 DEF AtIndex, Indexed, Outside
  <2>3. Good(batch, cur) /\ Distinct(batch, cur)
    BY <1>0, <1>1, <1>2, <2>1 DEF AtIndex, Indexed, Good, Distinct
  <2>4. \A i \in 1 .. cur : /\ batch[i].val # None /\ store[batch[i].id] = None
                            /\ index'[batch[i].id] = batch[i].val
    BY <1>0, <1>1, <1>2, <2>0, <2>1, <2>2 DEF AtIndex, Indexed
  <2>5. \A id \in ID : Outside(batch, cur, id) => index'[id] = store[id]
    BY <1>0, <1>1, <1>2, <2>0 DEF AtIndex, Indexed, Outside
  <2> QED
    BY <1>0, <2>3, <2>4, <2>5 DEF AddToIndex, AtIndex, Indexed, Served
<1>6. CASE cur = Len(batch)
  <2>1. pc' = "upsert" /\ batch' = batch /\ store' = store
    BY <1>6 DEF AddToIndex
  <2>2. AtUpsert'
    BY <1>1, <1>5, <1>6, <2>1 DEF AtUpsert, Indexed
  <2> QED
    BY <1>3, <1>4, <2>1, <2>2 DEF IInv
<1>7. CASE cur # Len(batch)
  <2>1. pc' = "index" /\ batch' = batch /\ store' = store /\ cur' = cur + 1
    BY <1>7 DEF AddToIndex
  <2>2. cur' - 1 = cur /\ cur' \in 1 .. Len(batch')
    BY <1>1, <1>7, <2>1
  <2>3. AtIndex'
    BY <1>0, <1>5, <2>1, <2>2 DEF AtIndex, Indexed
  <2> QED
    BY <1>3, <1>4, <2>1, <2>3 DEF IInv
<1> QED
  BY <1>6, <1>7

LEMMA RefuseVectorIInv ==
  ASSUME IInv, RefuseVector PROVE IInv'
<1>0. StoredInv /\ AtIndex /\ FilesInv
  BY DEF RefuseVector, IInv
<1>1. /\ cur \in 1 .. Len(batch) /\ Len(batch) \in Nat
      /\ batch \in Seq(ReqVector) /\ cur - 1 \in 0 .. Len(batch)
  BY <1>0, BatchElem DEF AtIndex
<1>2. /\ batch' \in Seq(ReqVector)
      /\ Len(batch') = cur - 1
      /\ \A i \in 1 .. (cur - 1) : batch'[i] = batch[i]
  BY <1>1, PrefixIs DEF RefuseVector
<1>3. StoredInv'
  BY <1>0, <1>2 DEF RefuseVector, StoredInv, PCs
<1>4. FilesInv'
  BY <1>0 DEF RefuseVector, FilesInv
<1>5. AtRollback'
  BY <1>0, <1>1, <1>2
  DEF RefuseVector, AtIndex, Indexed, Served, Good, Outside, AtRollback, Undoable
<1> QED
  BY <1>3, <1>4, <1>5 DEF RefuseVector, IInv

\* Map s has the payloads of batch b for its ids and is m for the others.
Overwritten(m, b, n, s) ==
  /\ \A i \in 1 .. n : b[i].id \in ID => s[b[i].id] = b[i].val
  /\ \A id \in ID : Outside(b, n, id) => s[id] = m[id]

LEMMA OverwriteIs ==
  ASSUME NEW m, NEW n \in Nat, NEW b, DOMAIN b = 1 .. n, Distinct(b, n)
  PROVE  Overwritten(m, b, n, Overwrite(m, b))
<1>1. ASSUME NEW i \in 1 .. n, b[i].id \in ID
      PROVE  Overwrite(m, b)[b[i].id] = b[i].val
  <2> DEFINE j == CHOOSE j \in DOMAIN b : b[j].id = b[i].id
  <2>1. j \in 1 .. n /\ b[j].id = b[i].id
    BY <1>1
  <2>2. j = i
    BY <2>1, <1>1 DEF Distinct
  <2> QED
    BY <1>1, <2>2 DEF Overwrite
<1>2. ASSUME NEW id \in ID, Outside(b, n, id)
      PROVE  Overwrite(m, b)[id] = m[id]
  BY <1>2 DEF Overwrite, Outside
<1> QED
  BY <1>1, <1>2 DEF Overwritten

LEMMA UpsertVectorsIInv ==
  ASSUME IInv, UpsertVectors PROVE IInv'
<1>0. StoredInv /\ AtUpsert /\ FilesInv
  BY DEF UpsertVectors, IInv
<1>1. Len(batch) \in Nat /\ Len(batch) > 0 /\ DOMAIN batch = 1 .. Len(batch)
  BY <1>0, BatchElem DEF AtUpsert
<1>2. /\ \A i \in 1 .. Len(batch) : store'[batch[i].id] = batch[i].val
      /\ \A id \in ID : Outside(batch, Len(batch), id) => store'[id] = store[id]
  <2>1. Good(batch, Len(batch)) /\ Distinct(batch, Len(batch)) /\ store' = Overwrite(store, batch)
    BY <1>0 DEF UpsertVectors, AtUpsert, Indexed
  <2>2. Overwritten(store, batch, Len(batch), Overwrite(store, batch))
    BY <1>1, <2>1, OverwriteIs
  <2> QED
    BY <2>1, <2>2 DEF Overwritten, Good
<1>3. store' = index
  <2>1. store' = [id \in ID |-> store'[id]]
    BY DEF UpsertVectors, Overwrite
  <2>2. \A id \in ID : store'[id] = index[id]
    BY <1>0, <1>2 DEF AtUpsert, Indexed, Outside
  <2> QED
    BY <1>0, <2>1, <2>2 DEF StoredInv
<1>4. StoredInv'
  BY <1>0, <1>3 DEF UpsertVectors, StoredInv, PCs
<1>5. FilesInv'
  BY <1>0 DEF UpsertVectors, FilesInv
<1>6. AtAnn'
  BY <1>0, <1>1, <1>2, <1>3
  DEF UpsertVectors, AtUpsert, Indexed, AtAnn, Applied, IsAdd, Undoable, Served, Good
<1> QED
  BY <1>4, <1>5, <1>6 DEF UpsertVectors, IInv

LEMMA AddToANNIInv ==
  ASSUME IInv, AddToANN PROVE IInv'
<1>0. StoredInv /\ AtAnn /\ FilesInv
  BY DEF AddToANN, IInv
<1>1. Len(batch) \in Nat /\ cur \in 1 .. Len(batch)
  BY <1>0, BatchElem DEF AtAnn
<1>2. StoredInv'
  BY <1>0, <1>1 DEF AddToANN, StoredInv, PCs
<1>3. FilesInv'
  BY <1>0 DEF AddToANN, FilesInv
<1>4. Applied' /\ IsAdd' /\ Undoable' /\ (IsDelete' <=> IsDelete) /\ ~IsDelete
  BY <1>0, <1>1 DEF AddToANN, AtAnn, Applied, IsAdd, Undoable, IsDelete
<1> QED
  BY <1>1, <1>2, <1>3, <1>4 DEF AddToANN, IInv, AtAnn, AtWal

LEMMA RefuseByANNIInv ==
  ASSUME IInv, RefuseByANN PROVE IInv'
<1>0. StoredInv /\ AtAnn /\ FilesInv
  BY DEF RefuseByANN, IInv
<1>1. /\ Len(batch) \in Nat /\ cur \in 1 .. Len(batch) /\ batch[cur].id \in ID
      /\ None \in Stored
  BY <1>0, BatchElem DEF AtAnn, Applied, Good, Stored
<1>2. StoredInv'
  BY <1>0, <1>1 DEF RefuseByANN, StoredInv, PCs, Drop
<1>3. FilesInv'
  BY <1>0 DEF RefuseByANN, FilesInv
<1>4. AtRollback'
  BY <1>0, <1>1
  DEF RefuseByANN, AtAnn, Applied, Undoable, AtRollback, Outside, Drop, StoredInv
<1> QED
  BY <1>2, <1>3, <1>4 DEF RefuseByANN, IInv

LEMMA RollbackOneIInv ==
  ASSUME IInv, RollbackOne PROVE IInv'
<1>0. StoredInv /\ AtRollback /\ FilesInv
  BY DEF RollbackOne, IInv
<1>1. /\ Len(batch) \in Nat /\ cur \in 1 .. Len(batch) /\ batch[cur].id \in ID
      /\ None \in Stored
  BY <1>0, BatchElem DEF RollbackOne, AtRollback, Good, Stored, StoredInv
<1>2. StoredInv'
  BY <1>0, <1>1 DEF RollbackOne, StoredInv, Drop
<1>3. FilesInv'
  BY <1>0 DEF RollbackOne, FilesInv
<1>4. AtRollback'
  BY <1>0, <1>1 DEF RollbackOne, AtRollback, Undoable, Outside, Drop, StoredInv, Good
<1> QED
  BY <1>2, <1>3, <1>4 DEF RollbackOne, IInv

\* Every request ends with an empty batch.
LEMMA ReturnStored ==
  ASSUME StoredInv, Return,
         snapshot' \in [ID -> Stored], store' \in [ID -> Stored], index' \in [ID -> Stored],
         wal' \in Seq(Line), GoodLines(wal'),
         tornTail' \in BOOLEAN, tornTail' => Len(wal') > 0,
         aborted' \in BOOLEAN, allowed' \in [ID -> SUBSET (Val \cup {None})]
  PROVE  StoredInv'
  BY EmptySeq DEF Return, StoredInv, PCs

LEMMA RollbackDoneIInv ==
  ASSUME IInv, RollbackDone PROVE IInv'
<1>0. StoredInv /\ AtRollback /\ FilesInv
  BY DEF RollbackDone, IInv
<1>1. Len(batch) \in Nat /\ cur \in Nat /\ cur > Len(batch)
  BY <1>0, BatchElem DEF RollbackDone, StoredInv
<1>2. StoredInv'
  BY <1>0, ReturnStored DEF RollbackDone, ReturnError, StoredInv
<1>3. FilesInv'
  BY <1>0 DEF RollbackDone, ReturnError, FilesInv
<1>4. \A id \in ID : /\ index[id] = store[id]
                     /\ ~aborted => store[id] \in allowed[id]
  <2> TAKE id \in ID
  <2>1. CASE Outside(batch, Len(batch), id)
    BY <1>0, <2>1 DEF AtRollback
  <2>2. CASE ~Outside(batch, Len(batch), id)
    <3>1. PICK i \in 1 .. Len(batch) : batch[i].id = id
      BY <2>2 DEF Outside
    <3>2. i < cur
      BY <1>1
    <3> QED
      BY <1>0, <3>1, <3>2 DEF AtRollback, Undoable
  <2> QED
    BY <2>1, <2>2
<1>5. index = store
  BY <1>0, <1>4 DEF StoredInv
<1>6. AtIdle'
  BY <1>4, <1>5 DEF RollbackDone, ReturnError, AtIdle, Served
<1> QED
  BY <1>2, <1>3, <1>6 DEF RollbackDone, ReturnError, Return, IInv

----------------------------------------------------------------------------
(* DeleteVector.                                                           *)

LEMMA DeleteVectorIInv ==
  ASSUME IInv, NEW id \in ID, DeleteVector(id) PROVE IInv'
<1>0. StoredInv /\ AtIdle /\ FilesInv
  BY DEF DeleteVector, IInv
<1> DEFINE req == [id |-> id, val |-> None]
<1>1. req \in ReqVector
  BY DEF ReqVector
<1>2. /\ batch' = <<req>> /\ batch' \in Seq(ReqVector) /\ Len(batch') = 1
      /\ batch'[1].id = id /\ batch'[1].val = None
  BY <1>1 DEF DeleteVector
<1>3. saved' = store[id] /\ saved' \in Stored \ {None} /\ saved' \in Val
  BY <1>0, PersistenceAssumption DEF DeleteVector, StoredInv, Stored
<1>4. StoredInv'
  BY <1>0, <1>2, <1>3 DEF DeleteVector, StoredInv, PCs
<1>5. FilesInv'
  BY <1>0 DEF DeleteVector, FilesInv
<1>6. AtDelIndex'
  BY <1>0, <1>2, <1>3 DEF DeleteVector, AtDelIndex, Restorable, AtIdle, Served
<1> QED
  BY <1>4, <1>5, <1>6 DEF DeleteVector, IInv

LEMMA DeleteFromIndexIInv ==
  ASSUME IInv, DeleteFromIndex PROVE IInv'
<1>0. StoredInv /\ AtDelIndex /\ FilesInv
  BY DEF DeleteFromIndex, IInv
<1>1. batch[1].id \in ID /\ index \in [ID -> Stored] /\ None \in Stored
  BY <1>0 DEF AtDelIndex, Restorable, StoredInv, Stored
<1>2. StoredInv'
  BY <1>0, <1>1 DEF DeleteFromIndex, StoredInv, PCs, Drop
<1>3. FilesInv'
  BY <1>0 DEF DeleteFromIndex, FilesInv
<1>4. AtDelStore'
  BY <1>0, <1>1
  DEF DeleteFromIndex, AtDelIndex, AtIdle, Restorable, AtDelStore, Served, Drop
<1> QED
  BY <1>2, <1>3, <1>4 DEF DeleteFromIndex, IInv

LEMMA DeleteFromStoreIInv ==
  ASSUME IInv, DeleteFromStore PROVE IInv'
<1>0. StoredInv /\ AtDelStore /\ FilesInv
  BY DEF DeleteFromStore, IInv
<1>1. /\ batch[1].id \in ID /\ store \in [ID -> Stored] /\ index \in [ID -> Stored]
      /\ None \in Stored
  BY <1>0 DEF AtDelStore, Restorable, StoredInv, Stored
<1>2. StoredInv'
  BY <1>0, <1>1 DEF DeleteFromStore, StoredInv, PCs, Drop
<1>3. FilesInv'
  BY <1>0 DEF DeleteFromStore, FilesInv
<1>4. index' = store'
  BY <1>0, <1>1 DEF DeleteFromStore, AtDelStore, Drop
<1>5. AtDelAnn'
  BY <1>0, <1>1, <1>4
  DEF DeleteFromStore, AtDelStore, Restorable, AtDelAnn, Served, Drop
<1> QED
  BY <1>2, <1>3, <1>5 DEF DeleteFromStore, IInv

LEMMA DeleteFromANNIInv ==
  ASSUME IInv, DeleteFromANN PROVE IInv'
<1>0. StoredInv /\ AtDelAnn /\ FilesInv
  BY DEF DeleteFromANN, IInv
<1>1. StoredInv'
  BY <1>0 DEF DeleteFromANN, StoredInv, PCs
<1>2. FilesInv'
  BY <1>0 DEF DeleteFromANN, FilesInv
<1>3. None \in Stored
  BY DEF Stored
<1>4. Applied' /\ Restorable' /\ IsDelete'
  BY <1>0, <1>3
  DEF DeleteFromANN, AtDelAnn, Restorable, Applied, IsDelete, Good, Distinct, Outside
<1> QED
  BY <1>1, <1>2, <1>4 DEF DeleteFromANN, IInv, AtWal

----------------------------------------------------------------------------
(* The log.                                                                *)

\* Log w2 is log w1 with the first n operations of b after it.
Extends(w2, w1, b, n) ==
  /\ Len(w2) = Len(w1) + n
  /\ \A k \in 1 .. Len(w1) : w2[k] = w1[k]
  /\ \A i \in 1 .. n : w2[Len(w1) + i] = b[i]

\* What every outcome of an append leaves in the file: a log that cannot be
\* read, or the old log followed by a prefix of the request.
Appended ==
  /\ wal' \in Seq(Line) /\ GoodLines(wal')
  /\ tornTail' \in BOOLEAN /\ (tornTail' => Len(wal') > 0)
  /\ snapshot' = snapshot
  /\ ReadableUpTo(wal', Len(wal')) => \E m \in 0 .. Len(batch) : Extends(wal', wal, batch, m)

LEMMA GarbledLine == Garbled \in Line /\ ~Readable(Garbled)
  BY DEF Line, Readable

LEMMA AppendIs ==
  ASSUME StoredInv, NEW lines \in Seq(Line), GoodLines(lines), wal' = AppendLines(lines)
  PROVE  /\ wal' \in Seq(Line) /\ GoodLines(wal')
         /\ lines # <<>> => Len(wal') > 0
         /\ ReadableUpTo(wal', Len(wal')) => Extends(wal', wal, lines, Len(lines))
<1>0. wal \in Seq(Line) /\ Len(wal) \in Nat /\ Len(lines) \in Nat /\ GoodLines(wal)
  BY LenProperties DEF StoredInv
<1>1. CASE tornTail /\ lines # <<>>
  <2> DEFINE body == SubSeq(wal, 1, Len(wal) - 1)
             bad  == body \o <<Garbled>>
  <2>1. Len(wal) > 0 /\ \A i \in 1 .. (Len(wal) - 1) : wal[i] \in Line
    BY <1>0, <1>1, ElementOfSeq DEF StoredInv
  <2>2. /\ body \in Seq(Line) /\ Len(body) = Len(wal) - 1
        /\ \A i \in 1 .. (Len(wal) - 1) : body[i] = wal[i]
    <3>1. Len(wal) - 1 \in 0 .. Len(wal)
      BY <1>0, <2>1
    <3> QED
      BY <1>0, <3>1, PrefixIs
  <2> HIDE DEF body
  <2>3. Len(body) = Len(wal) - 1 /\ \A i \in 1 .. Len(body) : body[i] = wal[i]
    BY <2>2
  <2>4. <<Garbled>> \in Seq(Line) /\ Len(<<Garbled>>) = 1 /\ <<Garbled>>[1] = Garbled
    BY GarbledLine
  <2>5. /\ bad \in Seq(Line) /\ Len(bad) = Len(body) + 1
        /\ \A i \in 1 .. Len(body) + 1 :
             bad[i] = IF i <= Len(body) THEN body[i] ELSE <<Garbled>>[i - Len(body)]
    BY <2>2, <2>4, ConcatProperties
  <2> HIDE DEF bad
  <2>6. Len(bad) = Len(wal) /\ bad[Len(wal)] = Garbled
        /\ \A i \in 1 .. Len(wal) : bad[i] = Garbled \/ bad[i] = wal[i]
    <3>1. Len(bad) = Len(wal)
      BY <1>0, <2>1, <2>3, <2>5
    <3>2. bad[Len(wal)] = <<Garbled>>[1]
      BY <1>0, <2>1, <2>3, <2>5
    <3>3. \A i \in 1 .. (Len(wal) - 1) : bad[i] = wal[i]
      BY <1>0, <2>1, <2>3, <2>5
    <3> QED
      BY <1>0, <2>1, <2>4, <3>1, <3>2, <3>3
  <2>7. /\ Tail(lines) \in Seq(Line) /\ Len(Tail(lines)) = Len(lines) - 1
        /\ \A i \in 1 .. Len(Tail(lines)) : Tail(lines)[i] = lines[i + 1]
    BY <1>1, HeadTailProperties
  <2>8. Len(lines) > 0
    BY <1>1, EmptySeq
  <2>9. /\ bad \o Tail(lines) \in Seq(Line)
        /\ Len(bad \o Tail(lines)) = Len(bad) + Len(Tail(lines))
        /\ \A i \in 1 .. Len(bad) + Len(Tail(lines)) : (bad \o Tail(lines))[i] =
              IF i <= Len(bad) THEN bad[i] ELSE Tail(lines)[i - Len(bad)]
    BY <2>5, <2>7, ConcatProperties
  <2>10. wal' = bad \o Tail(lines)
    BY <1>1 DEF AppendLines, body, bad
  <2>11. wal'[Len(wal)] = Garbled /\ Len(wal) \in 1 .. Len(wal')
    BY <1>0, <2>1, <2>6, <2>7, <2>8, <2>9, <2>10
  <2>12. ~ReadableUpTo(wal', Len(wal'))
    BY <2>11, GarbledLine DEF ReadableUpTo
  <2>13. GoodLines(wal')
    <3> SUFFICES ASSUME NEW i \in 1 .. Len(wal')
                 PROVE  wal'[i] = Garbled \/ (wal'[i].id \in ID /\ wal'[i].val \in Stored)
      BY DEF GoodLines
    <3>1. CASE i <= Len(wal)
      BY <1>0, <2>6, <2>7, <2>9, <2>10, <3>1 DEF GoodLines
    <3>2. CASE i > Len(wal)
      <4>1. i - Len(wal) \in 1 .. Len(Tail(lines)) /\ i - Len(wal) + 1 \in 1 .. Len(lines)
        BY <1>0, <2>6, <2>7, <2>8, <2>9, <2>10, <3>2
      <4>2. wal'[i] = lines[i - Len(wal) + 1]
        BY <1>0, <2>6, <2>7, <2>8, <2>9, <2>10, <3>2, <4>1
      <4> QED
        BY <4>1, <4>2 DEF GoodLines
    <3> QED
      BY <1>0, <3>1, <3>2
  <2> QED
    BY <2>9, <2>10, <2>11, <2>12, <2>13
<1>2. CASE ~(tornTail /\ lines # <<>>)
  <2>1. wal' = wal \o lines
    BY <1>2 DEF AppendLines
  <2>2. /\ wal' \in Seq(Line) /\ Len(wal') = Len(wal) + Len(lines)
        /\ \A i \in 1 .. Len(wal) + Len(lines) :
             wal'[i] = IF i <= Len(wal) THEN wal[i] ELSE lines[i - Len(wal)]
    BY <1>0, <2>1, ConcatProperties
  <2>3. Extends(wal', wal, lines, Len(lines))
    BY <1>0, <2>2 DEF Extends
  <2>4. GoodLines(wal')
    BY <1>0, <2>2 DEF GoodLines
  <2>5. lines # <<>> => Len(lines) > 0
    BY EmptySeq
  <2> QED
    BY <1>0, <2>2, <2>3, <2>4, <2>5
<1> QED
  BY <1>1, <1>2

\* A request that passed the checks is made of lines for the log.
LEMMA BatchIsLines ==
  ASSUME StoredInv, Good(batch, Len(batch))
  PROVE  /\ batch \in Seq(Line) /\ GoodLines(batch) /\ Len(batch) \in Nat
         /\ \A i \in 1 .. Len(batch) : batch[i] \in Line
<1>1. ASSUME NEW i \in 1 .. Len(batch) PROVE batch[i] \in Line
  <2>1. batch[i] \in ReqVector /\ batch[i].id \in ID
    BY BatchElem DEF Good
  <2> QED
    BY <2>1 DEF ReqVector, Line, WalOp
<1>2. /\ batch \in [1 .. Len(batch) -> ReqVector] /\ Len(batch) \in Nat
  BY LenProperties DEF StoredInv
<1>3. batch \in [1 .. Len(batch) -> Line]
  BY <1>1, <1>2
<1>4. batch \in Seq(Line)
  BY <1>2, <1>3, SeqDef
<1> QED
  BY <1>1, <1>2, <1>4 DEF Good, GoodLines

LEMMA PartialAppendIs ==
  ASSUME StoredInv, Good(batch, Len(batch)), NEW n \in 0 .. (Len(batch) - 1),
         NEW part \in {"none", "some", "all"}, PartialAppend(batch, n, part),
         snapshot' = snapshot
  PROVE  Appended
<1> DEFINE prefix == SubSeq(batch, 1, n)
           rest == CASE part = "none" -> <<>>
                     [] part = "some" -> <<Garbled>>
                     [] part = "all"  -> <<batch[n + 1]>>
           lines == prefix \o rest
<1>0. /\ batch \in Seq(Line) /\ GoodLines(batch) /\ Len(batch) \in Nat
      /\ n \in 0 .. Len(batch) /\ n + 1 \in 1 .. Len(batch) /\ batch[n + 1] \in Line
  BY BatchIsLines
<1>1. /\ prefix \in Seq(Line) /\ Len(prefix) = n
      /\ \A i \in 1 .. n : prefix[i] = batch[i]
  BY <1>0, PrefixIs
<1>2. /\ rest \in Seq(Line)
      /\ part = "none" => Len(rest) = 0
      /\ part # "none" => Len(rest) = 1
      /\ part = "some" => rest[1] = Garbled
      /\ part = "all" => rest[1] = batch[n + 1]
  <2>1. CASE part = "none"
    BY <2>1, EmptySeq
  <2>2. CASE part = "some"
    BY <2>2, GarbledLine
  <2>3. CASE part = "all"
    BY <1>0, <2>3
  <2> QED
    BY <2>1, <2>2, <2>3
<1>3. /\ wal' = AppendLines(lines)
      /\ tornTail' = IF lines = <<>> THEN tornTail ELSE part # "none"
  BY DEF PartialAppend
<1> HIDE DEF prefix, rest
<1>4. /\ lines \in Seq(Line) /\ Len(lines) = n + Len(rest)
      /\ \A i \in 1 .. n + Len(rest) :
           lines[i] = IF i <= n THEN prefix[i] ELSE rest[i - n]
  BY <1>1, <1>2, ConcatProperties
<1> HIDE DEF lines
<1>5. /\ \A i \in 1 .. n : lines[i] = batch[i]
      /\ part # "none" => Len(lines) = n + 1 /\ lines[n + 1] = rest[1]
      /\ part = "none" => Len(lines) = n
  <2>0. n \in Nat /\ Len(rest) \in {0, 1}
    BY <1>0, <1>2
  <2>1. ASSUME NEW i \in 1 .. n PROVE lines[i] = batch[i]
    <3>1. i \in 1 .. n + Len(rest) /\ i <= n
      BY <2>0
    <3> QED
      BY <1>1, <1>4, <3>1
  <2>2. ASSUME part # "none" PROVE Len(lines) = n + 1 /\ lines[n + 1] = rest[1]
    <3>1. Len(rest) = 1
      BY <1>2, <2>2
    <3>2. n + 1 \in 1 .. n + Len(rest) /\ ~(n + 1 <= n) /\ (n + 1) - n = 1
      BY <2>0, <3>1
    <3> QED
      BY <1>4, <3>1, <3>2
  <2>3. ASSUME part = "none" PROVE Len(lines) = n
    BY <1>2, <1>4, <2>0, <2>3
  <2> QED
    BY <2>1, <2>2, <2>3
<1>6. GoodLines(lines)
  <2> SUFFICES ASSUME NEW i \in 1 .. Len(lines)
               PROVE  lines[i] = Garbled \/ (lines[i].id \in ID /\ lines[i].val \in Stored)
    BY DEF GoodLines
  <2>1. CASE i <= n
    BY <1>0, <1>5, <2>1 DEF GoodLines
  <2>2. CASE i > n
    <3>1. i = n + 1 /\ part # "none"
      BY <1>0, <1>5, <2>2
    <3> QED
      BY <1>0, <1>2, <1>5, <3>1 DEF GoodLines
  <2> QED
    BY <1>0, <2>1, <2>2
<1>7. /\ wal' \in Seq(Line) /\ GoodLines(wal')
      /\ lines # <<>> => Len(wal') > 0
      /\ ReadableUpTo(wal', Len(wal')) => Extends(wal', wal, lines, Len(lines))
  BY <1>3, <1>4, <1>6, AppendIs
<1>8. tornTail' \in BOOLEAN /\ (tornTail' => Len(wal') > 0)
  <2>1. CASE lines = <<>>
    <3>1. Len(lines) = 0 /\ tornTail' = tornTail
      BY <1>3, <2>1, EmptySeq
    <3>2. wal' = wal \o <<>>
      BY <1>3, <2>1 DEF AppendLines
    <3>3. wal' = wal
      BY <3>2, ConcatEmptySeq DEF StoredInv
    <3> QED
      BY <3>1, <3>3 DEF StoredInv
  <2>2. CASE lines # <<>>
    BY <1>3, <1>7, <2>2
  <2> QED
    BY <2>1, <2>2
<1>9. ASSUME ReadableUpTo(wal', Len(wal'))
      PROVE  \E m \in 0 .. Len(batch) : Extends(wal', wal, batch, m)
  <2>1. Len(wal) \in Nat /\ Len(lines) \in Nat
    BY <1>4, WalElem, LenProperties
  <2>2. CASE part = "some"
    <3>1. wal'[Len(wal) + (n + 1)] = Garbled /\ Len(wal) + (n + 1) \in 1 .. Len(wal')
      BY <1>0, <1>2, <1>5, <1>7, <1>9, <2>1, <2>2 DEF Extends
    <3> QED
      BY <1>9, <3>1, GarbledLine DEF ReadableUpTo
  <2>3. CASE part = "none"
    <3>1. Extends(wal', wal, batch, n)
      BY <1>5, <1>7, <1>9, <2>3 DEF Extends
    <3> QED
      BY <1>0, <3>1
  <2>4. CASE part = "all"
    <3>1. \A i \in 1 .. (n + 1) : lines[i] = batch[i]
      BY <1>0, <1>2, <1>5, <2>4
    <3>2. Extends(wal', wal, batch, n + 1)
      BY <1>5, <1>7, <1>9, <2>4, <3>1 DEF Extends
    <3> QED
      BY <1>0, <3>2
  <2> QED
    BY <2>2, <2>3, <2>4
<1> QED
  BY <1>7, <1>8, <1>9 DEF Appended

LEMMA FullAppendIs ==
  ASSUME StoredInv, Good(batch, Len(batch)), Len(batch) > 0,
         wal' = AppendLines(batch), tornTail' = FALSE, snapshot' = snapshot
  PROVE  /\ Appended
         /\ ReadableUpTo(wal', Len(wal')) => Extends(wal', wal, batch, Len(batch))
<1>1. batch \in Seq(Line) /\ GoodLines(batch) /\ Len(batch) \in 0 .. Len(batch)
  BY BatchIsLines
<1>2. /\ wal' \in Seq(Line) /\ GoodLines(wal')
      /\ ReadableUpTo(wal', Len(wal')) => Extends(wal', wal, batch, Len(batch))
  BY <1>1, AppendIs
<1> QED
  BY <1>1, <1>2 DEF Appended

LEMMA AppendFailsIs ==
  ASSUME StoredInv, Good(batch, Len(batch)), Len(batch) > 0, AppendFails(batch)
  PROVE  Appended
<1>0. Len(batch) \in Nat /\ DOMAIN batch = 1 .. Len(batch)
  BY BatchElem
<1>1. CASE AppendOpenFails
  <2>1. wal' = wal /\ tornTail' = tornTail /\ snapshot' = snapshot
    BY <1>1 DEF AppendOpenFails
  <2>2. Extends(wal', wal, batch, 0) /\ 0 \in 0 .. Len(batch)
    BY <1>0, <2>1, WalElem DEF Extends
  <2> QED
    BY <2>1, <2>2 DEF Appended, StoredInv
<1>2. CASE AppendMarshalFails(batch)
  <2>1. PICK j \in 1 .. Len(batch) :
          \E n \in 0 .. (j - 1), part \in {"none", "some", "all"} :
             PartialAppend(batch, n, part)
    BY <1>0, <1>2 DEF AppendMarshalFails
  <2>2. PICK n \in 0 .. (j - 1), part \in {"none", "some", "all"} :
           PartialAppend(batch, n, part)
    BY <2>1
  <2>3. snapshot' = snapshot /\ n \in 0 .. (Len(batch) - 1)
    BY <1>0, <1>2, <2>1, <2>2 DEF AppendMarshalFails
  <2> QED
    BY <2>2, <2>3, PartialAppendIs
<1>3. CASE AppendStops(batch)
  BY <1>3, PartialAppendIs DEF AppendStops
<1>4. CASE AppendSyncFails(batch)
  BY <1>4, FullAppendIs DEF AppendSyncFails
<1> QED
  BY <1>1, <1>2, <1>3, <1>4 DEF AppendFails

----------------------------------------------------------------------------
(* The history.                                                            *)

LEMMA EffectIs ==
  ASSUME StoredInv, Good(batch, Len(batch)), Distinct(batch, Len(batch))
  PROVE  /\ \A i \in 1 .. Len(batch) :
              /\ batch[i].id \in BatchIDs
              /\ Overwrite(EmptyMap, batch)[batch[i].id] = batch[i].val
         /\ \A id \in ID : Outside(batch, Len(batch), id) <=> id \notin BatchIDs
         /\ \A id \in ID : Overwrite(EmptyMap, batch)[id] \in Val \cup {None}
<1>0. Len(batch) \in Nat /\ DOMAIN batch = 1 .. Len(batch)
  BY BatchElem
<1>1. \A i \in 1 .. Len(batch) : /\ batch[i].id \in BatchIDs
                                 /\ Overwrite(EmptyMap, batch)[batch[i].id] = batch[i].val
  <2>1. \A i \in 1 .. Len(batch) : batch[i].id \in BatchIDs
    BY <1>0 DEF BatchIDs
  <2>2. Overwritten(EmptyMap, batch, Len(batch), Overwrite(EmptyMap, batch))
    BY <1>0, OverwriteIs
  <2> QED
    BY <2>1, <2>2 DEF Overwritten, Good
<1>2. \A id \in ID : Outside(batch, Len(batch), id) <=> id \notin BatchIDs
  BY <1>0 DEF BatchIDs, Outside
<1>3. ASSUME NEW id \in ID PROVE Overwrite(EmptyMap, batch)[id] \in Val \cup {None}
  <2>1. CASE Outside(batch, Len(batch), id)
    <3>1. Overwrite(EmptyMap, batch)[id] = EmptyMap[id]
      <4>1. Overwritten(EmptyMap, batch, Len(batch), Overwrite(EmptyMap, batch))
        BY <1>0, OverwriteIs
      <4> QED BY <2>1, <4>1 DEF Overwritten
    <3> QED
      BY <3>1 DEF EmptyMap
  <2>2. CASE ~Outside(batch, Len(batch), id)
    BY <1>1, <2>2, BatchElem DEF Outside
  <2> QED
    BY <2>1, <2>2
<1> QED
  BY <1>1, <1>2, <1>3

LEMMA MayTakeEffectIs ==
  ASSUME StoredInv, Good(batch, Len(batch)), Distinct(batch, Len(batch)), MayTakeEffect
  PROVE  /\ allowed' \in [ID -> SUBSET (Val \cup {None})] /\ aborted' = aborted
         /\ \A id \in ID : allowed[id] \subseteq allowed'[id]
         /\ \A i \in 1 .. Len(batch) : batch[i].val \in allowed'[batch[i].id]
<1>1. /\ aborted' = aborted
      /\ allowed' = [id \in ID |-> IF id \in BatchIDs
                                   THEN allowed[id] \cup {Overwrite(EmptyMap, batch)[id]}
                                   ELSE allowed[id]]
  BY DEF MayTakeEffect
<1>2. allowed \in [ID -> SUBSET (Val \cup {None})]
  BY DEF StoredInv
<1>3. allowed' \in [ID -> SUBSET (Val \cup {None})]
  BY <1>1, <1>2, EffectIs
<1>4. \A i \in 1 .. Len(batch) : batch[i].val \in allowed'[batch[i].id]
  BY <1>1, EffectIs DEF Good
<1> QED
  BY <1>1, <1>3, <1>4

LEMMA ReturnOKIs ==
  ASSUME StoredInv, Good(batch, Len(batch)), Distinct(batch, Len(batch)), ReturnOK
  PROVE  /\ allowed' \in [ID -> SUBSET (Val \cup {None})] /\ aborted' = aborted
         /\ \A i \in 1 .. Len(batch) : allowed'[batch[i].id] = {batch[i].val}
         /\ \A id \in ID : Outside(batch, Len(batch), id) => allowed'[id] = allowed[id]
<1>1. /\ aborted' = aborted
      /\ allowed' = [id \in ID |-> IF id \in BatchIDs
                                   THEN {Overwrite(EmptyMap, batch)[id]}
                                   ELSE allowed[id]]
  BY DEF ReturnOK
<1>2. allowed \in [ID -> SUBSET (Val \cup {None})]
  BY DEF StoredInv
<1>3. allowed' \in [ID -> SUBSET (Val \cup {None})]
  BY <1>1, <1>2, EffectIs
<1>4. \A i \in 1 .. Len(batch) : allowed'[batch[i].id] = {batch[i].val}
  BY <1>1, EffectIs DEF Good
<1>5. \A id \in ID : Outside(batch, Len(batch), id) => allowed'[id] = allowed[id]
  BY <1>1, EffectIs
<1> QED
  BY <1>1, <1>3, <1>4, <1>5

\* Operations on distinct ids after a log: each says what becomes of its id,
\* and the others are as before.
LEMMA SaysAfterAppend ==
  ASSUME NEW w1 \in Seq(Line), NEW w2, NEW s, NEW b, NEW m \in Nat,
         Extends(w2, w1, b, m), Distinct(b, m), NEW id
  PROVE  /\ \A i \in 1 .. m : b[i].id = id => Says(w2, s, Len(w2), id, b[i].val)
         /\ \A x : Outside(b, m, id) /\ Says(w1, s, Len(w1), id, x)
                     => Says(w2, s, Len(w2), id, x)
<1>0. Len(w1) \in Nat /\ Len(w2) = Len(w1) + m
  BY LenProperties DEF Extends
<1>1. ASSUME NEW j \in 1 .. Len(w2)
      PROVE  \/ j <= Len(w1) /\ j \in 1 .. Len(w1) /\ w2[j] = w1[j]
             \/ j - Len(w1) \in 1 .. m /\ w2[j] = b[j - Len(w1)]
  <2>1. CASE j <= Len(w1)
    BY <1>0, <2>1 DEF Extends
  <2>2. CASE j > Len(w1)
    <3>1. j - Len(w1) \in 1 .. m /\ Len(w1) + (j - Len(w1)) = j
      BY <1>0, <2>2
    <3>2. w2[Len(w1) + (j - Len(w1))] = b[j - Len(w1)]
      BY <3>1 DEF Extends
    <3> QED
      BY <3>1, <3>2
  <2> QED
    BY <1>0, <2>1, <2>2
<1>2. ASSUME NEW i \in 1 .. m, b[i].id = id
      PROVE  Says(w2, s, Len(w2), id, b[i].val)
  <2>1. Len(w1) + i \in 1 .. Len(w2) /\ w2[Len(w1) + i] = b[i]
    BY <1>0 DEF Extends
  <2>2. ASSUME NEW j \in 1 .. Len(w2), w2[j].id = id PROVE j <= Len(w1) + i
    <3>1. CASE j - Len(w1) \in 1 .. m /\ w2[j] = b[j - Len(w1)]
      <4>1. j - Len(w1) = i
        BY <1>2, <2>2, <3>1 DEF Distinct
      <4> QED
        BY <1>0, <4>1
    <3>2. CASE j <= Len(w1)
      BY <1>0, <3>2
    <3> QED
      BY <1>1, <3>1, <3>2
  <2> QED
    BY <1>2, <2>1, <2>2 DEF Says
<1>3. ASSUME NEW x, Outside(b, m, id), Says(w1, s, Len(w1), id, x)
      PROVE  Says(w2, s, Len(w2), id, x)
  <2>1. CASE \A j \in 1 .. Len(w1) : w1[j].id # id
    <3>1. x = s[id]
      BY <1>3, <2>1 DEF Says
    <3>2. \A j \in 1 .. Len(w2) : w2[j].id # id
      BY <1>1, <1>3, <2>1 DEF Outside
    <3> QED
      BY <3>1, <3>2 DEF Says
  <2>2. CASE ~\A j \in 1 .. Len(w1) : w1[j].id # id
    <3>1. PICK k \in 1 .. Len(w1) : /\ w1[k].id = id /\ w1[k].val = x
                                    /\ \A j \in 1 .. Len(w1) : w1[j].id = id => j <= k
      BY <1>3, <2>2 DEF Says
    <3>2. k \in 1 .. Len(w2) /\ w2[k] = w1[k]
      BY <1>0, <3>1 DEF Extends
    <3>3. \A j \in 1 .. Len(w2) : w2[j].id = id => j <= k
      BY <1>1, <1>3, <3>1 DEF Outside
    <3> QED
      BY <3>1, <3>2, <3>3 DEF Says
  <2> QED
    BY <2>1, <2>2
<1> QED
  BY <1>2, <1>3

\* Whatever part of a request reached the log, what the files say is allowed.
LEMMA FilesAfterAppend ==
  ASSUME StoredInv, FilesInv, Good(batch, Len(batch)), Distinct(batch, Len(batch)),
         Appended, MayTakeEffect
  PROVE  FilesInv'
<1> SUFFICES ASSUME ~aborted', ReadableUpTo(wal', Len(wal')), NEW id \in ID
             PROVE  \E x \in allowed'[id] : Says(wal', snapshot', Len(wal'), id, x)
  BY DEF FilesInv
<1>0. /\ wal \in Seq(Line) /\ Len(wal) \in Nat /\ Len(batch) \in Nat
  BY WalElem, BatchElem
<1>1. PICK m \in 0 .. Len(batch) : Extends(wal', wal, batch, m)
  BY DEF Appended
<1>2. m \in Nat /\ Distinct(batch, m)
  BY <1>0 DEF Distinct
<1>3. ReadableUpTo(wal, Len(wal)) /\ ~aborted
  BY <1>0, <1>1, <1>2, MayTakeEffectIs DEF ReadableUpTo, Extends
<1>4. PICK x \in allowed[id] : Says(wal, snapshot, Len(wal), id, x)
  BY <1>3 DEF FilesInv
<1>5. snapshot' = snapshot
  BY DEF Appended
<1>6. CASE Outside(batch, m, id)
  <2>1. Says(wal', snapshot, Len(wal'), id, x)
    BY <1>0, <1>1, <1>2, <1>4, <1>6, SaysAfterAppend
  <2> QED
    BY <1>4, <1>5, <2>1, MayTakeEffectIs
<1>7. CASE ~Outside(batch, m, id)
  <2>1. PICK i \in 1 .. m : batch[i].id = id
    BY <1>7 DEF Outside
  <2>2. Says(wal', snapshot, Len(wal'), id, batch[i].val)
    BY <1>0, <1>1, <1>2, <2>1, SaysAfterAppend
  <2>3. i \in 1 .. Len(batch)
    BY <1>0, <2>1
  <2> QED
    BY <1>5, <2>1, <2>2, <2>3, MayTakeEffectIs
<1> QED
  BY <1>6, <1>7

LEMMA LogOKIInv ==
  ASSUME IInv, LogOK PROVE IInv'
<1>0. /\ StoredInv /\ AtWal /\ FilesInv /\ Applied
      /\ Good(batch, Len(batch)) /\ Distinct(batch, Len(batch)) /\ Len(batch) > 0
  BY DEF LogOK, IInv, AtWal, Applied
<1>1. /\ MayTakeEffect /\ pc' = "snap"
      /\ wal' = AppendLines(batch) /\ tornTail' = FALSE /\ snapshot' = snapshot
      /\ index' = index /\ store' = store /\ batch' = batch /\ cur' = cur /\ saved' = saved
  BY DEF LogOK, AppendOK
<1>2. /\ Appended
      /\ ReadableUpTo(wal', Len(wal')) => Extends(wal', wal, batch, Len(batch))
  BY <1>0, <1>1, FullAppendIs
<1>3. FilesInv'
  BY <1>0, <1>1, <1>2, FilesAfterAppend
<1>4. /\ allowed' \in [ID -> SUBSET (Val \cup {None})] /\ aborted' = aborted
      /\ \A id \in ID : allowed[id] \subseteq allowed'[id]
      /\ \A i \in 1 .. Len(batch) : batch[i].val \in allowed'[batch[i].id]
  BY <1>0, <1>1, MayTakeEffectIs
<1>5. StoredInv'
  BY <1>0, <1>1, <1>2, <1>4 DEF StoredInv, Appended, PCs
<1>6. Served'
  <2> SUFFICES ASSUME ~aborted, NEW id \in ID PROVE store[id] \in allowed'[id]
    BY <1>1, <1>4 DEF Served
  <2>1. CASE Outside(batch, Len(batch), id)
    BY <1>0, <1>4, <2>1 DEF Applied
  <2>2. CASE ~Outside(batch, Len(batch), id)
    BY <1>0, <1>4, <2>2 DEF Applied, Outside
  <2> QED
    BY <2>1, <2>2
<1>7. Applied'
  BY <1>0, <1>1, <1>4 DEF Applied
<1>8. ASSUME ReadableUpTo(wal', Len(wal')), NEW i \in 1 .. Len(batch)
      PROVE  Says(wal', snapshot', Len(wal'), batch[i].id, batch[i].val)
  <2>1. wal \in Seq(Line) /\ Len(batch) \in Nat
    BY <1>0, WalElem, BatchElem
  <2> QED
    BY <1>0, <1>1, <1>2, <1>8, <2>1, SaysAfterAppend
<1>9. AtLogged'
  BY <1>1, <1>6, <1>7, <1>8 DEF AtLogged
<1> QED
  BY <1>1, <1>3, <1>5, <1>9 DEF IInv

LEMMA LogFailsAddIInv ==
  ASSUME IInv, LogFailsAdd PROVE IInv'
<1>0. /\ StoredInv /\ AtWal /\ FilesInv /\ Applied /\ IsAdd /\ Undoable
      /\ Good(batch, Len(batch)) /\ Distinct(batch, Len(batch)) /\ Len(batch) > 0
  BY DEF LogFailsAdd, IInv, AtWal, Applied
<1>1. /\ MayTakeEffect /\ pc' = "rollback" /\ cur' = 1 /\ AppendFails(batch)
      /\ index' = index /\ store' = store /\ batch' = batch /\ saved' = saved
  BY DEF LogFailsAdd
<1>2. Appended
  BY <1>0, <1>1, AppendFailsIs
<1>3. FilesInv'
  BY <1>0, <1>1, <1>2, FilesAfterAppend
<1>4. /\ allowed' \in [ID -> SUBSET (Val \cup {None})] /\ aborted' = aborted
      /\ \A id \in ID : allowed[id] \subseteq allowed'[id]
  BY <1>0, <1>1, MayTakeEffectIs
<1>5. StoredInv'
  BY <1>0, <1>1, <1>2, <1>4 DEF StoredInv, Appended, PCs
<1>6. AtRollback'
  BY <1>0, <1>1, <1>4 DEF Applied, Undoable, AtRollback, Good
<1> QED
  BY <1>1, <1>3, <1>5, <1>6 DEF IInv

LEMMA LogFailsDeleteIInv ==
  ASSUME IInv, LogFailsDelete PROVE IInv'
<1> DEFINE id0 == batch[1].id
<1>0. /\ StoredInv /\ AtWal /\ FilesInv /\ Applied /\ Restorable
      /\ Good(batch, Len(batch)) /\ Distinct(batch, Len(batch)) /\ Len(batch) > 0
  BY DEF LogFailsDelete, IInv, AtWal, Applied
<1>1. /\ MayTakeEffect /\ Return /\ AppendFails(batch) /\ pc' = "idle"
      /\ store' = [store EXCEPT ![id0] = saved] /\ index' = [index EXCEPT ![id0] = saved]
  BY DEF LogFailsDelete, Put, Return
<1>2. Appended
  BY <1>0, <1>1, AppendFailsIs
<1>3. FilesInv'
  BY <1>0, <1>1, <1>2, FilesAfterAppend
<1>4. /\ allowed' \in [ID -> SUBSET (Val \cup {None})] /\ aborted' = aborted
      /\ \A id \in ID : allowed[id] \subseteq allowed'[id]
  BY <1>0, <1>1, MayTakeEffectIs
<1>5. /\ store' \in [ID -> Stored] /\ index' \in [ID -> Stored] /\ index' = store'
      /\ snapshot' \in [ID -> Stored] /\ aborted' \in BOOLEAN
  BY <1>0, <1>1, <1>2, <1>4 DEF StoredInv, Restorable, Applied, Appended
<1>6. StoredInv'
  BY <1>0, <1>1, <1>2, <1>4, <1>5, ReturnStored DEF Appended
<1>7. Served'
  <2> SUFFICES ASSUME ~aborted, NEW id \in ID PROVE store'[id] \in allowed'[id]
    BY <1>4 DEF Served
  <2>1. CASE id = id0
    BY <1>0, <1>1, <1>4, <2>1 DEF Restorable, StoredInv
  <2>2. CASE id # id0
    <3>1. Outside(batch, Len(batch), id)
      BY <1>0, <2>2 DEF Outside, Restorable
    <3> QED
      BY <1>0, <1>1, <1>4, <2>2, <3>1 DEF Applied, StoredInv
  <2> QED
    BY <2>1, <2>2
<1> QED
  BY <1>1, <1>3, <1>5, <1>6, <1>7 DEF IInv, AtIdle

----------------------------------------------------------------------------
(* The snapshot.                                                           *)

LEMMA LoggedGood ==
  ASSUME AtLogged
  PROVE  /\ Good(batch, Len(batch)) /\ Distinct(batch, Len(batch)) /\ Len(batch) > 0
         /\ index = store
         /\ \A i \in 1 .. Len(batch) : store[batch[i].id] = batch[i].val
  BY DEF AtLogged, Applied

\* The client is told: the store holds the acknowledged state.
LEMMA ServedAfterOK ==
  ASSUME StoredInv, AtLogged, ReturnOK, store' = store
  PROVE  Served'
<1>1. /\ aborted' = aborted
      /\ \A i \in 1 .. Len(batch) : allowed'[batch[i].id] = {batch[i].val}
      /\ \A id \in ID : Outside(batch, Len(batch), id) => allowed'[id] = allowed[id]
  BY LoggedGood, ReturnOKIs
<1> SUFFICES ASSUME ~aborted, NEW id \in ID PROVE store[id] \in allowed'[id]
  BY <1>1 DEF Served
<1>2. CASE Outside(batch, Len(batch), id)
  BY <1>1, <1>2 DEF AtLogged, Served
<1>3. CASE ~Outside(batch, Len(batch), id)
  BY <1>1, <1>3, LoggedGood DEF Outside
<1> QED
  BY <1>2, <1>3

LEMMA SnapshotNotDueIInv ==
  ASSUME IInv, SnapshotNotDue PROVE IInv'
<1>0. StoredInv /\ AtLogged /\ FilesInv
  BY DEF SnapshotNotDue, IInv
<1>1. /\ ReturnOK /\ Return /\ pc' = "idle" /\ wal' = wal /\ snapshot' = snapshot
      /\ tornTail' = tornTail /\ store' = store /\ index' = index
  BY DEF SnapshotNotDue, ReturnOK, Return
<1>2. /\ allowed' \in [ID -> SUBSET (Val \cup {None})] /\ aborted' = aborted
      /\ \A i \in 1 .. Len(batch) : allowed'[batch[i].id] = {batch[i].val}
      /\ \A id \in ID : Outside(batch, Len(batch), id) => allowed'[id] = allowed[id]
  BY <1>0, <1>1, LoggedGood, ReturnOKIs
<1>3. StoredInv'
  BY <1>0, <1>1, <1>2, ReturnStored DEF StoredInv
<1>4. FilesInv'
  <2> SUFFICES ASSUME ~aborted, ReadableUpTo(wal, Len(wal)), NEW id \in ID
               PROVE  \E x \in allowed'[id] : Says(wal, snapshot, Len(wal), id, x)
    BY <1>1, <1>2 DEF FilesInv
  <2>1. CASE Outside(batch, Len(batch), id)
    BY <1>0, <1>2, <2>1 DEF FilesInv
  <2>2. CASE ~Outside(batch, Len(batch), id)
    <3>1. PICK i \in 1 .. Len(batch) : batch[i].id = id
      BY <2>2 DEF Outside
    <3>2. Says(wal, snapshot, Len(wal), id, batch[i].val)
      BY <1>0, <3>1 DEF AtLogged
    <3> QED
      BY <1>2, <3>1, <3>2
  <2> QED
    BY <2>1, <2>2
<1>5. AtIdle'
  BY <1>0, <1>1, LoggedGood, ServedAfterOK DEF AtIdle
<1> QED
  BY <1>1, <1>3, <1>4, <1>5 DEF IInv

LEMMA SnapshotDueIInv ==
  ASSUME IInv, SnapshotDue PROVE IInv'
<1>0. StoredInv /\ AtLogged /\ FilesInv
  BY DEF SnapshotDue, IInv
<1>1. StoredInv'
  BY <1>0 DEF SnapshotDue, StoredInv, PCs
<1>2. FilesInv'
  BY <1>0 DEF SnapshotDue, FilesInv
<1>3. AtLogged'
  BY <1>0 DEF SnapshotDue, AtLogged, Applied, Served
<1> QED
  BY <1>1, <1>2, <1>3 DEF SnapshotDue, IInv

\* A write that ends in an error after it was logged.
LEMMA ErrorIInv ==
  ASSUME IInv, ReturnError, UNCHANGED <<diskVars, memVars>>, index = store, Served
  PROVE  IInv'
<1>1. StoredInv'
  BY ReturnStored DEF IInv, StoredInv, ReturnError
<1>2. FilesInv'
  BY DEF IInv, FilesInv, ReturnError
<1>3. AtIdle'
  BY DEF AtIdle, Served, ReturnError
<1> QED
  BY <1>1, <1>2, <1>3 DEF IInv, ReturnError, Return

LEMMA SyncStepIInv ==
  ASSUME IInv, SyncStep PROVE IInv'
<1>0. StoredInv /\ AtLogged /\ FilesInv
  BY DEF SyncStep, IInv
<1>1. CASE SyncOK /\ pc' = "save" /\ UNCHANGED <<reqVars, histVars>>
  <2>1. StoredInv'
    BY <1>0, <1>1 DEF SyncStep, SyncOK, StoredInv, PCs
  <2>2. FilesInv'
    BY <1>0, <1>1 DEF SyncStep, SyncOK, FilesInv
  <2>3. AtLogged'
    BY <1>0, <1>1 DEF SyncStep, SyncOK, AtLogged, Applied, Served
  <2> QED
    BY <1>1, <2>1, <2>2, <2>3 DEF IInv
<1>2. CASE SyncFails /\ ReturnError
  BY <1>0, <1>2, ErrorIInv, LoggedGood DEF SyncStep, SyncFails, AtLogged
<1> QED
  BY <1>1, <1>2 DEF SyncStep

\* Saving a store that holds an allowed state keeps the files allowed.
LEMMA FilesAfterSave ==
  ASSUME StoredInv, FilesInv, Served, SaveSnapshotOK(store), UNCHANGED histVars
  PROVE  FilesInv'
<1> SUFFICES ASSUME ~aborted, ReadableUpTo(wal, Len(wal)), NEW id \in ID
             PROVE  \E x \in allowed[id] : Says(wal, store, Len(wal), id, x)
  BY DEF FilesInv, SaveSnapshotOK
<1>1. PICK x \in allowed[id] : Says(wal, snapshot, Len(wal), id, x)
  BY DEF FilesInv
<1>2. Says(wal, store, Len(wal), id, x) \/ Says(wal, store, Len(wal), id, store[id])
  BY <1>1, SaysOfSnapshot, WalElem
<1> QED
  BY <1>1, <1>2 DEF Served

LEMMA SaveStepIInv ==
  ASSUME IInv, SaveStep PROVE IInv'
<1>0. StoredInv /\ AtLogged /\ FilesInv /\ Served
  BY DEF SaveStep, IInv, AtLogged
<1>1. CASE SaveSnapshotOK(store) /\ pc' = "trunc" /\ UNCHANGED <<reqVars, histVars>>
  <2>1. /\ snapshot' = store /\ wal' = wal /\ tornTail' = tornTail /\ store' = store
        /\ index' = index /\ batch' = batch /\ allowed' = allowed /\ aborted' = aborted
        /\ cur' = cur /\ saved' = saved
    BY <1>1 DEF SaveStep, SaveSnapshotOK
  <2>2. StoredInv'
    BY <1>0, <1>1, <2>1 DEF StoredInv, PCs
  <2>3. FilesInv'
    BY <1>0, <1>1, FilesAfterSave
  <2>4. ASSUME ~aborted, ReadableUpTo(wal, Len(wal)), NEW i \in 1 .. Len(batch)
        PROVE  Says(wal, store, Len(wal), batch[i].id, batch[i].val)
    <3>1. Says(wal, snapshot, Len(wal), batch[i].id, batch[i].val)
      BY <1>0, <2>4 DEF AtLogged
    <3> QED
      BY <1>0, <3>1, SaysOfSnapshot, WalElem, LoggedGood
  <2>5. AtTrunc'
    BY <1>0, <2>1, <2>4 DEF AtTrunc, AtLogged, Applied, Served
  <2> QED
    BY <1>1, <2>2, <2>3, <2>5 DEF IInv
<1>2. CASE SaveSnapshotFails(store) /\ ReturnError
  BY <1>0, <1>2, ErrorIInv, LoggedGood DEF SaveStep, SaveSnapshotFails
<1> QED
  BY <1>1, <1>2 DEF SaveStep

\* An empty log: the files are the snapshot.
LEMMA FilesAfterTruncate ==
  ASSUME TruncateOK, snapshot = store, store' = store, Served'
  PROVE  FilesInv'
<1>1. wal' = <<>> /\ Len(wal') = 0 /\ snapshot' = store'
  BY EmptySeq DEF TruncateOK
<1>2. \A id \in ID : Says(wal', snapshot', Len(wal'), id, store'[id])
  BY <1>1, SaysNothing
<1> QED
  BY <1>2 DEF FilesInv, Served

LEMMA TruncateStored ==
  ASSUME TruncateOK
  PROVE  /\ wal' \in Seq(Line) /\ GoodLines(wal') /\ Len(wal') = 0 /\ tornTail' = FALSE
         /\ snapshot' = snapshot
<1>1. <<>> \in Seq(Line) /\ Len(<<>>) = 0
  BY EmptySeq
<1>2. GoodLines(<<>>)
  BY <1>1 DEF GoodLines
<1> QED
  BY <1>1, <1>2 DEF TruncateOK

LEMMA TruncateStepIInv ==
  ASSUME IInv, TruncateStep PROVE IInv'
<1>0. StoredInv /\ AtTrunc /\ AtLogged /\ FilesInv /\ Served /\ snapshot = store
  BY DEF TruncateStep, IInv, AtTrunc, AtLogged
<1>1. CASE TruncateOK /\ ReturnOK
  <2>1. /\ allowed' \in [ID -> SUBSET (Val \cup {None})] /\ aborted' = aborted
        /\ store' = store /\ index' = index
    BY <1>0, <1>1, LoggedGood, ReturnOKIs DEF TruncateStep
  <2>2. Served'
    BY <1>0, <1>1, <2>1, ServedAfterOK
  <2>3. FilesInv'
    BY <1>0, <1>1, <2>1, <2>2, FilesAfterTruncate
  <2>4. StoredInv'
    BY <1>0, <1>1, <2>1, ReturnStored, TruncateStored DEF StoredInv, ReturnOK
  <2>5. AtIdle'
    BY <1>0, <2>1, <2>2, LoggedGood DEF AtIdle
  <2> QED
    BY <1>1, <2>3, <2>4, <2>5 DEF IInv, ReturnOK, Return
<1>2. CASE TruncateFails /\ ReturnError
  BY <1>0, <1>2, ErrorIInv, LoggedGood DEF TruncateStep, TruncateFails
<1> QED
  BY <1>1, <1>2 DEF TruncateStep

----------------------------------------------------------------------------
(* Crash and recovery.                                                     *)

\* After a crash only the files count.
LEMMA LostIInv ==
  ASSUME StoredInv, LoseMemory, FilesInv',
         snapshot' \in [ID -> Stored], wal' \in Seq(Line), GoodLines(wal'),
         tornTail' \in BOOLEAN, tornTail' => Len(wal') > 0,
         aborted' \in BOOLEAN, allowed' \in [ID -> SUBSET (Val \cup {None})]
  PROVE  IInv'
<1>1. EmptyMap \in [ID -> Stored]
  BY DEF EmptyMap, Stored
<1>2. StoredInv'
  BY <1>1, EmptySeq DEF LoseMemory, StoredInv, PCs
<1> QED
  BY <1>2 DEF IInv, LoseMemory, AtDown

LEMMA CrashIInv ==
  ASSUME IInv, Crash PROVE IInv'
<1>1. FilesInv'
  BY DEF Crash, IInv, FilesInv
<1> QED
  BY <1>1, LostIInv DEF Crash, IInv, StoredInv

LEMMA CrashWhileLoggingIInv ==
  ASSUME IInv, CrashWhileLogging PROVE IInv'
<1>0. /\ StoredInv /\ FilesInv
      /\ Good(batch, Len(batch)) /\ Distinct(batch, Len(batch))
  BY DEF CrashWhileLogging, IInv, AtWal, Applied
<1>1. MayTakeEffect /\ LoseMemory /\ snapshot' = snapshot
  BY DEF CrashWhileLogging
<1>2. Appended
  <2>1. PICK n \in 0 .. (Len(batch) - 1), part \in {"none", "some", "all"} :
           PartialAppend(batch, n, part)
    BY DEF CrashWhileLogging
  <2> QED
    BY <1>0, <1>1, <2>1, PartialAppendIs
<1>3. FilesInv'
  BY <1>0, <1>1, <1>2, FilesAfterAppend
<1>4. allowed' \in [ID -> SUBSET (Val \cup {None})] /\ aborted' = aborted
  BY <1>0, <1>1, MayTakeEffectIs
<1> QED
  BY <1>0, <1>1, <1>2, <1>3, <1>4, LostIInv DEF Appended, StoredInv

LEMMA RestartIInv ==
  ASSUME IInv, Restart PROVE IInv'
<1>1. StoredInv'
  BY DEF Restart, IInv, StoredInv, PCs
<1>2. FilesInv'
  BY DEF Restart, IInv, FilesInv
<1> QED
  BY <1>1, <1>2 DEF Restart, IInv, AtDown

LEMMA LoadSnapshotOKIInv ==
  ASSUME IInv, LoadSnapshotOK PROVE IInv'
<1>0. StoredInv /\ FilesInv
  BY DEF IInv
<1>1. Restricted(snapshot, Loadable) = snapshot
  <2>1. snapshot \in [ID -> Stored]
    BY <1>0 DEF StoredInv
  <2>2. \A id \in ID : id \notin Loadable => snapshot[id] = None
    BY <2>1 DEF Loadable, Stored
  <2>3. \A id \in ID : (IF id \in Loadable THEN snapshot[id] ELSE None) = snapshot[id]
    BY <2>2
  <2> QED
    BY <2>1, <2>3 DEF Restricted
<1>2. /\ store' = snapshot /\ index' = snapshot /\ pc' = "replay" /\ cur' = 1
      /\ snapshot' = snapshot /\ wal' = wal /\ tornTail' = tornTail
      /\ batch' = batch /\ saved' = saved /\ allowed' = allowed /\ aborted' = aborted
  BY <1>1 DEF LoadSnapshotOK
<1>3. StoredInv'
  BY <1>0, <1>2 DEF StoredInv, PCs
<1>4. FilesInv'
  BY <1>0, <1>2 DEF FilesInv
<1>5. AtReplay'
  <2>1. Len(wal') \in Nat /\ cur' - 1 = 0 /\ cur' \in 1 .. (Len(wal') + 1)
    BY <1>0, <1>2, WalElem
  <2>2. ReadableUpTo(wal', 0)
    BY DEF ReadableUpTo
  <2>3. \A id \in ID : Says(wal', snapshot', 0, id, store'[id])
    BY <1>2, SaysNothing
  <2> QED
    BY <1>2, <2>1, <2>2, <2>3 DEF AtReplay
<1> QED
  BY <1>2, <1>3, <1>4, <1>5 DEF IInv

LEMMA LoadSnapshotFailsIInv ==
  ASSUME IInv, LoadSnapshotFails PROVE IInv'
<1>0. StoredInv
  BY DEF IInv
<1>1. PICK ids : store' = Restricted(snapshot, ids) /\ index' = Restricted(snapshot, ids)
  BY DEF LoadSnapshotFails
<1>2. Restricted(snapshot, ids) \in [ID -> Stored]
  BY <1>0 DEF StoredInv, Restricted, Stored
<1>3. /\ Return /\ aborted' = TRUE /\ allowed' = allowed /\ pc' = "idle"
      /\ snapshot' = snapshot /\ wal' = wal /\ tornTail' = tornTail
  BY DEF LoadSnapshotFails, Return
<1>4. StoredInv'
  BY <1>0, <1>1, <1>2, <1>3, ReturnStored DEF StoredInv
<1> QED
  BY <1>1, <1>3, <1>4 DEF IInv, FilesInv, AtIdle, Served

\* One more line: it decides for its id, and says nothing of the others.
LEMMA SaysNext ==
  ASSUME NEW w, NEW s, NEW n \in Nat, NEW id, NEW x, Says(w, s, n, id, x)
  PROVE  Says(w, s, n + 1, id, IF w[n + 1].id = id THEN w[n + 1].val ELSE x)
<1>1. CASE w[n + 1].id = id
  <2>1. n + 1 \in 1 .. (n + 1) /\ \A j \in 1 .. (n + 1) : j <= n + 1
    OBVIOUS
  <2> QED
    BY <1>1, <2>1 DEF Says
<1>2. CASE w[n + 1].id # id
  <2>1. \A j \in 1 .. (n + 1) : w[j].id = id => j \in 1 .. n
    BY <1>2
  <2>2. 1 .. n \subseteq 1 .. (n + 1)
    OBVIOUS
  <2>3. CASE \A j \in 1 .. n : w[j].id # id
    BY <1>2, <2>1, <2>3 DEF Says
  <2>4. CASE \E j \in 1 .. n : w[j].id = id
    <3>1. PICK k \in 1 .. n : /\ w[k].id = id /\ w[k].val = x
                              /\ \A j \in 1 .. n : w[j].id = id => j <= k
      BY <2>4 DEF Says
    <3>2. k \in 1 .. (n + 1) /\ \A j \in 1 .. (n + 1) : w[j].id = id => j <= k
      BY <2>1, <3>1
    <3> QED
      BY <1>2, <3>1, <3>2 DEF Says
  <2> QED
    BY <2>3, <2>4
<1> QED
  BY <1>1, <1>2

LEMMA ReplayLineIInv ==
  ASSUME IInv, ReplayLine PROVE IInv'
<1> DEFINE line == wal[cur]
<1>0. StoredInv /\ FilesInv /\ AtReplay
  BY DEF ReplayLine, IInv
<1>1. /\ Len(wal) \in Nat /\ cur \in 1 .. Len(wal) /\ cur - 1 \in Nat /\ (cur - 1) + 1 = cur
  BY <1>0, WalElem DEF ReplayLine, AtReplay
<1>2. Readable(line) /\ line.id \in ID /\ line.val \in Stored
  BY <1>0, <1>1 DEF ReplayLine, Readable, StoredInv, GoodLines
<1>3. /\ store' = [store EXCEPT ![line.id] = line.val]
      /\ index' = [index EXCEPT ![line.id] = line.val]
      /\ cur' = cur + 1 /\ pc' = pc /\ pc = "replay"
      /\ snapshot' = snapshot /\ wal' = wal /\ tornTail' = tornTail
      /\ batch' = batch /\ saved' = saved /\ allowed' = allowed /\ aborted' = aborted
  BY <1>2 DEF ReplayLine, Stored, Put
<1>4. StoredInv'
  BY <1>0, <1>1, <1>2, <1>3 DEF StoredInv, PCs
<1>5. FilesInv'
  BY <1>0, <1>3 DEF FilesInv
<1>6. \A id \in ID : Says(wal, snapshot, cur, id, store'[id])
  <2> SUFFICES ASSUME NEW id \in ID PROVE Says(wal, snapshot, cur, id, store'[id])
    OBVIOUS
  <2>1. Says(wal, snapshot, cur, id, IF line.id = id THEN line.val ELSE store[id])
    BY <1>0, <1>1, SaysNext DEF AtReplay
  <2>2. store'[id] = IF line.id = id THEN line.val ELSE store[id]
    BY <1>0, <1>3 DEF StoredInv
  <2> QED
    BY <2>1, <2>2
<1>7. ReadableUpTo(wal, cur)
  BY <1>0, <1>1, <1>2 DEF AtReplay, ReadableUpTo
<1>8. cur' - 1 = cur /\ cur' \in 1 .. (Len(wal') + 1)
  BY <1>1, <1>3
<1>9. AtReplay'
  BY <1>0, <1>3, <1>6, <1>7, <1>8 DEF AtReplay
<1> QED
  BY <1>3, <1>4, <1>5, <1>9 DEF IInv

LEMMA ReplayStopsIInv ==
  ASSUME IInv, ReplayStops PROVE IInv'
<1>0. StoredInv /\ AtReplay
  BY DEF ReplayStops, IInv
<1>1. /\ Return /\ aborted' = TRUE /\ allowed' = allowed /\ pc' = "idle"
      /\ snapshot' = snapshot /\ wal' = wal /\ tornTail' = tornTail
      /\ store' = store /\ index' = index
  BY DEF ReplayStops, Return
<1>2. StoredInv'
  BY <1>0, <1>1, ReturnStored DEF StoredInv
<1> QED
  BY <1>0, <1>1, <1>2 DEF IInv, FilesInv, AtIdle, Served, AtReplay

\* A file cannot be read: whatever was restored so far is served.
LEMMA UnreadableIInv ==
  ASSUME IInv, LoadSnapshotUnreadable \/ ReplayUnreadable PROVE IInv'
<1>0. StoredInv /\ index = store
  BY DEF LoadSnapshotUnreadable, ReplayUnreadable, IInv, AtReplay, AtDown
<1>1. /\ Return /\ aborted' = TRUE /\ allowed' = allowed /\ pc' = "idle"
      /\ snapshot' = snapshot /\ wal' = wal /\ tornTail' = tornTail
      /\ store' = store /\ index' = index
  BY DEF LoadSnapshotUnreadable, ReplayUnreadable, ReadFails, Return
<1>2. StoredInv'
  BY <1>0, <1>1, ReturnStored DEF StoredInv
<1> QED
  BY <1>0, <1>1, <1>2 DEF IInv, FilesInv, AtIdle, Served

\* The whole log was replayed: the store is what the files say.
LEMMA ReplayDoneIInv ==
  ASSUME IInv, ReplayDone PROVE IInv'
<1>0. StoredInv /\ FilesInv /\ AtReplay
  BY DEF ReplayDone, IInv
<1>1. Len(wal) \in Nat /\ cur - 1 = Len(wal)
  BY <1>0, WalElem DEF ReplayDone, AtReplay
<1>2. /\ store' = store /\ index' = index /\ pc' = "restoreSave" /\ cur' = 0
      /\ snapshot' = snapshot /\ wal' = wal /\ tornTail' = tornTail
      /\ batch' = batch /\ saved' = saved /\ allowed' = allowed /\ aborted' = aborted
  BY DEF ReplayDone
<1>3. StoredInv'
  BY <1>0, <1>2 DEF StoredInv, PCs
<1>4. FilesInv'
  BY <1>0, <1>2 DEF FilesInv
<1>5. Served
  <2> SUFFICES ASSUME ~aborted, NEW id \in ID PROVE store[id] \in allowed[id]
    BY DEF Served
  <2>1. ReadableUpTo(wal, Len(wal)) /\ Says(wal, snapshot, Len(wal), id, store[id])
    BY <1>0, <1>1 DEF AtReplay
  <2>2. PICK x \in allowed[id] : Says(wal, snapshot, Len(wal), id, x)
    BY <1>0, <2>1 DEF FilesInv
  <2>3. x = store[id]
    BY <1>1, <2>1, <2>2, SaysUnique
  <2> QED
    BY <2>2, <2>3
<1>6. AtIdle'
  BY <1>0, <1>2, <1>5 DEF AtIdle, AtReplay, Served
<1> QED
  BY <1>2, <1>3, <1>4, <1>6 DEF IInv

LEMMA RestoreSaveIInv ==
  ASSUME IInv, RestoreSave PROVE IInv'
<1>0. StoredInv /\ FilesInv /\ AtIdle /\ Served
  BY DEF RestoreSave, IInv, AtIdle
<1>1. CASE SaveSnapshotOK(store) /\ pc' = "restoreTrunc" /\ UNCHANGED <<reqVars, histVars>>
  <2>1. /\ snapshot' = store /\ wal' = wal /\ tornTail' = tornTail /\ store' = store
        /\ index' = index /\ batch' = batch /\ allowed' = allowed /\ aborted' = aborted
        /\ cur' = cur /\ saved' = saved
    BY <1>1 DEF RestoreSave, SaveSnapshotOK
  <2>2. StoredInv'
    BY <1>0, <1>1, <2>1 DEF StoredInv, PCs
  <2>3. FilesInv'
    BY <1>0, <1>1, FilesAfterSave
  <2>4. AtRestoreTrunc'
    BY <1>0, <2>1 DEF AtRestoreTrunc, AtIdle, Served
  <2> QED
    BY <1>1, <2>2, <2>3, <2>4 DEF IInv
<1>2. CASE SaveSnapshotFails(store) /\ ReturnError
  BY <1>0, <1>2, ErrorIInv DEF RestoreSave, SaveSnapshotFails, AtIdle
<1> QED
  BY <1>1, <1>2 DEF RestoreSave

LEMMA RestoreTruncateIInv ==
  ASSUME IInv, RestoreTruncate PROVE IInv'
<1>0. StoredInv /\ FilesInv /\ index = store /\ Served /\ snapshot = store
  BY DEF RestoreTruncate, IInv, AtRestoreTrunc, AtIdle
<1>1. CASE TruncateOK
  <2>1. /\ Return /\ pc' = "idle" /\ allowed' = allowed /\ aborted' = aborted
        /\ store' = store /\ index' = index
    BY DEF RestoreTruncate, ReturnError, Return
  <2>2. Served'
    BY <1>0, <2>1 DEF Served
  <2>3. FilesInv'
    BY <1>0, <1>1, <2>1, <2>2, FilesAfterTruncate
  <2>4. StoredInv'
    BY <1>0, <1>1, <2>1, ReturnStored, TruncateStored DEF StoredInv
  <2> QED
    BY <1>0, <2>1, <2>2, <2>3, <2>4 DEF IInv, AtIdle
<1>2. CASE TruncateFails
  BY <1>0, <1>2, ErrorIInv DEF RestoreTruncate, TruncateFails
<1> QED
  BY <1>1, <1>2 DEF RestoreTruncate

----------------------------------------------------------------------------
(* The theorems.                                                           *)

LEMMA NextIInv ==
  ASSUME IInv, [Next]_vars PROVE IInv'
<1>1. CASE \E b \in Batches : AddVectors(b)
  BY <1>1, AddVectorsIInv
<1>2. CASE \E id \in ID : DeleteVector(id)
  BY <1>2, DeleteVectorIInv
<1>3. CASE Add
  BY <1>3, AddToIndexIInv, RefuseVectorIInv, UpsertVectorsIInv, AddToANNIInv,
     RefuseByANNIInv, RollbackOneIInv, RollbackDoneIInv DEF Add
<1>4. CASE Delete
  BY <1>4, DeleteFromIndexIInv, DeleteFromStoreIInv, DeleteFromANNIInv DEF Delete
<1>5. CASE Log
  BY <1>5, LogOKIInv, LogFailsAddIInv, LogFailsDeleteIInv DEF Log
<1>6. CASE MaybeSnapshot
  BY <1>6, SnapshotNotDueIInv, SnapshotDueIInv, SyncStepIInv, SaveStepIInv,
     TruncateStepIInv DEF MaybeSnapshot
<1>7. CASE Crash \/ CrashWhileLogging \/ Restart
  BY <1>7, CrashIInv, CrashWhileLoggingIInv, RestartIInv
<1>8. CASE RestoreState
  BY <1>8, LoadSnapshotOKIInv, LoadSnapshotFailsIInv, ReplayLineIInv, ReplayStopsIInv,
     UnreadableIInv, ReplayDoneIInv, RestoreSaveIInv, RestoreTruncateIInv DEF RestoreState
<1>9. CASE UNCHANGED vars
  <2>1. /\ UNCHANGED <<snapshot, wal, tornTail, index, store, pc, batch, cur, saved>>
        /\ UNCHANGED <<allowed, aborted>>
    BY <1>9 DEF vars
  <2>2. StoredInv' /\ FilesInv'
    BY <2>1 DEF IInv, StoredInv, FilesInv
  <2>3. /\ AtIdle' <=> AtIdle
        /\ AtRestoreTrunc' <=> AtRestoreTrunc
        /\ AtIndex' <=> AtIndex
        /\ AtUpsert' <=> AtUpsert
        /\ AtAnn' <=> AtAnn
        /\ AtRollback' <=> AtRollback
        /\ AtDown' <=> AtDown
    BY <2>1 DEF AtDown, AtIdle, AtRestoreTrunc, AtIndex, AtUpsert, AtAnn, AtRollback, Served,
       Indexed, Applied, Undoable, IsAdd
  <2>4. /\ AtDelIndex' <=> AtDelIndex
        /\ AtDelStore' <=> AtDelStore
        /\ AtDelAnn' <=> AtDelAnn
        /\ AtWal' <=> AtWal
        /\ AtLogged' <=> AtLogged
        /\ AtTrunc' <=> AtTrunc
        /\ AtReplay' <=> AtReplay
    BY <2>1 DEF AtDelIndex, AtDelStore, AtDelAnn, AtWal, AtLogged, AtTrunc, AtReplay,
       AtIdle, Served, Restorable, Applied, Undoable, IsAdd, IsDelete
  <2> QED
    BY <2>1, <2>2, <2>3, <2>4 DEF IInv
<1> QED
  BY <1>1, <1>2, <1>3, <1>4, <1>5, <1>6, <1>7, <1>8, <1>9 DEF Next

\* The invariant holds of every execution of the service, whatever faults
\* occur and wherever the process crashes.
THEOREM IInvHolds == Spec => []IInv
  BY InitIInv, NextIInv, PTL DEF Spec

\* What GetVector answers between writes is, for each id, the effect of the
\* last acknowledged write or of a later one that ended in an error or in a
\* crash, unless a recovery gave up (service.go AddVectors, DeleteVector,
\* maybeSnapshot, restoreState).
THEOREM AckedWritesAreServed == Spec => []AckedWritesServed
<1>1. IInv => AckedWritesServed
  BY DEF IInv, AtIdle, Served, AckedWritesServed
<1> QED
  BY <1>1, IInvHolds, PTL

\* Between writes the exact index and the payload store hold the same
\* vectors, after every rollback, undone delete and recovery.
THEOREM IndexAndStoreAgree == Spec => []IndexMatchesStore
<1>1. IInv => IndexMatchesStore
  BY DEF IInv, AtIdle, IndexMatchesStore
<1> QED
  BY <1>1, IInvHolds, PTL

LEMMA RecoveredIs ==
  ASSUME wal \in Seq(Line), NEW id \in ID, NEW x, Says(wal, snapshot, Len(wal), id, x)
  PROVE  Recovered[id] = x
<1>0. Len(wal) \in Nat /\ DOMAIN wal = 1 .. Len(wal)
  BY LenProperties
<1>1. CASE \A j \in DOMAIN wal : wal[j].id # id
  BY <1>0, <1>1 DEF Says, Recovered
<1>2. CASE \E j \in DOMAIN wal : wal[j].id = id
  <2> DEFINE Last(k) == wal[k].id = id /\ \A j \in DOMAIN wal : wal[j].id = id => j <= k
             last == CHOOSE k \in DOMAIN wal : Last(k)
  <2>1. PICK k \in DOMAIN wal : Last(k) /\ wal[k].val = x
    BY <1>0, <1>2 DEF Says
  <2>2. last \in DOMAIN wal /\ Last(last)
    BY <2>1
  <2>3. last = k
    BY <1>0, <2>1, <2>2
  <2>4. Recovered[id] = wal[last].val
    BY <1>2 DEF Recovered
  <2> QED
    BY <2>1, <2>3, <2>4
<1> QED
  BY <1>1, <1>2

\* Whenever the process dies, in a write, a snapshot or a recovery, a restart
\* that can read the whole log recovers an acknowledged state from the files
\* (persistence.go AppendWALBatch, SaveSnapshot, TruncateWAL).
THEOREM FilesAreCrashSafe == Spec => []CrashSafe
<1>1. ASSUME IInv PROVE CrashSafe
  <2> SUFFICES ASSUME AllReadable, ~aborted, NEW id \in ID
               PROVE  Recovered[id] \in allowed[id]
    BY DEF CrashSafe
  <2>1. StoredInv /\ FilesInv /\ wal \in Seq(Line) /\ DOMAIN wal = 1 .. Len(wal)
    BY <1>1, WalElem DEF IInv
  <2>2. PICK x \in allowed[id] : Says(wal, snapshot, Len(wal), id, x)
    BY <2>1 DEF FilesInv, AllReadable, ReadableUpTo
  <2> QED
    BY <2>1, <2>2, RecoveredIs
<1> QED
  BY <1>1, IInvHolds, PTL

----------------------------------------------------------------------------
(* Types of the ANN index, the resolver and the counters.                  *)

AnnTypeOK(a) ==
  /\ a.dim \in Nat /\ AnnNodes(a) \subseteq Nat /\ a.dead \subseteq AnnNodes(a)
  /\ a.vec \in [AnnNodes(a) -> Val]

ResolverTypeOK == idToInternal \in [ID -> Nat] /\ nextInternal \in Nat
CountersTypeOK == persistOps \in Nat /\ pendingOps \in Nat
MemTypeOK == AnnTypeOK(ann) /\ ResolverTypeOK /\ CountersTypeOK

LEMMA EmptyAnnType == AnnTypeOK(EmptyAnn) /\ Unassigned \in [ID -> Nat]
<1>1. <<>> \in Seq(Val) /\ Len(<<>>) = 0
  BY EmptySeq
<1>2. DOMAIN <<>> = {} /\ <<>> \in [DOMAIN <<>> -> Val]
  BY <1>1, LenProperties
<1> QED
  BY <1>2 DEF AnnTypeOK, EmptyAnn, AnnNodes, Unassigned

LEMMA AnnAddType ==
  ASSUME NEW a, AnnTypeOK(a), NEW n \in Nat, NEW val \in Val
  PROVE  AnnTypeOK(AnnAdd(a, n, val))
<1> DEFINE v == [m \in AnnNodes(a) \cup {n} |-> IF m = n THEN val ELSE a.vec[m]]
           r == AnnAdd(a, n, val)
<1>1. v \in [AnnNodes(a) \cup {n} -> Val] /\ DOMAIN v = AnnNodes(a) \cup {n}
  BY DEF AnnTypeOK
<1>2. r.dim = Dim[val] /\ r.dead = a.dead \ {n} /\ r.vec = v
  BY DEF AnnAdd
<1> HIDE DEF v, r
<1>3. AnnTypeOK(r)
  BY <1>1, <1>2, ServiceAssumption DEF AnnTypeOK, AnnNodes
<1> QED
  BY <1>3 DEF r

LEMMA AnnDeleteType ==
  ASSUME NEW a, AnnTypeOK(a), NEW n PROVE AnnTypeOK(AnnDelete(a, n))
  BY DEF AnnTypeOK, AnnDelete, AnnNodes

LEMMA AssignAllType ==
  ASSUME NEW ids \in SUBSET ID, NEW r \in [ID -> Nat], NEW next \in Nat,
         AssignAll(ids, r, next)
  PROVE  ResolverTypeOK'
<1> DEFINE fresh == {id \in ids : r[id] = 0}
<1>1. Cardinality(fresh) \in Nat
  <2>1. IsFiniteSet(fresh)
    BY ServiceAssumption, FS_Subset
  <2> QED
    BY <2>1, FS_CardinalityType
<1>2. nextInternal' = next + Cardinality(fresh)
  BY DEF AssignAll
<1>3. PICK f \in [fresh -> (next + 1) .. (next + Cardinality(fresh))] :
         idToInternal' = [id \in ID |-> IF id \in fresh THEN f[id] ELSE r[id]]
  BY DEF AssignAll
<1> HIDE DEF fresh
<1>4. \A id \in fresh : f[id] \in Nat
  BY <1>1, <1>3
<1> QED
  BY <1>1, <1>2, <1>3, <1>4 DEF ResolverTypeOK

LEMMA AnnOverType ==
  ASSUME NEW map \in [ID -> Stored], NEW members \in SUBSET Live(map), NEW d \in Nat,
         ResolverTypeOK'
  PROVE  AnnTypeOK(AnnOver(map, members, d))
<1> DEFINE nodes == {idToInternal'[id] : id \in members}
           v == [n \in nodes |-> map[CHOOSE id \in members : idToInternal'[id] = n]]
           r == AnnOver(map, members, d)
<1>1. nodes \subseteq Nat
  BY DEF ResolverTypeOK, Live
<1>2. ASSUME NEW n \in nodes
      PROVE  map[CHOOSE id \in members : idToInternal'[id] = n] \in Val
  <2>1. (CHOOSE id \in members : idToInternal'[id] = n) \in members
    OBVIOUS
  <2> QED
    BY <2>1 DEF Live, Stored
<1>3. v \in [nodes -> Val] /\ DOMAIN v = nodes
  BY <1>2
<1>4. r.dim = d /\ r.dead = {} /\ r.vec = v
  BY DEF AnnOver
<1> HIDE DEF nodes, v, r
<1>5. AnnTypeOK(r)
  BY <1>1, <1>3, <1>4 DEF AnnTypeOK, AnnNodes
<1> QED
  BY <1>5 DEF r

LEMMA RebuildANNType ==
  ASSUME NEW idx \in [ID -> Stored], NEW r \in [ID -> Nat], NEW next \in Nat,
         RebuildANN(idx, r, next)
  PROVE  AnnTypeOK(ann') /\ ResolverTypeOK'
<1>1. ResolverTypeOK'
  BY AssignAllType DEF RebuildANN, Live
<1>2. CASE Live(idx) = {}
  BY <1>1, <1>2, EmptyAnnType DEF RebuildANN
<1>3. CASE Live(idx) # {}
  <2>1. PICK d \in {Dim[idx[id]] : id \in Live(idx)} :
           ann' = AnnOver(idx, {id \in Live(idx) : Dim[idx[id]] = d}, d)
    BY <1>3 DEF RebuildANN
  <2>2. d \in Nat
    <3>1. \A id \in Live(idx) : idx[id] \in Val
      BY DEF Live, Stored
    <3> QED
      BY <2>1, <3>1, ServiceAssumption
  <2>3. AnnTypeOK(AnnOver(idx, {id \in Live(idx) : Dim[idx[id]] = d}, d))
    BY <1>1, <2>2, AnnOverType
  <2> QED
    BY <1>1, <2>1, <2>3
<1> QED
  BY <1>2, <1>3

LEMMA AppendCounter ==
  ASSUME StoredInv, CountersTypeOK, AppendOK(batch) \/ AppendFails(batch)
  PROVE  pendingOps' \in Nat
<1>1. Len(batch) \in Nat
  BY BatchElem
<1> QED
  BY <1>1 DEF CountersTypeOK, AppendOK, AppendFails, AppendOpenFails, AppendMarshalFails,
     AppendStops, AppendSyncFails

\* The steps that change the ANN index or the resolver.
LEMMA AddToANNType ==
  ASSUME IInv, MemTypeOK, AddToANN \/ RefuseByANN PROVE MemTypeOK'
<1>1. /\ StoredInv /\ cur \in 1 .. Len(batch)
      /\ batch[cur].id \in ID /\ batch[cur].val # None
  BY DEF IInv, AddToANN, RefuseByANN, AtAnn, Applied, Good, IsAdd
<1>2. batch[cur].val \in Val
  BY <1>1, BatchElem
<1>3. ResolverTypeOK' /\ idToInternal'[batch[cur].id] \in Nat
  BY <1>1 DEF AddToANN, RefuseByANN, AssignID, MemTypeOK, ResolverTypeOK
<1>4. CountersTypeOK'
  BY DEF AddToANN, RefuseByANN, MemTypeOK, CountersTypeOK
<1>5. CASE AddToANN
  <2>1. ann' = AnnAdd(ann, idToInternal'[batch[cur].id], batch[cur].val)
    BY <1>5 DEF AddToANN
  <2>2. AnnTypeOK(AnnAdd(ann, idToInternal'[batch[cur].id], batch[cur].val))
    BY <1>2, <1>3, AnnAddType DEF MemTypeOK
  <2>3. AnnTypeOK(ann')
    BY <2>1, <2>2
  <2> QED
    BY <1>3, <1>4, <2>3 DEF MemTypeOK
<1>6. CASE RefuseByANN
  <2>1. ann' = ann
    BY <1>6 DEF RefuseByANN
  <2> QED
    BY <1>3, <1>4, <2>1 DEF MemTypeOK
<1> QED
  BY <1>5, <1>6

LEMMA RebuildType ==
  ASSUME IInv, MemTypeOK,
         RollbackDone \/ LogOK \/ LogFailsDelete \/ LoadSnapshotOK \/ ReplayDone
  PROVE  MemTypeOK'
<1>0. /\ StoredInv /\ index \in [ID -> Stored] /\ idToInternal \in [ID -> Nat]
      /\ nextInternal \in Nat /\ AnnTypeOK(ann) /\ CountersTypeOK
  BY DEF IInv, StoredInv, MemTypeOK, ResolverTypeOK
<1>1. CASE RollbackDone \/ ReplayDone
  <2>1. /\ RebuildANN(index, idToInternal, nextInternal)
        /\ persistOps' = persistOps /\ pendingOps' = pendingOps
    BY <1>1 DEF RollbackDone, ReplayDone
  <2> QED
    BY <1>0, <2>1, RebuildANNType DEF MemTypeOK, CountersTypeOK
<1>2. CASE LogOK
  <2>1. AppendOK(batch) /\ persistOps' = persistOps
    BY <1>2 DEF LogOK
  <2>2. CountersTypeOK'
    BY <1>0, <2>1, AppendCounter DEF CountersTypeOK
  <2>3. AnnTypeOK(ann') /\ ResolverTypeOK'
    <3>1. CASE RebuildANN(index, idToInternal, nextInternal)
      BY <1>0, <3>1, RebuildANNType
    <3>2. CASE UNCHANGED <<ann, idToInternal, nextInternal>>
      BY <1>0, <3>2 DEF ResolverTypeOK
    <3> QED
      BY <1>2, <3>1, <3>2 DEF LogOK
  <2> QED
    BY <2>2, <2>3 DEF MemTypeOK
<1>3. CASE LogFailsDelete
  <2> DEFINE r == [idToInternal EXCEPT ![batch[1].id] = nextInternal + 1]
  <2>1. /\ AppendFails(batch) /\ persistOps' = persistOps
        /\ RebuildANN(index', r, nextInternal + 1)
    BY <1>3 DEF LogFailsDelete
  <2>2. index' \in [ID -> Stored]
    BY <1>3, LogFailsDeleteIInv DEF IInv, StoredInv
  <2>3. r \in [ID -> Nat] /\ nextInternal + 1 \in Nat
    <3>1. PICK n \in Nat : n = nextInternal + 1
      BY <1>0
    <3>2. [idToInternal EXCEPT ![batch[1].id] = n] \in [ID -> Nat]
      BY <1>0
    <3> QED
      BY <3>1, <3>2
  <2>4. AnnTypeOK(ann') /\ ResolverTypeOK'
    BY <2>1, <2>2, <2>3, RebuildANNType
  <2> QED
    BY <1>0, <2>1, <2>4, AppendCounter DEF MemTypeOK, CountersTypeOK
<1>4. CASE LoadSnapshotOK
  <2>1. /\ RebuildANN(index', Unassigned, 0)
        /\ persistOps' = persistOps /\ pendingOps' = pendingOps
    BY <1>4 DEF LoadSnapshotOK
  <2>2. index' \in [ID -> Stored]
    BY <1>4, LoadSnapshotOKIInv DEF IInv, StoredInv
  <2>3. AnnTypeOK(ann') /\ ResolverTypeOK'
    BY <2>1, <2>2, EmptyAnnType, RebuildANNType
  <2> QED
    BY <1>0, <2>1, <2>3 DEF MemTypeOK, CountersTypeOK
<1> QED
  BY <1>1, <1>2, <1>3, <1>4

LEMMA LoadSnapshotFailsType ==
  ASSUME IInv, MemTypeOK, LoadSnapshotFails PROVE MemTypeOK'
<1>0. snapshot \in [ID -> Stored]
  BY DEF IInv, StoredInv
<1>1. PICK done \in SUBSET Loadable, last \in Loadable, d \in {Dim[val] : val \in Val} :
        /\ AssignAll(done \cup {last}, Unassigned, 0)
        /\ ann' = AnnOver(snapshot, done, d)
  BY DEF LoadSnapshotFails
<1>2. Loadable \subseteq ID /\ Loadable \subseteq Live(snapshot) /\ d \in Nat
  BY ServiceAssumption DEF Loadable, Live
<1>3. done \cup {last} \in SUBSET ID /\ done \in SUBSET Live(snapshot)
  BY <1>2
<1>4. ResolverTypeOK'
  BY <1>1, <1>3, EmptyAnnType, AssignAllType
<1>5. AnnTypeOK(AnnOver(snapshot, done, d))
  BY <1>0, <1>2, <1>3, <1>4, AnnOverType
<1>6. CountersTypeOK'
  BY DEF LoadSnapshotFails, MemTypeOK, CountersTypeOK
<1> QED
  BY <1>1, <1>4, <1>5, <1>6 DEF MemTypeOK

LEMMA DeleteFromANNType ==
  ASSUME IInv, MemTypeOK, DeleteFromANN PROVE MemTypeOK'
<1>1. batch[1].id \in ID
  BY DEF IInv, DeleteFromANN, AtDelAnn, Restorable
<1>2. PICK n : ann' = AnnDelete(ann, n)
  BY DEF DeleteFromANN
<1>3. AnnTypeOK(ann')
  BY <1>2, AnnDeleteType DEF MemTypeOK
<1>4. ResolverTypeOK' /\ CountersTypeOK'
  BY <1>1 DEF DeleteFromANN, MemTypeOK, ResolverTypeOK, CountersTypeOK
<1> QED
  BY <1>3, <1>4 DEF MemTypeOK

\* The steps that change neither, in groups.
LEMMA SameMemType ==
  ASSUME MemTypeOK, UNCHANGED <<ann, idToInternal, nextInternal>>, CountersTypeOK'
  PROVE  MemTypeOK'
  BY DEF MemTypeOK, ResolverTypeOK

LEMMA LostMemType ==
  ASSUME LoseMemory, pendingOps' = 0 PROVE MemTypeOK'
<1>1. ann' = EmptyAnn /\ idToInternal' = Unassigned /\ nextInternal' = 0 /\ persistOps' = 0
  BY DEF LoseMemory
<1>2. AnnTypeOK(ann')
  BY <1>1, EmptyAnnType
<1> QED
  BY <1>1, <1>2, EmptyAnnType DEF MemTypeOK, ResolverTypeOK, CountersTypeOK

LEMMA NextMemType ==
  ASSUME IInv, MemTypeOK, [Next]_vars PROVE MemTypeOK'
<1>0. CountersTypeOK /\ StoredInv
  BY DEF MemTypeOK, IInv
<1>1. CASE (\E b \in Batches : AddVectors(b)) \/ \E id \in ID : DeleteVector(id)
  BY <1>0, <1>1, SameMemType DEF AddVectors, DeleteVector, CountersTypeOK
<1>2. CASE Add
  <2>1. CASE AddToIndex \/ RefuseVector \/ UpsertVectors \/ RollbackOne
    BY <1>0, <2>1, SameMemType
    DEF AddToIndex, RefuseVector, UpsertVectors, RollbackOne, CountersTypeOK
  <2> QED
    BY <1>2, <2>1, AddToANNType, RebuildType DEF Add
<1>3. CASE Delete
  <2>1. CASE DeleteFromIndex \/ DeleteFromStore
    BY <1>0, <2>1, SameMemType DEF DeleteFromIndex, DeleteFromStore, CountersTypeOK
  <2> QED
    BY <1>3, <2>1, DeleteFromANNType DEF Delete
<1>4. CASE Log
  <2>1. CASE LogFailsAdd
    BY <1>0, <2>1, SameMemType, AppendCounter DEF LogFailsAdd, CountersTypeOK
  <2> QED
    BY <1>4, <2>1, RebuildType DEF Log
<1>5. CASE MaybeSnapshot
  <2>1. UNCHANGED <<ann, idToInternal, nextInternal>>
    BY <1>5 DEF MaybeSnapshot, SnapshotNotDue, SnapshotDue, SyncStep, SaveStep, TruncateStep
  <2>2. persistOps' \in Nat
    BY <1>0, <1>5 DEF MaybeSnapshot, SnapshotNotDue, SnapshotDue, SyncStep, SaveStep,
       TruncateStep, CountersTypeOK
  <2>3. pendingOps' \in Nat
    BY <1>0, <1>5 DEF MaybeSnapshot, SnapshotNotDue, SnapshotDue, SyncStep, SaveStep,
       TruncateStep, CountersTypeOK, SyncOK, SyncFails, SaveSnapshotOK, SaveSnapshotFails,
       TruncateOK, TruncateFails
  <2> QED
    BY <2>1, <2>2, <2>3, SameMemType DEF CountersTypeOK
<1>6. CASE Crash \/ CrashWhileLogging
  BY <1>6, LostMemType DEF Crash, CrashWhileLogging
<1>7. CASE Restart
  BY <1>0, <1>7, SameMemType DEF Restart, CountersTypeOK
<1>8. CASE RestoreState
  <2>1. CASE ReplayLine \/ ReplayStops
    BY <1>0, <2>1, SameMemType DEF ReplayLine, ReplayStops, CountersTypeOK
  <2>3. CASE LoadSnapshotUnreadable \/ ReplayUnreadable
    BY <1>0, <2>3, SameMemType
    DEF LoadSnapshotUnreadable, ReplayUnreadable, ReadFails, CountersTypeOK
  <2>2. CASE RestoreSave \/ RestoreTruncate
    BY <1>0, <2>2, SameMemType
    DEF RestoreSave, RestoreTruncate, SaveSnapshotOK, SaveSnapshotFails, TruncateOK,
        TruncateFails, CountersTypeOK
  <2> QED
    BY <1>8, <2>1, <2>2, <2>3, RebuildType, LoadSnapshotFailsType DEF RestoreState
<1>9. CASE UNCHANGED vars
  BY <1>0, <1>9, SameMemType DEF vars, CountersTypeOK
<1> QED
  BY <1>1, <1>2, <1>3, <1>4, <1>5, <1>6, <1>7, <1>8, <1>9 DEF Next

\* What a step does to the record of the recoveries that gave up.
LEMMA NextHistory ==
  ASSUME [Next]_vars
  PROVE  \/ UNCHANGED <<aborted, unread>>
         \/ aborted' = TRUE /\ unread' = unread /\ (LoadSnapshotFails \/ ReplayStops)
         \/ aborted' = TRUE /\ unread' = TRUE /\ (LoadSnapshotUnreadable \/ ReplayUnreadable)
<1>1. CASE (\E b \in Batches : AddVectors(b)) \/ \E id \in ID : DeleteVector(id)
  BY <1>1 DEF AddVectors, DeleteVector
<1>2. CASE Add \/ Delete
  BY <1>2 DEF Add, AddToIndex, RefuseVector, UpsertVectors, AddToANN, RefuseByANN, RollbackOne,
     RollbackDone, Delete, DeleteFromIndex, DeleteFromStore, DeleteFromANN, ReturnError
<1>3. CASE Log \/ MaybeSnapshot
  BY <1>3 DEF Log, LogOK, LogFailsAdd, LogFailsDelete, MaybeSnapshot, SnapshotNotDue, SnapshotDue,
     SyncStep, SaveStep, TruncateStep, MayTakeEffect, ReturnOK, ReturnError
<1>4. CASE Crash \/ CrashWhileLogging \/ Restart
  BY <1>4 DEF Crash, CrashWhileLogging, Restart, MayTakeEffect
<1>5. CASE RestoreState
  BY <1>5 DEF RestoreState, LoadSnapshotOK, LoadSnapshotFails, LoadSnapshotUnreadable, ReplayLine,
     ReplayStops, ReplayUnreadable, ReplayDone, RestoreSave, RestoreTruncate, ReturnError
<1>6. CASE UNCHANGED vars
  BY <1>6 DEF vars
<1> QED BY <1>1, <1>2, <1>3, <1>4, <1>5, <1>6 DEF Next

\* A recovery that could not read a file is one that gave up.
UnreadAborts == unread \in BOOLEAN /\ (unread => aborted)

LEMMA UnreadAbortsHolds == Spec => []UnreadAborts
<1>1. Init => UnreadAborts
  BY DEF Init, UnreadAborts
<1>2. UnreadAborts /\ [Next]_vars => UnreadAborts'
  BY NextHistory DEF UnreadAborts
<1> QED BY <1>1, <1>2, PTL DEF Spec

\* Every variable keeps its type; in particular no tombstone of the ANN index
\* is without a node and a torn tail is the tail of some line.
THEOREM TypesHold == Spec => []TypeOK
<1>1. Init => MemTypeOK
  <2> SUFFICES ASSUME Init PROVE MemTypeOK
    OBVIOUS
  <2>1. ann = EmptyAnn /\ idToInternal = Unassigned
    BY DEF Init
  <2>2. AnnTypeOK(ann)
    BY <2>1, EmptyAnnType
  <2> QED
    BY <2>1, <2>2, EmptyAnnType DEF Init, MemTypeOK, ResolverTypeOK, CountersTypeOK
<1>2. ASSUME IInv, MemTypeOK, UnreadAborts PROVE TypeOK
  <2>1. StoredInv /\ [ID -> Stored] \subseteq Maps
    BY <1>2 DEF IInv, Stored, Maps
  <2>2. PersistenceTypeOK
    BY <1>2, <2>1, EmptySeq
    DEF PersistenceTypeOK, StoredInv, MemTypeOK, CountersTypeOK
  <2> QED
    BY <1>2, <2>1, <2>2
    DEF TypeOK, StoredInv, MemTypeOK, AnnTypeOK, ResolverTypeOK, CountersTypeOK, ReqVector, UnreadAborts
<1> QED
  BY <1>1, <1>2, IInvHolds, UnreadAbortsHolds, NextMemType, PTL DEF Spec


USE DEF diskVars, memVars, reqVars, histVars

----------------------------------------------------------------------------
(* The resolver.                                                           *)

\* No internal id is beyond the counter, and none belongs to two vectors.
ResolverOK(r, next) ==
  /\ r \in [ID -> Nat] /\ next \in Nat
  /\ \A x \in ID : r[x] <= next
  /\ \A x, y \in ID : r[x] = r[y] /\ r[x] # 0 => x = y
ResolverInv ==
  /\ ResolverOK(idToInternal, nextInternal)
  /\ pc \in {"down", "load"} => idToInternal = Unassigned /\ nextInternal = 0

\* A step from resolver r and counter next: an id keeps its internal id, loses
\* it, or gets one that was never given before.
Kept(r, next) ==
  /\ nextInternal' >= next
  /\ \A x \in ID : \/ idToInternal'[x] \in {0, r[x]}
                   \/ idToInternal'[x] \in (next + 1) .. nextInternal'

LEMMA AssignAllIs ==
  ASSUME NEW ids \in SUBSET ID, NEW r, NEW next, ResolverOK(r, next), AssignAll(ids, r, next)
  PROVE  /\ ResolverOK(idToInternal, nextInternal)' /\ Kept(r, next)
         /\ \A x \in ids : idToInternal'[x] # 0
<1> DEFINE fresh == {id \in ids : r[id] = 0}
           c == Cardinality(fresh)
<1>1. c \in Nat /\ r \in [ID -> Nat] /\ next \in Nat /\ fresh \subseteq ID
  <2>1. IsFiniteSet(fresh)
    BY ServiceAssumption, FS_Subset
  <2>2. c \in Nat
    BY <2>1, FS_CardinalityType
  <2> QED BY <2>2 DEF ResolverOK
<1>2. nextInternal' = next + c
  BY DEF AssignAll
<1>3. PICK f \in [fresh -> (next + 1) .. (next + c)] :
         /\ \A x, y \in fresh : f[x] = f[y] => x = y
         /\ idToInternal' = [id \in ID |-> IF id \in fresh THEN f[id] ELSE r[id]]
  BY DEF AssignAll
<1>4. \A x \in ids : x \notin fresh => r[x] # 0
  OBVIOUS
<1> HIDE DEF fresh, c
<1>5. /\ \A x \in fresh : idToInternal'[x] = f[x] /\ f[x] \in Nat /\ f[x] > next /\ f[x] <= next + c
      /\ \A x \in ID \ fresh : idToInternal'[x] = r[x] /\ r[x] \in Nat /\ r[x] <= next
  BY <1>1, <1>3 DEF ResolverOK
<1>6. idToInternal' \in [ID -> Nat] /\ nextInternal' \in Nat
  BY <1>1, <1>2, <1>3, <1>5
<1>7. \A x \in ID : idToInternal'[x] <= nextInternal'
  BY <1>1, <1>2, <1>5
<1>8. ASSUME NEW x \in ID, NEW y \in ID, idToInternal'[x] = idToInternal'[y], idToInternal'[x] # 0
      PROVE  x = y
  <2>1. CASE x \in fresh /\ y \in fresh
    BY <1>3, <1>5, <1>8, <2>1
  <2>2. CASE x \notin fresh /\ y \notin fresh
    BY <1>5, <1>8, <2>2 DEF ResolverOK
  <2>3. CASE x \in fresh <=> y \notin fresh
    BY <1>1, <1>5, <1>8, <2>3
  <2> QED BY <2>1, <2>2, <2>3
<1>9. ResolverOK(idToInternal, nextInternal)'
  BY <1>6, <1>7, <1>8 DEF ResolverOK
<1>10. Kept(r, next)
  BY <1>1, <1>2, <1>5 DEF Kept
<1>11. \A x \in ids : idToInternal'[x] # 0
  BY <1>1, <1>4, <1>5
<1> QED BY <1>9, <1>10, <1>11

LEMMA RebuildAssigns ==
  ASSUME NEW idx, NEW r, NEW next, ResolverOK(r, next), RebuildANN(idx, r, next)
  PROVE  /\ ResolverOK(idToInternal, nextInternal)' /\ Kept(r, next)
         /\ \A x \in Live(idx) : idToInternal'[x] # 0
<1>1. PICK ids \in SUBSET ID : ids = Live(idx)
  BY DEF Live
<1>2. AssignAll(ids, r, next)
  BY <1>1 DEF RebuildANN
<1>3. /\ ResolverOK(idToInternal, nextInternal)' /\ Kept(r, next)
      /\ \A x \in ids : idToInternal'[x] # 0
  BY <1>2, AssignAllIs
<1> QED BY <1>1, <1>3

LEMMA UnassignedOK == ResolverOK(Unassigned, 0)
BY DEF ResolverOK, Unassigned

\* DeleteVector's undo gives the id the next internal id.
LEMMA ReassignedOK ==
  ASSUME ResolverOK(idToInternal, nextInternal), NEW id \in ID
  PROVE  ResolverOK([idToInternal EXCEPT ![id] = nextInternal + 1], nextInternal + 1)
<1>1. PICK m \in Nat : m = nextInternal + 1
  BY DEF ResolverOK
<1>2. PICK r : r = [idToInternal EXCEPT ![id] = m]
  OBVIOUS
<1>3. ResolverOK(r, m)
  BY <1>1, <1>2 DEF ResolverOK
<1> QED BY <1>1, <1>2, <1>3

LEMMA AssignIDIs ==
  ASSUME ResolverOK(idToInternal, nextInternal), NEW id \in ID, AssignID(id)
  PROVE  /\ ResolverOK(idToInternal, nextInternal)' /\ Kept(idToInternal, nextInternal)
         /\ idToInternal'[id] # 0 /\ \A x \in ID \ {id} : idToInternal'[x] = idToInternal[x]
<1>1. idToInternal \in [ID -> Nat] /\ nextInternal \in Nat
  BY DEF ResolverOK
<1>2. CASE idToInternal[id] # 0
  <2>1. UNCHANGED <<idToInternal, nextInternal>>
    BY <1>2 DEF AssignID
  <2> QED BY <1>1, <1>2, <2>1 DEF ResolverOK, Kept
<1>3. CASE idToInternal[id] = 0
  <2>1. PICK m \in Nat : m = nextInternal + 1
    BY <1>1
  <2>2. nextInternal' = m /\ idToInternal' = [idToInternal EXCEPT ![id] = m]
    BY <1>3, <2>1 DEF AssignID
  <2> QED BY <1>1, <2>1, <2>2 DEF ResolverOK, Kept
<1> QED BY <1>2, <1>3

LEMMA SameResolver ==
  ASSUME ResolverInv, UNCHANGED <<idToInternal, nextInternal>>, pc' \in {"down", "load"} => pc \in {"down", "load"}
  PROVE  ResolverInv' /\ Kept(idToInternal, nextInternal)
BY DEF ResolverInv, ResolverOK, Kept

LEMMA NextResolver ==
  ASSUME IInv, ResolverInv, [Next]_vars
  PROVE  ResolverInv' /\ (pc' # "down" => Kept(idToInternal, nextInternal))
<1>0. ResolverOK(idToInternal, nextInternal)
  BY DEF ResolverInv
<1>1. CASE (\E b \in Batches : AddVectors(b)) \/ \E id \in ID : DeleteVector(id)
  BY <1>1, SameResolver DEF AddVectors, DeleteVector
<1>2. CASE AddToIndex \/ RefuseVector \/ UpsertVectors \/ RollbackOne
  BY <1>2, SameResolver DEF AddToIndex, RefuseVector, UpsertVectors, RollbackOne
<1>3. CASE AddToANN \/ RefuseByANN
  <2>1. batch[cur].id \in ID
    BY <1>3 DEF IInv, AddToANN, RefuseByANN, AtAnn, Applied, Good
  <2>2. AssignID(batch[cur].id) /\ pc' \notin {"down", "load"}
    BY <1>3 DEF AddToANN, RefuseByANN
  <2> QED BY <1>0, <2>1, <2>2, AssignIDIs DEF ResolverInv
<1>4. CASE RollbackDone \/ ReplayDone
  <2>1. RebuildANN(index, idToInternal, nextInternal) /\ pc' \notin {"down", "load"}
    BY <1>4 DEF RollbackDone, ReplayDone, ReturnError, Return
  <2> QED BY <1>0, <2>1, RebuildAssigns DEF ResolverInv
<1>5. CASE DeleteFromIndex \/ DeleteFromStore
  BY <1>5, SameResolver DEF DeleteFromIndex, DeleteFromStore
<1>6. CASE DeleteFromANN
  <2>1. batch[1].id \in ID /\ pc' = "wal"
    BY <1>6 DEF IInv, DeleteFromANN, AtDelAnn, Restorable
  <2>2. nextInternal' \in {nextInternal, nextInternal + 1}
    BY <1>6 DEF DeleteFromANN
  <2>3. PICK id \in ID : idToInternal' = [idToInternal EXCEPT ![id] = 0]
    BY <1>6, <2>1 DEF DeleteFromANN
  <2> QED BY <1>0, <2>1, <2>2, <2>3 DEF ResolverInv, ResolverOK, Kept
<1>7. CASE LogOK
  <2>1. pc' = "snap"
    BY <1>7 DEF LogOK
  <2>2. CASE RebuildANN(index, idToInternal, nextInternal)
    BY <1>0, <2>1, <2>2, RebuildAssigns DEF ResolverInv
  <2>3. CASE UNCHANGED <<ann, idToInternal, nextInternal>>
    BY <2>1, <2>3, SameResolver
  <2> QED BY <1>7, <2>2, <2>3 DEF LogOK
<1>8. CASE LogFailsAdd
  BY <1>8, SameResolver DEF LogFailsAdd
<1>9. CASE LogFailsDelete
  <2>1. batch[1].id \in ID
    BY <1>9 DEF IInv, LogFailsDelete, AtWal, Restorable
  <2>2. PICK id, r, m : /\ id \in ID /\ m = nextInternal + 1 /\ r = [idToInternal EXCEPT ![id] = m]
                              /\ RebuildANN(index', r, m)
    BY <1>9, <2>1 DEF LogFailsDelete
  <2>3. ResolverOK(r, m)
    BY <1>0, <2>2, ReassignedOK
  <2>4. ResolverOK(idToInternal, nextInternal)' /\ Kept(r, m)
    BY <2>2, <2>3, RebuildAssigns
  <2>5. Kept(idToInternal, nextInternal)
    <3>1. m \in Nat /\ nextInternal \in Nat /\ nextInternal' \in Nat
      BY <2>3, <2>4, <1>0 DEF ResolverOK
    <3>2. \A x \in ID : r[x] = idToInternal[x] \/ r[x] = m
      BY <1>0, <2>2 DEF ResolverOK
    <3> QED BY <2>2, <2>4, <3>1, <3>2 DEF Kept
  <2>6. pc' = "idle"
    BY <1>9 DEF LogFailsDelete, Return
  <2> QED BY <2>4, <2>5, <2>6 DEF ResolverInv
<1>10. CASE MaybeSnapshot
  <2>1. UNCHANGED <<idToInternal, nextInternal>>
    BY <1>10 DEF MaybeSnapshot, SnapshotNotDue, SnapshotDue, SyncStep, SaveStep, TruncateStep
  <2>2. pc' \notin {"down", "load"}
    BY <1>10 DEF MaybeSnapshot, SnapshotNotDue, SnapshotDue, SyncStep, SaveStep, TruncateStep,
       ReturnOK, ReturnError, Return
  <2> QED BY <2>1, <2>2, SameResolver
<1>11. CASE Crash \/ CrashWhileLogging
  <2>1. pc' = "down" /\ idToInternal' = Unassigned /\ nextInternal' = 0
    BY <1>11 DEF Crash, CrashWhileLogging, LoseMemory
  <2> QED BY <2>1, UnassignedOK DEF ResolverInv
<1>12. CASE Restart
  BY <1>12, SameResolver DEF Restart
<1>13. CASE LoadSnapshotOK \/ LoadSnapshotFails
  <2>1. pc = "load" /\ pc' \notin {"down", "load"}
    BY <1>13 DEF LoadSnapshotOK, LoadSnapshotFails, Return
  <2>2. idToInternal = Unassigned /\ nextInternal = 0
    BY <2>1 DEF ResolverInv
  <2>3. ResolverOK(idToInternal, nextInternal)' /\ Kept(Unassigned, 0)
    <3>1. CASE LoadSnapshotOK
      BY <3>1, UnassignedOK, RebuildAssigns DEF LoadSnapshotOK
    <3>2. CASE LoadSnapshotFails
      <4>1. PICK ids \in SUBSET ID : AssignAll(ids, Unassigned, 0)
        BY <3>2 DEF LoadSnapshotFails, Loadable
      <4> QED BY <4>1, UnassignedOK, AssignAllIs
    <3> QED BY <1>13, <3>1, <3>2
  <2> QED BY <2>1, <2>2, <2>3 DEF ResolverInv
<1>14. CASE ReplayLine \/ ReplayStops \/ LoadSnapshotUnreadable \/ ReplayUnreadable
  BY <1>14, SameResolver
  DEF ReplayLine, ReplayStops, LoadSnapshotUnreadable, ReplayUnreadable, Return
<1>15. CASE RestoreSave \/ RestoreTruncate
  BY <1>15, SameResolver DEF RestoreSave, RestoreTruncate, ReturnError, Return
<1>16. CASE UNCHANGED vars
  BY <1>16, SameResolver DEF vars
<1> QED
  BY <1>1, <1>2, <1>3, <1>4, <1>5, <1>6, <1>7, <1>8, <1>9, <1>10, <1>11, <1>12, <1>13, <1>14,
     <1>15, <1>16
  DEF Next, Add, Delete, Log, RestoreState

\* While the process lives, no internal id ever belongs to a second vector: the
\* resolver only hands out ids above its counter, through rebuilds, undone
\* deletes, rollbacks and recoveries (id_resolver.go Assign, Remove).
THEOREM InternalIDsAreNotReused == Spec => InternalIDsNotReused
<1>1. Init => ResolverInv
  BY UnassignedOK DEF Init, ResolverInv
<1>2. IInv /\ ResolverInv /\ [Next]_vars => ResolverInv'
  BY NextResolver
<1> DEFINE Step == pc' # "down" =>
       /\ nextInternal' >= nextInternal
       /\ \A x \in ID : \/ idToInternal'[x] \in {0, idToInternal[x]}
                        \/ idToInternal'[x] \in (nextInternal + 1) .. nextInternal'
       /\ \A x, y \in ID : idToInternal'[x] = idToInternal'[y] /\ idToInternal'[x] # 0 => x = y
<1>3. IInv /\ ResolverInv /\ [Next]_vars => [Step]_vars
  <2> SUFFICES ASSUME IInv, ResolverInv, [Next]_vars PROVE Step
    OBVIOUS
  <2>1. ResolverInv' /\ (pc' # "down" => Kept(idToInternal, nextInternal))
    BY NextResolver
  <2> QED BY <2>1 DEF Kept, ResolverInv, ResolverOK
<1>4. Spec => []IInv /\ []ResolverInv
  BY <1>1, <1>2, IInvHolds, PTL DEF Spec
<1> QED BY <1>3, <1>4, PTL DEF Spec, InternalIDsNotReused

----------------------------------------------------------------------------
(* The invariant for appends that are all or nothing.                      *)

\* An append reaches the log as a whole, or fails before its first byte (the
\* file cannot be opened), and every line of it can be read back.
Quiet == "torn" \notin Faults /\ "sync" \notin Faults /\ NaNVal = {} /\ LongVal = {}

\* The payloads of a map have one dimension.
Uniform(map) == \A x, y \in Live(map) : Dim[map[x]] = Dim[map[y]]

\* The live nodes of ANN index a, by resolver r, are the vectors of map.
AnnIs(a, r, map) ==
  /\ \A id \in Live(map) : /\ r[id] # 0 /\ r[id] \in AnnNodes(a) \ a.dead
                           /\ a.vec[r[id]] = map[id] /\ a.dim = Dim[map[id]]
  /\ \A n \in AnnNodes(a) \ a.dead : \E id \in Live(map) : r[id] = n

\* The store without the vectors of the batch from position n on.
Without(n) ==
  [id \in ID |-> IF \E i \in n .. Len(batch) : batch[i].id = id THEN None ELSE store[id]]
\* The store before the delete.
Undeleted == Put(store, batch[1].id, saved)

Settled == {"idle", "index", "upsert", "delIndex", "delStore", "snap", "sync", "save",
            "trunc", "restoreSave", "restoreTrunc"}

\* The files can be read, and the recoveries that read them will not fail.
CleanFiles == ~tornTail /\ ~aborted /\ AllReadable /\ Uniform(snapshot) /\ Uniform(Recovered)

\* They say what the store was before the request, until it is logged.
MatchOK ==
  /\ pc \in Settled => Recovered = store
  /\ pc \in {"delIndex", "delStore"} => saved = store[batch[1].id]
  /\ pc \in {"ann", "rollback"} \/ (pc = "wal" /\ ~IsDelete) => Recovered = Without(1)
  /\ pc = "delAnn" \/ (pc = "wal" /\ IsDelete) => Recovered = Undeleted

AnnOK ==
  /\ pc \in Settled \cup {"wal"} => AnnIs(ann, idToInternal, store)
  /\ pc = "ann" => AnnIs(ann, idToInternal, Without(cur))
  /\ pc = "delAnn" => AnnIs(ann, idToInternal, Undeleted)

QuietInv == CleanFiles /\ MatchOK /\ AnnOK

----------------------------------------------------------------------------
(* What a restart would recover.                                           *)

RecoveredOf(w, s) ==
  [id \in ID |->
     IF \E k \in DOMAIN w : w[k].id = id
     THEN LET k == CHOOSE k \in DOMAIN w : /\ w[k].id = id
                                           /\ \A j \in DOMAIN w : w[j].id = id => j <= k
          IN  w[k].val
     ELSE s[id]]

LEMMA RecoveredNow == Recovered = RecoveredOf(wal, snapshot) /\ Recovered' = RecoveredOf(wal', snapshot')
BY DEF Recovered, RecoveredOf

LEMMA LastLine ==
  ASSUME NEW n \in Nat, NEW S, S \subseteq 1 .. n, S # {}
  PROVE  \E k \in S : \A j \in S : j <= k
<1> DEFINE Bound(m) == \A j \in S : j <= m
           Bounds == {m \in Nat : Bound(m)}
<1>1. n \in Bounds
  OBVIOUS
<1>2. PICK m \in Bounds : \A l \in Bounds : ~(l < m)
  <2>1. Bounds \subseteq Nat /\ Bounds # {}
    BY <1>1
  <2> HIDE DEF Bounds
  <2>2. PICK m \in Bounds : \A l \in Bounds : <<l, m>> \notin OpToRel(<, Nat)
    BY <2>1, NatLessThanWellFounded, WFMin
  <2> QED BY <2>1, <2>2 DEF OpToRel
<1>3. m \in Nat /\ \A j \in S : j <= m /\ j \in Nat
  BY <1>2
<1>4. m \in S
  <2> SUFFICES ASSUME m \notin S PROVE FALSE
    OBVIOUS
  <2>1. \A j \in S : j <= m - 1 /\ j >= 1
    BY <1>3
  <2>2. m - 1 \in Nat
    <3>1. PICK j \in S : TRUE
      OBVIOUS
    <3> QED BY <1>3, <2>1, <3>1
  <2>3. m - 1 \in Bounds
    BY <2>1, <2>2
  <2> QED BY <1>2, <1>3, <2>3
<1> QED BY <1>3, <1>4

LEMMA RecoveredSays ==
  ASSUME NEW w \in Seq(Line), NEW s, NEW id \in ID
  PROVE  Says(w, s, Len(w), id, RecoveredOf(w, s)[id])
<1>0. Len(w) \in Nat /\ DOMAIN w = 1 .. Len(w)
  BY LenProperties
<1> DEFINE S == {k \in DOMAIN w : w[k].id = id}
<1>1. CASE S = {}
  BY <1>0, <1>1 DEF Says, RecoveredOf
<1>2. CASE S # {}
  <2> DEFINE Last(k) == w[k].id = id /\ \A j \in DOMAIN w : w[j].id = id => j <= k
             last == CHOOSE k \in DOMAIN w : Last(k)
  <2>1. \E k \in S : \A j \in S : j <= k
    <3>1. S \subseteq 1 .. Len(w)
      BY <1>0
    <3> HIDE DEF S
    <3> QED BY <1>0, <1>2, <3>1, LastLine
  <2>2. \E k \in DOMAIN w : Last(k)
    BY <2>1
  <2>3. last \in DOMAIN w /\ Last(last)
    BY <2>2
  <2>4. RecoveredOf(w, s)[id] = w[last].val
    BY <1>2 DEF RecoveredOf
  <2> QED BY <1>0, <2>3, <2>4 DEF Says
<1> QED BY <1>1, <1>2

\* The map the files speak of is the one that is recovered.
LEMMA RecoveredMap ==
  ASSUME NEW w \in Seq(Line), NEW s, NEW m \in [ID -> Stored],
         \A id \in ID : Says(w, s, Len(w), id, m[id])
  PROVE  RecoveredOf(w, s) = m
<1>1. ASSUME NEW id \in ID PROVE RecoveredOf(w, s)[id] = m[id]
  <2>1. Len(w) \in Nat
    BY LenProperties
  <2> QED BY <2>1, RecoveredSays, SaysUnique
<1>2. RecoveredOf(w, s) = [id \in ID |-> RecoveredOf(w, s)[id]]
  BY DEF RecoveredOf
<1> QED BY <1>1, <1>2

----------------------------------------------------------------------------
(* The ANN index through the resolver.                                     *)

\* A rebuild over vectors of one dimension leaves none of them out.
LEMMA RebuildHolds ==
  ASSUME NEW idx \in [ID -> Stored], NEW r, NEW next,
         ResolverOK(r, next), RebuildANN(idx, r, next), Uniform(idx)
  PROVE  AnnIs(ann, idToInternal, idx)'
<1>1. PICK q, a : q = idToInternal' /\ a = ann'
  OBVIOUS
<1>2. /\ \A x \in Live(idx) : q[x] # 0
      /\ \A x, y \in ID : q[x] = q[y] /\ q[x] # 0 => x = y
  BY <1>1, RebuildAssigns DEF ResolverOK
<1>3. CASE Live(idx) = {}
  <2>1. a = EmptyAnn
    BY <1>1, <1>3 DEF RebuildANN
  <2>2. AnnNodes(a) = {}
    BY <2>1 DEF EmptyAnn, AnnNodes
  <2> QED BY <1>1, <1>3, <2>2 DEF AnnIs
<1>4. CASE Live(idx) # {}
  <2>1. PICK d \in {Dim[idx[id]] : id \in Live(idx)} :
          ann' = AnnOver(idx, {id \in Live(idx) : Dim[idx[id]] = d}, d)
    BY <1>4 DEF RebuildANN
  <2>2. \A id \in Live(idx) : Dim[idx[id]] = d
    BY <2>1 DEF Uniform
  <2>3. {id \in Live(idx) : Dim[idx[id]] = d} = Live(idx)
    BY <2>2
  <2>4. ann' = AnnOver(idx, Live(idx), d)
    BY <2>1, <2>3
  <2>5. AnnNodes(a) = {q[id] : id \in Live(idx)} /\ a.dead = {} /\ a.dim = d
    BY <1>1, <2>4 DEF AnnNodes, AnnOver
  <2>6. ASSUME NEW id \in Live(idx) PROVE a.vec[q[id]] = idx[id]
    <3> DEFINE x == CHOOSE y \in Live(idx) : idToInternal'[y] = idToInternal'[id]
    <3>1. x \in Live(idx) /\ idToInternal'[x] = idToInternal'[id]
      OBVIOUS
    <3>2. x = id
      BY <1>1, <1>2, <3>1 DEF Live
    <3>3. ann'.vec[idToInternal'[id]] = idx[x]
      BY <2>4 DEF AnnOver
    <3> QED BY <1>1, <3>2, <3>3
  <2>7. AnnIs(a, q, idx)
    BY <1>2, <2>2, <2>5, <2>6 DEF AnnIs
  <2> QED BY <1>1, <2>7
<1> QED BY <1>3, <1>4

\* AddVector of an id that is not in the index.
LEMMA AnnAddHolds ==
  ASSUME NEW a, NEW r, NEW m \in [ID -> Stored], NEW id \in ID, NEW val \in Stored \ {None},
         NEW q, NEW next, ResolverOK(q, next), q[id] # 0,
         \A x \in ID \ {id} : q[x] = r[x],
         AnnIs(a, r, m), AnnAccepts(a, val), m[id] = None
  PROVE  AnnIs(AnnAdd(a, q[id], val), q, Put(m, id, val))
<1>1. PICK b, s : b = AnnAdd(a, q[id], val) /\ s = Put(m, id, val)
  OBVIOUS
<1>2. /\ AnnNodes(b) = AnnNodes(a) \cup {q[id]} /\ b.dead = a.dead \ {q[id]} /\ b.dim = Dim[val]
      /\ b.vec[q[id]] = val
      /\ \A n \in AnnNodes(a) : n # q[id] => b.vec[n] = a.vec[n]
  BY <1>1 DEF AnnAdd, AnnNodes
<1>3. s[id] = val /\ val # None /\ \A x \in ID \ {id} : s[x] = m[x]
  BY <1>1 DEF Put
<1>4. Live(s) = Live(m) \cup {id} /\ id \notin Live(m) /\ Live(m) \subseteq ID
  BY <1>3 DEF Live
<1>5. \A x \in Live(m) : q[x] = r[x] /\ q[x] # q[id]
  BY <1>4 DEF ResolverOK
<1>6. \A x \in Live(m) : a.dim = Dim[val]
  <2>1. \A x \in Live(m) : m[x] \in Val /\ Dim[m[x]] \in 1 .. MaxVectorDim /\ a.dim = Dim[m[x]]
    <3>1. \A x \in Live(m) : m[x] \in Stored /\ m[x] # None
      BY <1>4 DEF Live
    <3>2. \A x \in Live(m) : a.dim = Dim[m[x]]
      BY DEF AnnIs
    <3> QED BY <3>1, <3>2 DEF Stored
  <2>2. ASSUME NEW x \in Live(m) PROVE a.dim # 0
    <3>1. PICK k \in 1 .. MaxVectorDim : k = a.dim
      BY <2>1
    <3>2. MaxVectorDim \in Nat
      BY ServiceAssumption
    <3> QED BY <3>1, <3>2
  <2> QED BY <2>2 DEF AnnAccepts
<1>7. \A x \in Live(s) : /\ q[x] # 0 /\ q[x] \in AnnNodes(b) \ b.dead
                          /\ b.vec[q[x]] = s[x] /\ b.dim = Dim[s[x]]
  <2> TAKE x \in Live(s)
  <2>1. CASE x = id
    BY <1>2, <1>3, <2>1
  <2>2. CASE x # id
    <3>1. /\ x \in Live(m) /\ x \in ID /\ q[x] = r[x] /\ q[x] # q[id] /\ s[x] = m[x]
          /\ a.dim = Dim[val]
      BY <1>3, <1>4, <1>5, <1>6, <2>2
    <3>2. /\ r[x] # 0 /\ r[x] \in AnnNodes(a) \ a.dead
          /\ a.vec[r[x]] = m[x] /\ a.dim = Dim[m[x]]
      BY <3>1 DEF AnnIs
    <3> QED BY <1>2, <3>1, <3>2
  <2> QED BY <2>1, <2>2
<1>8. \A n \in AnnNodes(b) \ b.dead : \E x \in Live(s) : q[x] = n
  BY <1>2, <1>4, <1>5 DEF AnnIs
<1>9. AnnIs(b, q, s)
  BY <1>7, <1>8 DEF AnnIs
<1> QED BY <1>1, <1>9

\* DeleteVector and Remove of an id that is in the index.
LEMMA AnnDeleteHolds ==
  ASSUME NEW a, NEW r, NEW next, ResolverOK(r, next), NEW m \in [ID -> Stored], NEW id \in ID,
         AnnIs(a, r, m), m[id] # None
  PROVE  AnnIs(AnnDelete(a, r[id]), [r EXCEPT ![id] = 0], Drop(m, id))
<1>1. PICK b, q, s : b = AnnDelete(a, r[id]) /\ q = [r EXCEPT ![id] = 0] /\ s = Drop(m, id)
  OBVIOUS
<1>2. /\ AnnNodes(b) = AnnNodes(a) /\ b.dead = a.dead \cup {r[id]}
      /\ b.dim = a.dim /\ b.vec = a.vec
  BY <1>1 DEF AnnDelete, AnnNodes, AnnIs, Live
<1>3. Live(s) = Live(m) \ {id} /\ \A x \in Live(s) : s[x] = m[x] /\ x \in ID
  BY <1>1 DEF Drop, Live
<1>4. \A x \in Live(s) : q[x] = r[x] /\ r[x] # r[id]
  BY <1>1, <1>3 DEF ResolverOK, AnnIs
<1>5. \A x \in Live(s) : /\ q[x] # 0 /\ q[x] \in AnnNodes(b) \ b.dead
                          /\ b.vec[q[x]] = s[x] /\ b.dim = Dim[s[x]]
  BY <1>2, <1>3, <1>4 DEF AnnIs
<1>6. \A n \in AnnNodes(b) \ b.dead : \E x \in Live(s) : q[x] = n
  BY <1>2, <1>3, <1>4 DEF AnnIs
<1>7. AnnIs(b, q, s)
  BY <1>5, <1>6 DEF AnnIs
<1> QED BY <1>1, <1>7

----------------------------------------------------------------------------
(* The steps that leave the files alone.                                   *)

LEMMA SameFiles ==
  ASSUME CleanFiles, UNCHANGED <<snapshot, wal, tornTail, aborted>>
  PROVE  CleanFiles' /\ Recovered' = Recovered
<1>1. Recovered' = Recovered
  BY DEF Recovered
<1>2. AllReadable'
  BY DEF CleanFiles, AllReadable, Readable
<1>3. Uniform(snapshot') /\ Uniform(Recovered')
  BY <1>1 DEF CleanFiles
<1> QED BY <1>1, <1>2, <1>3 DEF CleanFiles, Uniform, Live

\* A step that leaves the files, the store, the request and the ANN index alone.
LEMMA SameMemory ==
  ASSUME QuietInv, UNCHANGED <<snapshot, wal, tornTail, aborted, store, ann, idToInternal>>,
         pc \in Settled, pc' \in Settled \cup {"down", "load", "replay"},
         pc' \in {"delIndex", "delStore"} => saved' = store[batch'[1].id]
  PROVE  QuietInv'
<1>1. CleanFiles' /\ Recovered' = Recovered
  BY SameFiles DEF QuietInv
<1>2. MatchOK'
  BY <1>1 DEF QuietInv, MatchOK, Settled
<1>3. AnnOK'
  <2>1. AnnIs(ann, idToInternal, store)
    BY DEF QuietInv, AnnOK
  <2>2. AnnIs(ann', idToInternal', store')
    BY <2>1
  <2> QED BY <2>2 DEF AnnOK, Settled
<1> QED BY <1>1, <1>2, <1>3 DEF QuietInv

\* The process is not up, so only the files matter.
LEMMA DownQuiet ==
  ASSUME QuietInv, UNCHANGED <<snapshot, wal, tornTail, aborted>>, pc' \in {"down", "load", "replay"}
  PROVE  QuietInv'
<1>1. CleanFiles'
  BY SameFiles DEF QuietInv
<1> QED BY <1>1 DEF QuietInv, MatchOK, AnnOK, Settled

\* The request in progress goes, and the files, store and ANN index agree.
LEMMA AgreedQuiet ==
  ASSUME CleanFiles', Recovered' = store', AnnIs(ann, idToInternal, store)',
         pc' \in Settled \ {"delIndex", "delStore"}
  PROVE  QuietInv'
<1>1. MatchOK'
  BY DEF MatchOK, Settled
<1>2. AnnOK'
  BY DEF AnnOK, Settled
<1> QED BY <1>1, <1>2 DEF QuietInv

----------------------------------------------------------------------------
(* The store without the batch.                                            *)

LEMMA WithoutAbsent ==
  ASSUME StoredInv, \A i \in 1 .. Len(batch) : store[batch[i].id] = None
  PROVE  Without(1) = store
<1>1. \A id \in ID : (IF \E i \in 1 .. Len(batch) : batch[i].id = id THEN None ELSE store[id]) = store[id]
  OBVIOUS
<1>2. store \in [ID -> Stored]
  BY DEF StoredInv
<1> QED BY <1>1, <1>2 DEF Without

LEMMA WithoutPast ==
  ASSUME StoredInv PROVE Without(Len(batch) + 1) = store
<1>1. store \in [ID -> Stored] /\ Len(batch) \in Nat
  BY BatchElem DEF StoredInv
<1>2. \A id \in ID : ~\E i \in (Len(batch) + 1) .. Len(batch) : batch[i].id = id
  BY <1>1
<1> QED BY <1>1, <1>2 DEF Without

LEMMA WithoutDropped ==
  ASSUME StoredInv, NEW i \in 1 .. Len(batch), batch[i].id \in ID,
         store' = Drop(store, batch[i].id), batch' = batch
  PROVE  Without(1)' = Without(1)
<1>1. store \in [ID -> Stored]
  BY DEF StoredInv
<1>2. \A id \in ID : id # batch[i].id => store'[id] = store[id]
  BY <1>1 DEF Drop
<1>3. \A id \in ID : (IF \E j \in 1 .. Len(batch) : batch[j].id = id THEN None ELSE store'[id])
                     = (IF \E j \in 1 .. Len(batch) : batch[j].id = id THEN None ELSE store[id])
  BY <1>2
<1> QED BY <1>3 DEF Without

\* The next vector of the batch comes back.
LEMMA WithoutNext ==
  ASSUME StoredInv, NEW n \in 1 .. Len(batch), Distinct(batch, Len(batch)), batch[n].id \in ID,
         store[batch[n].id] = batch[n].val
  PROVE  Without(n + 1) = Put(Without(n), batch[n].id, batch[n].val) /\ Without(n)[batch[n].id] = None
         /\ Without(n) \in [ID -> Stored]
<1>1. store \in [ID -> Stored] /\ Len(batch) \in Nat
  BY BatchElem DEF StoredInv
<1>2. n \in n .. Len(batch)
  BY <1>1
<1>3. Without(n)[batch[n].id] = None /\ Without(n) \in [ID -> Stored]
  BY <1>1, <1>2 DEF Without, Stored
<1>4. ASSUME NEW id \in ID PROVE Without(n + 1)[id] = Put(Without(n), batch[n].id, batch[n].val)[id]
  <2>1. CASE id = batch[n].id
    <3>1. ~\E i \in (n + 1) .. Len(batch) : batch[i].id = id
      BY <1>1, <2>1 DEF Distinct
    <3> QED BY <1>3, <2>1, <3>1 DEF Without, Put
  <2>2. CASE id # batch[n].id
    <3>1. (\E i \in (n + 1) .. Len(batch) : batch[i].id = id) <=> \E i \in n .. Len(batch) : batch[i].id = id
      BY <1>1, <2>2
    <3>2. Without(n + 1)[id] = Without(n)[id]
      BY <3>1 DEF Without
    <3> QED BY <1>3, <2>2, <3>2 DEF Put
  <2> QED BY <2>1, <2>2
<1>5. /\ Without(n + 1) = [id \in ID |-> Without(n + 1)[id]]
      /\ Put(Without(n), batch[n].id, batch[n].val)
           = [id \in ID |-> Put(Without(n), batch[n].id, batch[n].val)[id]]
  BY <1>3 DEF Without, Put
<1> QED BY <1>3, <1>4, <1>5

----------------------------------------------------------------------------
(* AddVectors.                                                             *)

LEMMA BeginQuiet ==
  ASSUME QuietInv, (\E b \in Batches : AddVectors(b)) \/ \E id \in ID : DeleteVector(id)
  PROVE  QuietInv'
<1>1. CASE \E b \in Batches : AddVectors(b)
  BY <1>1, SameMemory DEF AddVectors, Settled
<1>2. CASE \E id \in ID : DeleteVector(id)
  <2>1. PICK id \in ID : DeleteVector(id)
    BY <1>2
  <2>2. batch'[1].id = id
    BY <2>1 DEF DeleteVector
  <2> QED BY <2>1, <2>2, SameMemory DEF DeleteVector, Settled
<1> QED BY <1>1, <1>2

LEMMA IndexQuiet ==
  ASSUME QuietInv, AddToIndex PROVE QuietInv'
BY SameMemory DEF AddToIndex, Settled

LEMMA RefuseVectorQuiet ==
  ASSUME IInv, QuietInv, RefuseVector, StoredInv' PROVE QuietInv'
<1>1. CleanFiles' /\ Recovered' = Recovered /\ Recovered = store
  BY SameFiles DEF QuietInv, MatchOK, RefuseVector, Settled
<1>2. \A i \in 1 .. Len(batch') : store'[batch'[i].id] = None
  <2>1. StoredInv /\ AtIndex
    BY DEF RefuseVector, IInv
  <2>2. /\ cur \in 1 .. Len(batch) /\ Len(batch) \in Nat
        /\ batch \in Seq(ReqVector) /\ cur - 1 \in 0 .. Len(batch)
    BY <2>1, BatchElem DEF AtIndex
  <2>3. Len(batch') = cur - 1 /\ \A i \in 1 .. (cur - 1) : batch'[i] = batch[i]
    BY <2>2, PrefixIs DEF RefuseVector
  <2> QED BY <2>1, <2>3 DEF AtIndex, Indexed, RefuseVector
<1>3. Without(1)' = store'
  <2>1. \A id \in ID :
          (IF \E i \in 1 .. Len(batch') : batch'[i].id = id THEN None ELSE store'[id]) = store'[id]
    BY <1>2
  <2>2. store' \in [ID -> Stored]
    BY DEF StoredInv
  <2> QED BY <2>1, <2>2 DEF Without
<1>4. MatchOK' /\ AnnOK'
  BY <1>1, <1>3 DEF RefuseVector, MatchOK, AnnOK, Settled
<1> QED BY <1>1, <1>4 DEF QuietInv

LEMMA UpsertVectorsQuiet ==
  ASSUME IInv, QuietInv, UpsertVectors PROVE QuietInv'
<1>1. /\ CleanFiles' /\ Recovered' = Recovered /\ Recovered = store
      /\ AnnIs(ann, idToInternal, store)
  BY SameFiles DEF QuietInv, MatchOK, AnnOK, UpsertVectors, Settled
<1>2. Without(1)' = store
  <2>1. StoredInv /\ AtUpsert
    BY DEF UpsertVectors, IInv
  <2>2. Len(batch) \in Nat /\ DOMAIN batch = 1 .. Len(batch) /\ store \in [ID -> Stored]
    BY <2>1, BatchElem DEF StoredInv
  <2>3. \A id \in ID : Outside(batch, Len(batch), id) => store'[id] = store[id]
    <3>1. Distinct(batch, Len(batch)) /\ store' = Overwrite(store, batch)
      BY <2>1 DEF UpsertVectors, AtUpsert, Indexed
    <3>2. Overwritten(store, batch, Len(batch), Overwrite(store, batch))
      BY <2>2, <3>1, OverwriteIs
    <3> QED BY <3>1, <3>2 DEF Overwritten
  <2>4. \A i \in 1 .. Len(batch) : store[batch[i].id] = None
    BY <2>1 DEF AtUpsert, Indexed
  <2>5. \A id \in ID : (IF \E i \in 1 .. Len(batch) : batch[i].id = id THEN None ELSE store'[id]) = store[id]
    BY <2>3, <2>4 DEF Outside
  <2>6. batch' = batch
    BY DEF UpsertVectors
  <2> QED BY <2>2, <2>5, <2>6 DEF Without
<1>3. pc' = "ann" /\ cur' = 1 /\ UNCHANGED <<ann, idToInternal>>
  BY DEF UpsertVectors
<1>4. AnnIs(ann, idToInternal, Without(cur))'
  BY <1>1, <1>2, <1>3
<1>5. MatchOK' /\ AnnOK'
  BY <1>1, <1>2, <1>3, <1>4 DEF MatchOK, AnnOK, Settled
<1> QED BY <1>1, <1>5 DEF QuietInv

LEMMA AddToANNQuiet ==
  ASSUME IInv, ResolverInv, QuietInv, AddToANN PROVE QuietInv'
<1>1. CleanFiles' /\ Recovered' = Recovered /\ Recovered = Without(1) /\ AnnIs(ann, idToInternal, Without(cur))
  BY SameFiles DEF QuietInv, MatchOK, AnnOK, AddToANN
<1>2. StoredInv /\ AtAnn
  BY DEF AddToANN, IInv
<1>3. /\ cur \in 1 .. Len(batch) /\ Len(batch) \in Nat /\ Distinct(batch, Len(batch))
      /\ batch[cur].id \in ID /\ batch[cur].val \in Stored \ {None}
      /\ store[batch[cur].id] = batch[cur].val /\ IsAdd
  BY <1>2, BatchElem DEF AtAnn, Applied, Good, IsAdd
<1>4. PICK a, r, q, next, m, id, val :
        /\ a = ann /\ r = idToInternal /\ q = idToInternal' /\ next = nextInternal'
        /\ m = Without(cur) /\ id = batch[cur].id /\ val = batch[cur].val
  OBVIOUS
<1>5. /\ ResolverOK(q, next) /\ q[id] # 0 /\ \A x \in ID \ {id} : q[x] = r[x]
  <2>1. ResolverOK(idToInternal, nextInternal) /\ AssignID(batch[cur].id)
    BY DEF ResolverInv, AddToANN
  <2> QED BY <1>3, <1>4, <2>1, AssignIDIs
<1>6. m \in [ID -> Stored] /\ m[id] = None /\ Without(cur + 1) = Put(m, id, val)
  BY <1>2, <1>3, <1>4, WithoutNext
<1>7. AnnIs(a, r, m) /\ AnnAccepts(a, val) /\ ann' = AnnAdd(a, q[id], val)
  BY <1>1, <1>4 DEF AddToANN
<1>8. id \in ID /\ val \in Stored \ {None}
  BY <1>3, <1>4
<1>9. AnnIs(AnnAdd(a, q[id], val), q, Put(m, id, val))
  BY <1>5, <1>6, <1>7, <1>8, AnnAddHolds
<1>10. AnnIs(ann', idToInternal', Without(cur + 1))
  BY <1>4, <1>6, <1>7, <1>9
<1>11. batch' = batch /\ store' = store /\ cur' = cur + 1
  BY DEF AddToANN
<1>12. \A n : Without(n)' = Without(n)
  BY <1>11 DEF Without
<1>13. ~IsDelete'
  BY <1>3, <1>11 DEF IsAdd, IsDelete
<1>14. CASE cur = Len(batch)
  <2>1. pc' = "wal" /\ Without(cur + 1) = store'
    BY <1>2, <1>11, <1>14, WithoutPast DEF AddToANN
  <2>2. AnnIs(ann, idToInternal, store)'
    BY <1>10, <2>1
  <2> QED BY <1>1, <1>12, <1>13, <2>1, <2>2 DEF QuietInv, MatchOK, AnnOK, Settled
<1>15. CASE cur # Len(batch)
  <2>1. pc' = "ann" /\ Without(cur)' = Without(cur + 1)
    BY <1>11, <1>12, <1>15 DEF AddToANN
  <2>2. AnnIs(ann, idToInternal, Without(cur))'
    BY <1>10, <2>1
  <2> QED BY <1>1, <1>12, <2>1, <2>2 DEF QuietInv, MatchOK, AnnOK, Settled
<1> QED BY <1>14, <1>15

LEMMA UndoQuiet ==
  ASSUME IInv, QuietInv, RefuseByANN \/ RollbackOne PROVE QuietInv'
<1>1. CleanFiles' /\ Recovered' = Recovered /\ Recovered = Without(1) /\ pc' = "rollback"
  BY SameFiles DEF QuietInv, MatchOK, RefuseByANN, RollbackOne
<1>2. /\ StoredInv /\ cur \in 1 .. Len(batch) /\ batch[cur].id \in ID
      /\ store' = Drop(store, batch[cur].id) /\ batch' = batch
  <2>1. StoredInv /\ cur \in Nat /\ Len(batch) \in Nat
    BY BatchElem DEF IInv, StoredInv
  <2>2. CASE RefuseByANN
    BY <2>1, <2>2 DEF RefuseByANN, IInv, AtAnn, Applied, Good
  <2>3. CASE RollbackOne
    BY <2>1, <2>3 DEF RollbackOne, IInv, AtRollback, Good
  <2> QED BY <2>2, <2>3
<1>3. Without(1)' = Without(1)
  BY <1>2, WithoutDropped
<1> QED BY <1>1, <1>3 DEF QuietInv, MatchOK, AnnOK, Settled

LEMMA RollbackDoneQuiet ==
  ASSUME IInv, ResolverInv, QuietInv, RollbackDone PROVE QuietInv'
<1>1. CleanFiles' /\ Recovered' = Recovered /\ Recovered = Without(1) /\ CleanFiles
  BY SameFiles DEF QuietInv, MatchOK, RollbackDone, ReturnError, Return
<1>2. StoredInv /\ AtRollback /\ Len(batch) \in Nat /\ cur \in Nat /\ cur > Len(batch)
  BY BatchElem DEF RollbackDone, IInv, StoredInv
<1>3. \A i \in 1 .. Len(batch) : store[batch[i].id] = None /\ index[batch[i].id] = None
  BY <1>2 DEF AtRollback
<1>4. Without(1) = store
  BY <1>2, <1>3, WithoutAbsent
<1>5. index = store
  <2>1. \A id \in ID : index[id] = store[id]
    BY <1>2, <1>3 DEF AtRollback, Outside
  <2> QED BY <1>2, <2>1 DEF StoredInv
<1>6. PICK m \in [ID -> Stored] : m = store
  BY <1>2 DEF StoredInv
<1>7. Uniform(m) /\ RebuildANN(m, idToInternal, nextInternal)
  BY <1>1, <1>4, <1>5, <1>6 DEF CleanFiles, RollbackDone
<1>8. ResolverOK(idToInternal, nextInternal)
  BY DEF ResolverInv
<1>9. AnnIs(ann, idToInternal, m)'
  BY <1>7, <1>8, RebuildHolds
<1>10. pc' = "idle" /\ store' = store
  BY DEF RollbackDone, ReturnError, Return
<1>11. AnnIs(ann, idToInternal, store)'
  BY <1>6, <1>9, <1>10
<1> QED BY <1>1, <1>4, <1>10, <1>11, AgreedQuiet DEF Settled

----------------------------------------------------------------------------
(* DeleteVector.                                                           *)

LEMMA DeleteFromIndexQuiet ==
  ASSUME QuietInv, DeleteFromIndex PROVE QuietInv'
<1>1. saved = store[batch[1].id]
  BY DEF QuietInv, MatchOK, DeleteFromIndex
<1> QED BY <1>1, SameMemory DEF DeleteFromIndex, Settled

LEMMA DeleteFromStoreQuiet ==
  ASSUME IInv, QuietInv, DeleteFromStore PROVE QuietInv'
<1>1. /\ CleanFiles' /\ Recovered' = Recovered /\ Recovered = store
      /\ AnnIs(ann, idToInternal, store) /\ saved = store[batch[1].id]
  BY SameFiles DEF QuietInv, MatchOK, AnnOK, DeleteFromStore, Settled
<1>2. batch[1].id \in ID /\ store \in [ID -> Stored]
  BY DEF DeleteFromStore, IInv, StoredInv, AtDelStore, Restorable
<1>3. pc' = "delAnn" /\ UNCHANGED <<ann, idToInternal, batch, saved>> /\ store' = Drop(store, batch[1].id)
  BY DEF DeleteFromStore
<1>4. Undeleted' = store
  BY <1>1, <1>2, <1>3 DEF Undeleted, Put, Drop
<1>5. AnnIs(ann, idToInternal, Undeleted)'
  BY <1>1, <1>3, <1>4
<1> QED BY <1>1, <1>3, <1>4, <1>5 DEF QuietInv, MatchOK, AnnOK, Settled

LEMMA DeleteFromANNQuiet ==
  ASSUME IInv, ResolverInv, QuietInv, DeleteFromANN PROVE QuietInv'
<1>1. /\ CleanFiles' /\ Recovered' = Recovered /\ Recovered = Undeleted
      /\ AnnIs(ann, idToInternal, Undeleted)
  BY SameFiles DEF QuietInv, MatchOK, AnnOK, DeleteFromANN
<1>2. /\ batch[1].id \in ID /\ store \in [ID -> Stored] /\ batch[1].val = None
      /\ saved \in Stored \ {None} /\ store[batch[1].id] = None
  BY DEF DeleteFromANN, IInv, StoredInv, AtDelAnn, Restorable
<1>3. PICK a, r, next, id, m : /\ a = ann /\ r = idToInternal /\ next = nextInternal
                               /\ id = batch[1].id /\ m = Undeleted
  OBVIOUS
<1>4. id \in ID /\ m \in [ID -> Stored] /\ m[id] # None /\ Drop(m, id) = store
  BY <1>2, <1>3 DEF Undeleted, Put, Drop
<1>5. ResolverOK(r, next) /\ AnnIs(a, r, m) /\ r[id] # 0
  BY <1>1, <1>3, <1>4 DEF ResolverInv, AnnIs, Live
<1>6. AnnIs(AnnDelete(a, r[id]), [r EXCEPT ![id] = 0], Drop(m, id))
  BY <1>4, <1>5, AnnDeleteHolds
<1>7. /\ ann' = AnnDelete(a, r[id]) /\ idToInternal' = [r EXCEPT ![id] = 0]
      /\ pc' = "wal" /\ UNCHANGED <<store, batch, saved>>
  BY <1>3, <1>5 DEF DeleteFromANN
<1>8. AnnIs(ann, idToInternal, store)'
  BY <1>4, <1>6, <1>7
<1>9. IsDelete' /\ Undeleted' = Undeleted
  BY <1>2, <1>7 DEF IsDelete, Undeleted
<1> QED BY <1>1, <1>7, <1>8, <1>9 DEF QuietInv, MatchOK, AnnOK, Settled

----------------------------------------------------------------------------
(* The log.                                                                *)

LEMMA HeldUniform ==
  ASSUME NEW a, NEW r, NEW m, AnnIs(a, r, m) PROVE Uniform(m)
BY DEF AnnIs, Uniform

\* An append that succeeds gives the files the contents of the store.
LEMMA LoggedFiles ==
  ASSUME Quiet, IInv, QuietInv, LogOK
  PROVE  CleanFiles' /\ Recovered' = store
<1>0. /\ StoredInv /\ AtWal /\ Applied
      /\ Good(batch, Len(batch)) /\ Distinct(batch, Len(batch)) /\ Len(batch) > 0
  BY DEF LogOK, IInv, AtWal, Applied
<1>1. wal' = AppendLines(batch) /\ tornTail' = FALSE /\ snapshot' = snapshot /\ aborted' = aborted
  BY DEF LogOK, AppendOK, MayTakeEffect
<1>2. ~tornTail /\ ~aborted /\ AllReadable /\ Uniform(snapshot)
  BY DEF QuietInv, CleanFiles
<1>3. wal \in Seq(Line) /\ Len(wal) \in Nat /\ DOMAIN wal = 1 .. Len(wal)
  BY <1>0, WalElem
<1>4. batch \in Seq(Line) /\ Len(batch) \in Nat /\ store \in [ID -> Stored]
  BY <1>0, BatchIsLines DEF StoredInv
<1>5. wal' = wal \o batch
  BY <1>1, <1>2 DEF AppendLines
<1>6. /\ wal' \in Seq(Line) /\ Len(wal') = Len(wal) + Len(batch) /\ DOMAIN wal' = 1 .. Len(wal')
      /\ \A k \in 1 .. Len(wal') : wal'[k] = IF k <= Len(wal) THEN wal[k] ELSE batch[k - Len(wal)]
  <2>1. wal \o batch \in Seq(Line)
    BY <1>3, <1>4, ConcatProperties
  <2>2. DOMAIN wal' = 1 .. Len(wal')
    BY <1>5, <2>1, LenProperties
  <2> QED BY <1>3, <1>4, <1>5, <2>1, <2>2, ConcatProperties
<1>7. ASSUME NEW k \in 1 .. Len(wal') PROVE Readable(wal'[k])
  <2>1. CASE k <= Len(wal)
    BY <1>2, <1>3, <1>6, <2>1 DEF AllReadable
  <2>2. CASE k > Len(wal)
    <3>1. k - Len(wal) \in 1 .. Len(batch) /\ wal'[k] = batch[k - Len(wal)]
      BY <1>3, <1>4, <1>6, <2>2
    <3>2. wal'[k].id \in ID
      BY <1>0, <3>1 DEF Good
    <3> QED BY <3>2, PersistenceAssumption DEF Readable, Garbled, Quiet
  <2> QED BY <1>3, <1>4, <1>6, <2>1, <2>2
<1>8. AllReadable' /\ ReadableUpTo(wal', Len(wal'))
  BY <1>6, <1>7 DEF AllReadable, ReadableUpTo
<1>9. Extends(wal', wal, batch, Len(batch))
  BY <1>0, <1>1, <1>8, FullAppendIs
<1>10. PICK w, w2, s, m, b : w = wal /\ w2 = wal' /\ s = snapshot /\ m = store /\ b = batch
  OBVIOUS
<1>11. ASSUME NEW id \in ID PROVE Says(w2, s, Len(w2), id, m[id])
  <2>1. w \in Seq(Line) /\ Len(b) \in Nat /\ Extends(w2, w, b, Len(b)) /\ Distinct(b, Len(b))
    BY <1>0, <1>3, <1>4, <1>9, <1>10
  <2>2. CASE Outside(b, Len(b), id)
    <3>1. Says(w, s, Len(w), id, RecoveredOf(w, s)[id])
      BY <2>1, RecoveredSays
    <3>2. RecoveredOf(w, s)[id] = m[id]
      <4>1. Recovered[id] = store[id]
        <5>1. CASE IsDelete
          <6>1. Recovered = Undeleted /\ id # batch[1].id
            BY <1>0, <1>4, <1>10, <2>2, <5>1 DEF LogOK, QuietInv, MatchOK, Outside
          <6> QED BY <1>4, <6>1 DEF Undeleted, Put
        <5>2. CASE ~IsDelete
          <6>1. Recovered = Without(1) /\ \A i \in 1 .. Len(batch) : batch[i].id # id
            BY <1>10, <2>2, <5>2 DEF LogOK, QuietInv, MatchOK, Outside
          <6> QED BY <6>1 DEF Without
        <5> QED BY <5>1, <5>2
      <4> QED BY <1>10, <4>1, RecoveredNow
    <3> QED BY <2>1, <2>2, <3>1, <3>2, SaysAfterAppend
  <2>3. CASE ~Outside(b, Len(b), id)
    <3>1. PICK i \in 1 .. Len(b) : b[i].id = id
      BY <2>3 DEF Outside
    <3>2. b[i].val = m[id]
      BY <1>0, <1>10, <3>1 DEF Applied
    <3>3. Says(w2, s, Len(w2), id, b[i].val)
      BY <2>1, <3>1, SaysAfterAppend
    <3> QED BY <3>2, <3>3
  <2> QED BY <2>2, <2>3
<1>12. RecoveredOf(w2, s) = m
  <2>1. w2 \in Seq(Line) /\ m \in [ID -> Stored]
    BY <1>4, <1>6, <1>10
  <2> QED BY <1>11, <2>1, RecoveredMap
<1>13. Recovered' = store
  BY <1>1, <1>10, <1>12, RecoveredNow
<1>14. Uniform(m)
  <2>1. AnnIs(ann, idToInternal, m)
    BY <1>10 DEF LogOK, QuietInv, AnnOK
  <2> QED BY <2>1, HeldUniform
<1>15. Uniform(snapshot') /\ Uniform(Recovered')
  BY <1>1, <1>2, <1>10, <1>13, <1>14
<1> QED BY <1>1, <1>2, <1>8, <1>13, <1>15 DEF CleanFiles, Uniform, Live

LEMMA LogOKQuiet ==
  ASSUME Quiet, IInv, ResolverInv, QuietInv, LogOK PROVE QuietInv'
<1>1. CleanFiles' /\ Recovered' = store'
  BY LoggedFiles DEF LogOK
<1>2. PICK m \in [ID -> Stored] : m = store
  BY DEF IInv, StoredInv
<1>3. AnnIs(ann, idToInternal, m)
  BY <1>2 DEF LogOK, QuietInv, AnnOK
<1>4. AnnIs(ann, idToInternal, m)'
  <2>1. CASE RebuildANN(index, idToInternal, nextInternal)
    <3>1. Uniform(m)
      BY <1>3, HeldUniform
    <3>2. ResolverOK(idToInternal, nextInternal) /\ RebuildANN(m, idToInternal, nextInternal)
      BY <1>2, <2>1 DEF ResolverInv, LogOK, IInv, AtWal, Applied
    <3> QED BY <3>1, <3>2, RebuildHolds
  <2>2. CASE UNCHANGED <<ann, idToInternal, nextInternal>>
    BY <1>3, <2>2
  <2> QED BY <2>1, <2>2 DEF LogOK
<1>5. AnnIs(ann, idToInternal, store)' /\ pc' = "snap"
  BY <1>2, <1>4 DEF LogOK
<1> QED BY <1>1, <1>5, AgreedQuiet DEF Settled

\* An append that fails leaves the log as it was.
LEMMA AppendFailsQuiet ==
  ASSUME Quiet, AppendFails(batch) PROVE UNCHANGED diskVars
<1>1. \A op : Encodable(op)
  BY DEF Encodable, Quiet
<1> QED BY <1>1 DEF Quiet, AppendFails, AppendOpenFails, AppendMarshalFails, AppendStops, AppendSyncFails

LEMMA LogFailsQuiet ==
  ASSUME Quiet, IInv, ResolverInv, QuietInv, LogFailsAdd \/ LogFailsDelete PROVE QuietInv'
<1>1. CleanFiles' /\ Recovered' = Recovered /\ CleanFiles
  <2>1. AppendFails(batch) /\ aborted' = aborted
    BY DEF LogFailsAdd, LogFailsDelete, MayTakeEffect
  <2>2. UNCHANGED <<snapshot, wal, tornTail, aborted>>
    BY <2>1, AppendFailsQuiet
  <2> QED BY <2>2, SameFiles DEF QuietInv
<1>2. CASE LogFailsAdd
  <2>1. Recovered = Without(1) /\ pc' = "rollback" /\ Without(1)' = Without(1)
    BY <1>2 DEF LogFailsAdd, QuietInv, MatchOK, Without
  <2> QED BY <1>1, <2>1 DEF QuietInv, MatchOK, AnnOK, Settled
<1>3. CASE LogFailsDelete
  <2>1. /\ Recovered = Undeleted /\ store' = Undeleted /\ pc' = "idle" /\ index' = store'
        /\ store \in [ID -> Stored] /\ batch[1].id \in ID /\ saved \in Stored
    BY <1>3 DEF LogFailsDelete, QuietInv, MatchOK, Undeleted, Return, IInv, StoredInv, AtWal, Applied, Restorable
  <2>2. PICK m : m = Undeleted
    OBVIOUS
  <2>3. m \in [ID -> Stored] /\ Uniform(m)
    BY <1>1, <2>1, <2>2 DEF CleanFiles, Undeleted, Put
  <2>4. PICK id, r, next : /\ id \in ID /\ next = nextInternal + 1 /\ r = [idToInternal EXCEPT ![id] = next]
                           /\ RebuildANN(index', r, next)
    BY <1>3, <2>1 DEF LogFailsDelete
  <2>5. ResolverOK(r, next)
    BY <2>4, ReassignedOK DEF ResolverInv
  <2>6. RebuildANN(m, r, next)
    BY <2>1, <2>2, <2>4
  <2>7. AnnIs(ann, idToInternal, m)'
    BY <2>3, <2>5, <2>6, RebuildHolds
  <2>8. AnnIs(ann, idToInternal, store)'
    BY <2>1, <2>2, <2>7
  <2> QED BY <1>1, <2>1, <2>8, AgreedQuiet DEF Settled
<1> QED BY <1>2, <1>3

----------------------------------------------------------------------------
(* Snapshots.                                                              *)

\* The new snapshot is what the files said before.
LEMMA SavedFiles ==
  ASSUME IInv, CleanFiles, Recovered = store, SaveSnapshotOK(store), aborted' = aborted
  PROVE  CleanFiles' /\ Recovered' = store
<1>1. snapshot' = store /\ UNCHANGED <<wal, tornTail>>
  BY DEF SaveSnapshotOK
<1>2. PICK w, s, m : w = wal /\ s = snapshot /\ m = store
  OBVIOUS
<1>3. w \in Seq(Line) /\ m \in [ID -> Stored] /\ Len(w) \in Nat
  BY <1>2, WalElem DEF IInv, StoredInv
<1>4. ASSUME NEW id \in ID PROVE Says(w, m, Len(w), id, m[id])
  <2>1. RecoveredOf(w, s)[id] = m[id]
    BY <1>2, RecoveredNow
  <2>2. Says(w, s, Len(w), id, m[id])
    BY <1>3, <2>1, RecoveredSays
  <2> QED BY <1>3, <2>2, SaysOfSnapshot
<1>5. RecoveredOf(w, m) = m
  BY <1>3, <1>4, RecoveredMap
<1>6. Recovered' = store
  BY <1>1, <1>2, <1>5, RecoveredNow
<1>7. AllReadable'
  BY <1>1 DEF CleanFiles, AllReadable, Readable
<1>8. Uniform(snapshot') /\ Uniform(Recovered')
  BY <1>1, <1>6 DEF CleanFiles
<1> QED BY <1>1, <1>6, <1>7, <1>8 DEF CleanFiles, Uniform, Live

\* The log goes when the snapshot is what the files said.
LEMMA TruncatedFiles ==
  ASSUME IInv, CleanFiles, Recovered = store, snapshot = store, TruncateOK, aborted' = aborted
  PROVE  CleanFiles' /\ Recovered' = store
<1>1. snapshot' = store /\ wal' = <<>> /\ tornTail' = FALSE /\ Uniform(store)
  BY DEF TruncateOK, CleanFiles
<1>2. PICK m : m = store
  OBVIOUS
<1>3. <<>> \in Seq(Line) /\ Len(<<>>) = 0 /\ m \in [ID -> Stored]
  BY <1>2, EmptySeq DEF IInv, StoredInv
<1>4. \A id \in ID : Says(<<>>, m, Len(<<>>), id, m[id])
  BY <1>3, SaysNothing
<1>5. RecoveredOf(<<>>, m) = m
  BY <1>3, <1>4, RecoveredMap
<1>6. Recovered' = store
  BY <1>1, <1>2, <1>5, RecoveredNow
<1>7. AllReadable'
  <2>1. DOMAIN wal' = {}
    BY <1>1, <1>3, LenProperties
  <2> QED BY <2>1 DEF AllReadable
<1>8. Uniform(snapshot') /\ Uniform(Recovered')
  BY <1>1, <1>6
<1> QED BY <1>1, <1>6, <1>7, <1>8 DEF CleanFiles, Uniform, Live

\* A step on the files that leaves the memory alone.
LEMMA FilesQuiet ==
  ASSUME QuietInv, pc \in Settled, pc' \in Settled \ {"delIndex", "delStore"},
         CleanFiles', Recovered' = store, UNCHANGED <<store, ann, idToInternal>>
  PROVE  QuietInv'
<1>1. AnnIs(ann, idToInternal, store)
  BY DEF QuietInv, AnnOK
<1>2. AnnIs(ann, idToInternal, store)'
  BY <1>1
<1> QED BY <1>2, AgreedQuiet

LEMMA SettledNow ==
  ASSUME QuietInv, pc \in Settled PROVE CleanFiles /\ Recovered = store
BY DEF QuietInv, MatchOK

LEMMA SaveQuiet ==
  ASSUME IInv, QuietInv, SaveStep \/ RestoreSave PROVE QuietInv'
<1>1. /\ pc \in Settled /\ pc' \in Settled \ {"delIndex", "delStore"}
      /\ UNCHANGED <<store, ann, idToInternal, aborted>>
  BY DEF SaveStep, RestoreSave, ReturnError, Return, Settled
<1>2. CASE SaveSnapshotOK(store)
  <2>1. CleanFiles' /\ Recovered' = store
    BY <1>1, <1>2, SettledNow, SavedFiles
  <2> QED BY <1>1, <2>1, FilesQuiet
<1>3. CASE SaveSnapshotFails(store)
  BY <1>1, <1>3, SameMemory DEF SaveSnapshotFails
<1> QED BY <1>2, <1>3 DEF SaveStep, RestoreSave

LEMMA TruncateQuiet ==
  ASSUME IInv, QuietInv, TruncateStep \/ RestoreTruncate PROVE QuietInv'
<1>1. /\ pc \in Settled /\ pc' \in Settled \ {"delIndex", "delStore"}
      /\ UNCHANGED <<store, ann, idToInternal, aborted>> /\ snapshot = store
  BY DEF TruncateStep, RestoreTruncate, ReturnOK, ReturnError, Return, Settled, IInv, AtTrunc, AtRestoreTrunc
<1>2. CASE TruncateOK
  <2>1. CleanFiles' /\ Recovered' = store
    BY <1>1, <1>2, SettledNow, TruncatedFiles
  <2> QED BY <1>1, <2>1, FilesQuiet
<1>3. CASE TruncateFails
  BY <1>1, <1>3, SameMemory DEF TruncateFails
<1> QED BY <1>2, <1>3 DEF TruncateStep, RestoreTruncate

LEMMA DueQuiet ==
  ASSUME QuietInv, SnapshotNotDue \/ SnapshotDue \/ SyncStep PROVE QuietInv'
<1>1. /\ pc \in Settled /\ pc' \in Settled \ {"delIndex", "delStore"}
      /\ UNCHANGED <<store, ann, idToInternal, aborted, snapshot, wal, tornTail>>
  BY DEF SnapshotNotDue, SnapshotDue, SyncStep, SyncOK, SyncFails, ReturnOK, ReturnError, Return, Settled
<1> QED BY <1>1, SameMemory

----------------------------------------------------------------------------
(* Crashes and recoveries.                                                 *)

LEMMA CrashQuiet ==
  ASSUME Quiet, QuietInv, Crash \/ CrashWhileLogging \/ Restart PROVE QuietInv'
BY DownQuiet DEF Quiet, Crash, CrashWhileLogging, Restart, LoseMemory

LEMMA LoadSnapshotQuiet ==
  ASSUME QuietInv, LoadSnapshotOK \/ LoadSnapshotFails PROVE QuietInv'
<1>1. CASE LoadSnapshotOK
  BY <1>1, DownQuiet DEF LoadSnapshotOK
<1>2. ~LoadSnapshotFails
  <2>1. SUFFICES ASSUME LoadSnapshotFails PROVE FALSE
    OBVIOUS
  <2>2. PICK done \in SUBSET Loadable, last \in Loadable, d \in {Dim[val] : val \in Val} :
          done # {} /\ (\A x \in done : Dim[snapshot[x]] = d) /\ Dim[snapshot[last]] # d
    BY <2>1 DEF LoadSnapshotFails
  <2>3. PICK x \in done : TRUE
    BY <2>2
  <2>4. Dim[snapshot[x]] = Dim[snapshot[last]]
    BY DEF QuietInv, CleanFiles, Uniform, Live, Loadable
  <2> QED BY <2>2, <2>4
<1> QED BY <1>1, <1>2

LEMMA ReplayQuiet ==
  ASSUME IInv, QuietInv, ReplayLine \/ ReplayStops PROVE QuietInv'
<1>1. CASE ReplayLine
  BY <1>1, DownQuiet DEF ReplayLine
<1>2. ~ReplayStops
  <2>1. StoredInv /\ cur \in Nat
    BY DEF IInv, StoredInv
  <2>2. DOMAIN wal = 1 .. Len(wal) /\ Len(wal) \in Nat
    BY <2>1, WalElem
  <2> QED BY <2>1, <2>2 DEF ReplayStops, IInv, AtReplay, QuietInv, CleanFiles, AllReadable
<1> QED BY <1>1, <1>2

LEMMA ReplayDoneQuiet ==
  ASSUME IInv, ResolverInv, QuietInv, ReplayDone PROVE QuietInv'
<1>1. CleanFiles' /\ Recovered' = Recovered /\ CleanFiles
  BY SameFiles DEF QuietInv, ReplayDone
<1>2. StoredInv /\ AtReplay /\ pc' = "restoreSave" /\ store' = store
  BY DEF IInv, ReplayDone
<1>3. PICK w, s, m : w = wal /\ s = snapshot /\ m = store
  OBVIOUS
<1>4. w \in Seq(Line) /\ m \in [ID -> Stored] /\ cur - 1 = Len(w)
  <2>1. Len(wal) \in Nat /\ cur \in 1 .. (Len(wal) + 1) /\ cur > Len(wal)
    BY <1>2, WalElem DEF AtReplay, ReplayDone
  <2> QED BY <1>2, <1>3, <2>1 DEF StoredInv
<1>5. RecoveredOf(w, s) = m
  <2>1. \A id \in ID : Says(w, s, Len(w), id, m[id])
    BY <1>2, <1>3, <1>4 DEF AtReplay
  <2> QED BY <1>4, <2>1, RecoveredMap
<1>6. Recovered = m
  BY <1>3, <1>5, RecoveredNow
<1>7. Uniform(m) /\ ResolverOK(idToInternal, nextInternal) /\ RebuildANN(m, idToInternal, nextInternal)
  BY <1>1, <1>2, <1>3, <1>6 DEF CleanFiles, ResolverInv, ReplayDone, AtReplay
<1>8. AnnIs(ann, idToInternal, m)'
  BY <1>4, <1>7, RebuildHolds
<1>9. AnnIs(ann, idToInternal, store)' /\ Recovered' = store'
  BY <1>1, <1>2, <1>3, <1>6, <1>8
<1> QED BY <1>1, <1>2, <1>9, AgreedQuiet DEF Settled

----------------------------------------------------------------------------
LEMMA SameQuiet ==
  ASSUME QuietInv, UNCHANGED vars PROVE QuietInv'
<1>1. CleanFiles' /\ Recovered' = Recovered
  BY SameFiles DEF QuietInv, vars
<1>2. MatchOK'
  BY <1>1 DEF QuietInv, MatchOK, Without, Undeleted, IsDelete, vars
<1>3. AnnOK'
  BY DEF QuietInv, AnnOK, AnnIs, AnnNodes, Live, Without, Undeleted, vars
<1> QED BY <1>1, <1>2, <1>3 DEF QuietInv

LEMMA NextQuiet ==
  ASSUME Quiet, IInv, ResolverInv, QuietInv, [Next]_vars
  PROVE  QuietInv' \/ LoadSnapshotUnreadable \/ ReplayUnreadable
<1>1. CASE RefuseVector
  <2>1. StoredInv'
    BY NextIInv DEF IInv
  <2> QED BY <1>1, <2>1, RefuseVectorQuiet
<1>2. CASE UNCHANGED vars
  BY <1>2, SameQuiet
<1>3. CASE Add
  BY <1>1, <1>3, IndexQuiet, UpsertVectorsQuiet, AddToANNQuiet, UndoQuiet, RollbackDoneQuiet DEF Add
<1>4. CASE Delete
  BY <1>4, DeleteFromIndexQuiet, DeleteFromStoreQuiet, DeleteFromANNQuiet DEF Delete
<1>5. CASE Log
  BY <1>5, LogOKQuiet, LogFailsQuiet DEF Log
<1>6. CASE MaybeSnapshot
  BY <1>6, DueQuiet, SaveQuiet, TruncateQuiet DEF MaybeSnapshot
<1>7. CASE RestoreState
  BY <1>7, LoadSnapshotQuiet, ReplayQuiet, ReplayDoneQuiet, SaveQuiet, TruncateQuiet DEF RestoreState
<1> QED BY <1>2, <1>3, <1>4, <1>5, <1>6, <1>7, BeginQuiet, CrashQuiet DEF Next

LEMMA InitQuiet == Init => QuietInv
<1> SUFFICES ASSUME Init PROVE QuietInv
  OBVIOUS
<1>1. IInv /\ wal = <<>> /\ snapshot = EmptyMap /\ tornTail = FALSE /\ aborted = FALSE /\ pc = "down"
  BY InitIInv DEF Init
<1>2. <<>> \in Seq(Line) /\ Len(<<>>) = 0 /\ DOMAIN <<>> = {}
  BY EmptySeq, LenProperties
<1>3. Recovered = EmptyMap
  BY <1>1, <1>2 DEF Recovered, EmptyMap
<1>4. Uniform(EmptyMap)
  BY DEF Uniform, Live, EmptyMap
<1> QED BY <1>1, <1>2, <1>3, <1>4 DEF QuietInv, CleanFiles, AllReadable, MatchOK, AnnOK, Settled

\* As long as every append to the log is all or nothing, and until a recovery
\* is refused the snapshot or the log by the disk, every line of the files can
\* be decoded, what they say is what the store was before the request until it
\* is logged and the store itself from then on, and the ANN index holds the
\* vectors of the store (service.go, persistence.go).
THEOREM QuietInvHolds ==
  ASSUME Quiet PROVE Spec => [](unread \/ QuietInv)
<1>1. Init => ResolverInv
  BY UnassignedOK DEF Init, ResolverInv
<1>2. IInv /\ ResolverInv /\ [Next]_vars => ResolverInv'
  BY NextResolver
<1>3. IInv /\ ResolverInv /\ (unread \/ QuietInv) /\ UnreadAborts /\ [Next]_vars => (unread \/ QuietInv)'
  <2>1. ASSUME IInv, ResolverInv, QuietInv, [Next]_vars PROVE unread' \/ QuietInv'
    BY <2>1, NextQuiet DEF LoadSnapshotUnreadable, ReplayUnreadable
  <2>2. ASSUME unread, UnreadAborts, [Next]_vars PROVE unread'
    BY <2>2, NextHistory DEF UnreadAborts
  <2> QED BY <2>1, <2>2
<1> QED BY <1>1, <1>2, <1>3, InitQuiet, IInvHolds, UnreadAbortsHolds, PTL DEF Spec

\* Then a recovery gives up only when a file cannot be read: every line of the
\* log can be decoded, and the snapshot holds payloads of one dimension
\* (service.go restoreState, loadSnapshot, replayWAL).
THEOREM RecoveryAlwaysCompletes ==
  ASSUME Quiet PROVE Spec => []RecoveryCompletes
<1>1. unread \/ QuietInv => RecoveryCompletes
  BY DEF QuietInv, CleanFiles, RecoveryCompletes
<1> QED BY <1>1, QuietInvHolds, PTL

\* The disk gives back what was written.
Legible == Quiet /\ "read" \notin Faults

LEMMA LegibleQuietInv ==
  ASSUME Legible PROVE Spec => []QuietInv
<1>1. Init => ~unread
  BY DEF Init
<1>2. ~unread /\ [Next]_vars => ~unread'
  BY NextHistory DEF Legible, LoadSnapshotUnreadable, ReplayUnreadable, ReadFails
<1>3. (unread \/ QuietInv) /\ ~unread => QuietInv
  OBVIOUS
<1>4. Spec => [](unread \/ QuietInv)
  BY QuietInvHolds DEF Legible
<1> QED BY <1>1, <1>2, <1>3, <1>4, PTL DEF Spec

\* And whenever no write is in progress the ANN index, reached through the
\* resolver, holds exactly the vectors of the store: after rollbacks, undone
\* deletes, compactions and completed recoveries (service.go addANNVector,
\* rollbackAddedVectors, DeleteVector, rebuildANNLocked).
THEOREM ANNAndStoreAgree ==
  ASSUME Quiet PROVE Spec => []ANNMatchesStore
<1>1. (unread \/ QuietInv) /\ UnreadAborts => ANNMatchesStore
  BY DEF QuietInv, AnnOK, AnnIs, ANNMatchesStore, Settled, UnreadAborts
<1> QED BY <1>1, QuietInvHolds, UnreadAbortsHolds, PTL

----------------------------------------------------------------------------
(* The service implements the durable map.                                 *)

\* A request is no longer than the client made it.
BatchBounded == Len(batch) <= MaxBatch

LEMMA InitBatchBounded == Init => BatchBounded
<1>1. MaxBatch \in Nat /\ Len(<<>>) = 0
  BY ServiceAssumption, EmptySeq
<1> QED BY <1>1 DEF Init, BatchBounded

LEMMA NextBatchBounded ==
  ASSUME IInv, BatchBounded, [Next]_vars PROVE BatchBounded'
<1>0. MaxBatch \in Nat /\ MaxBatch >= 1 /\ Len(<<>>) = 0
  BY ServiceAssumption, EmptySeq
<1>1. CASE batch' = <<>>
  BY <1>0, <1>1 DEF BatchBounded
<1>2. CASE batch' = batch
  BY <1>2 DEF BatchBounded
<1>3. CASE \E b \in Batches : AddVectors(b)
  <2>1. PICK b \in Batches : AddVectors(b)
    BY <1>3
  <2>2. PICK n \in 1 .. MaxBatch : b \in [1 .. n -> Vector]
    BY DEF Batches
  <2>3. b \in Seq(ReqVector) /\ n \in Nat
    BY <1>0, <2>2, BatchIsSeq
  <2>4. Len(b) = n
    BY <2>2, <2>3, LenProperties
  <2> QED BY <1>0, <2>1, <2>2, <2>4 DEF AddVectors, BatchBounded
<1>4. CASE \E id \in ID : DeleteVector(id)
  <2>1. Len(batch') = 1
    BY <1>4 DEF DeleteVector
  <2> QED BY <1>0, <2>1 DEF BatchBounded
<1>5. CASE RefuseVector
  <2>1. StoredInv /\ AtIndex
    BY <1>5 DEF RefuseVector, IInv
  <2>2. /\ cur \in 1 .. Len(batch) /\ Len(batch) \in Nat
        /\ batch \in Seq(ReqVector) /\ cur - 1 \in 0 .. Len(batch)
    BY <2>1, BatchElem DEF AtIndex
  <2>3. Len(batch') = cur - 1
    BY <1>5, <2>2, PrefixIs DEF RefuseVector
  <2> QED BY <1>0, <2>2, <2>3 DEF BatchBounded
<1>6. CASE UNCHANGED vars
  BY <1>2, <1>6 DEF vars
<1>7. CASE Add \/ Delete \/ Log
  BY <1>1, <1>2, <1>5, <1>7 DEF Add, AddToIndex, UpsertVectors, AddToANN, RefuseByANN, RollbackOne,
     RollbackDone, Delete, DeleteFromIndex, DeleteFromStore, DeleteFromANN, Log, LogOK, LogFailsAdd,
     LogFailsDelete, ReturnError, Return
<1>8. CASE MaybeSnapshot
  BY <1>1, <1>2, <1>8 DEF MaybeSnapshot, SnapshotNotDue, SnapshotDue, SyncStep, SaveStep, TruncateStep,
     ReturnOK, ReturnError, Return
<1>9. CASE Crash \/ CrashWhileLogging \/ Restart
  BY <1>1, <1>2, <1>9 DEF Crash, CrashWhileLogging, LoseMemory, Restart
<1>10. CASE RestoreState
  BY <1>1, <1>2, <1>10 DEF RestoreState, LoadSnapshotOK, LoadSnapshotFails, LoadSnapshotUnreadable,
     ReplayLine, ReplayStops, ReplayUnreadable, ReplayDone, RestoreSave, RestoreTruncate, ReturnError,
     Return
<1> QED BY <1>3, <1>4, <1>6, <1>7, <1>8, <1>9, <1>10 DEF Next

\* Only an append that succeeds changes what a restart would recover.
LEMMA ContentsKept ==
  ASSUME Quiet, IInv, QuietInv, [Next]_vars, ~LogOK PROVE Recovered' = Recovered
<1>1. CASE UNCHANGED <<snapshot, wal>>
  BY <1>1 DEF Recovered
<1>2. CASE SaveStep \/ RestoreSave
  <2>1. pc \in Settled /\ aborted' = aborted
    BY <1>2 DEF SaveStep, RestoreSave, ReturnError, Settled
  <2> QED BY <1>1, <1>2, <2>1, SettledNow, SavedFiles DEF SaveStep, RestoreSave, SaveSnapshotFails
<1>3. CASE TruncateStep \/ RestoreTruncate
  <2>1. pc \in Settled /\ aborted' = aborted /\ snapshot = store
    BY <1>3 DEF TruncateStep, RestoreTruncate, ReturnOK, ReturnError, Settled, IInv, AtTrunc, AtRestoreTrunc
  <2> QED BY <1>1, <1>3, <2>1, SettledNow, TruncatedFiles DEF TruncateStep, RestoreTruncate, TruncateFails
<1>4. CASE LogFailsAdd \/ LogFailsDelete
  BY <1>1, <1>4, AppendFailsQuiet DEF LogFailsAdd, LogFailsDelete
<1>5. CASE (\E b \in Batches : AddVectors(b)) \/ \E id \in ID : DeleteVector(id)
  BY <1>1, <1>5 DEF AddVectors, DeleteVector
<1>6. CASE Add \/ Delete
  BY <1>1, <1>6 DEF Add, AddToIndex, RefuseVector, UpsertVectors, AddToANN, RefuseByANN, RollbackOne,
     RollbackDone, Delete, DeleteFromIndex, DeleteFromStore, DeleteFromANN
<1>7. CASE SnapshotNotDue \/ SnapshotDue \/ SyncStep
  BY <1>1, <1>7 DEF SnapshotNotDue, SnapshotDue, SyncStep, SyncOK, SyncFails
<1>8. CASE Crash \/ CrashWhileLogging \/ Restart
  BY <1>1, <1>8 DEF Quiet, Crash, CrashWhileLogging, Restart
<1>9. CASE LoadSnapshotOK \/ LoadSnapshotFails \/ ReplayLine \/ ReplayStops \/ ReplayDone
  BY <1>1, <1>9 DEF LoadSnapshotOK, LoadSnapshotFails, ReplayLine, ReplayStops, ReplayDone
<1>11. CASE LoadSnapshotUnreadable \/ ReplayUnreadable
  BY <1>1, <1>11 DEF LoadSnapshotUnreadable, ReplayUnreadable, ReadFails
<1>10. CASE UNCHANGED vars
  BY <1>1, <1>10 DEF vars
<1> QED BY <1>2, <1>3, <1>4, <1>5, <1>6, <1>7, <1>8, <1>9, <1>10, <1>11
        DEF Next, Log, MaybeSnapshot, RestoreState

\* An append that succeeds is an Insert or a Remove of the durable map.
LEMMA LogOKIsWrite ==
  ASSUME Quiet, IInv, QuietInv, BatchBounded, LogOK PROVE Map!Keep
<1>0. /\ StoredInv /\ AtWal /\ Applied /\ pc = "wal" /\ pc' = "snap"
      /\ Good(batch, Len(batch)) /\ Distinct(batch, Len(batch)) /\ Len(batch) > 0
  BY DEF LogOK, IInv, AtWal, Applied
<1>1. /\ Len(batch) \in Nat /\ DOMAIN batch = 1 .. Len(batch) /\ store \in [ID -> Stored]
      /\ batch \in [1 .. Len(batch) -> ReqVector]
  BY <1>0, BatchElem, LenProperties DEF StoredInv
<1>2. Recovered' = store
  BY LoggedFiles
<1>3. CASE IsDelete
  <2>1. Recovered = Undeleted /\ Restorable
    BY <1>0, <1>3 DEF QuietInv, MatchOK, AtWal
  <2>2. batch[1].id \in ID /\ saved # None /\ store[batch[1].id] = None
    BY <1>0, <1>1, <2>1 DEF Restorable, Applied
  <2>3. Recovered[batch[1].id] # None /\ store = [Recovered EXCEPT ![batch[1].id] = None]
    BY <1>1, <2>1, <2>2 DEF Undeleted, Put
  <2>4. Map!Remove(batch[1].id)
    BY <1>0, <1>2, <2>3 DEF Map!Remove
  <2> QED BY <2>2, <2>4 DEF Map!Keep
<1>4. CASE ~IsDelete
  <2>1. Recovered = Without(1) /\ IsAdd
    BY <1>0, <1>4 DEF QuietInv, MatchOK, AtWal
  <2>2. \A i \in 1 .. Len(batch) : Recovered[batch[i].id] = None
    BY <1>0, <2>1 DEF Without, Good
  <2>3. store = Overwrite(Recovered, batch)
    <3>1. PICK m, b, n : m = Recovered /\ b = batch /\ n = Len(batch)
      OBVIOUS
    <3>2. n \in Nat /\ DOMAIN b = 1 .. n /\ Distinct(b, n)
      BY <1>0, <1>1, <3>1
    <3>3. /\ \A i \in 1 .. n : b[i].id \in ID => Overwrite(m, b)[b[i].id] = b[i].val
          /\ \A id \in ID : Outside(b, n, id) => Overwrite(m, b)[id] = m[id]
      <4>1. Overwritten(m, b, n, Overwrite(m, b))
        BY <3>2, OverwriteIs
      <4> QED BY <4>1 DEF Overwritten
    <3>4. ASSUME NEW id \in ID PROVE Overwrite(m, b)[id] = store[id]
      <4>1. CASE Outside(b, n, id)
        BY <2>1, <3>1, <3>3, <4>1 DEF Outside, Without
      <4>2. CASE ~Outside(b, n, id)
        BY <1>0, <3>1, <3>3, <4>2 DEF Outside, Applied
      <4> QED BY <4>1, <4>2
    <3>5. Overwrite(m, b) = [id \in ID |-> Overwrite(m, b)[id]]
      BY DEF Overwrite
    <3>6. Overwrite(m, b) = store
      BY <1>1, <3>4, <3>5
    <3> QED BY <3>1, <3>6
  <2>4. Map!Insert(batch)
    BY <1>0, <1>1, <1>2, <2>2, <2>3 DEF Map!Insert, Overwrite, Distinct
  <2>5. batch \in Map!Inserts
    <3>1. \A i \in 1 .. Len(batch) : batch[i] \in [id : ID, val : Val]
      BY <1>0, <1>1, <2>1 DEF ReqVector, Good, IsAdd
    <3>2. batch \in [1 .. Len(batch) -> [id : ID, val : Val]]
      BY <1>1, <3>1
    <3>3. Len(batch) \in 1 .. MaxBatch
      BY <1>0, <1>1, ServiceAssumption DEF BatchBounded
    <3> QED BY <3>2, <3>3 DEF Map!Inserts
  <2> QED BY <2>4, <2>5 DEF Map!Keep
<1> QED BY <1>3, <1>4

LEMMA StepKeeps ==
  ASSUME Quiet, IInv, QuietInv, QuietInv', BatchBounded, [Next]_vars
  PROVE  [Map!MapNext]_(Map!mapVars)
<1>0. ~aborted /\ ~aborted' /\ aborted' = aborted
  BY NextHistory DEF QuietInv, CleanFiles
<1>1. CASE LogOK
  BY <1>0, <1>1, LogOKIsWrite DEF Map!MapNext
<1>2. CASE ~LogOK
  <2>1. Recovered' = Recovered
    BY <1>2, ContentsKept
  <2>2. (pc = "idle" => Recovered = store) /\ (pc' = "idle" => Recovered' = store')
    BY DEF QuietInv, MatchOK, Settled
  <2>3. CASE pc # "idle" /\ pc' = "idle"
    BY <1>0, <2>1, <2>2, <2>3 DEF Map!MapNext, Map!Keep, Map!Serve
  <2>4. CASE pc = "idle" /\ pc' # "idle"
    BY <1>0, <2>1, <2>4 DEF Map!MapNext, Map!Keep, Map!Interrupt, Map!mapVars
  <2>5. CASE pc = "idle" <=> pc' = "idle"
    BY <1>0, <2>1, <2>2, <2>5 DEF Map!mapVars
  <2> QED BY <2>3, <2>4, <2>5
<1> QED BY <1>1, <1>2

LEMMA StepImplements ==
  ASSUME Quiet, IInv, UnreadAborts, unread \/ QuietInv, unread' \/ QuietInv', BatchBounded, [Next]_vars
  PROVE  [Map!MapNext]_(Map!mapVars)
<1>1. CASE aborted
  BY <1>1, NextHistory DEF Map!MapNext, Map!mapVars
<1>2. CASE QuietInv /\ QuietInv'
  BY <1>2, StepKeeps
<1>3. CASE ~aborted /\ unread'
  <2>1. QuietInv /\ (LoadSnapshotUnreadable \/ ReplayUnreadable)
    BY <1>3, NextHistory DEF UnreadAborts
  <2>2. UNCHANGED <<snapshot, wal>> /\ pc # "idle" /\ aborted' = TRUE
    BY <2>1 DEF LoadSnapshotUnreadable, ReplayUnreadable, ReadFails
  <2>3. Recovered' = Recovered
    BY <2>2 DEF Recovered
  <2> QED BY <1>3, <2>2, <2>3 DEF Map!MapNext, Map!GiveUp
<1> QED BY <1>1, <1>2, <1>3 DEF UnreadAborts

\* As long as every append to the log is all or nothing, the service
\* implements the durable map of VectorMap: a request takes effect when it is
\* logged, as a whole, and no snapshot, truncation, crash or recovery changes
\* what a client reads, until the disk refuses a recovery one of the files;
\* that step still leaves the map recoverable (service.go AddVectors,
\* DeleteVector, restoreState).
THEOREM ServiceImplementsMap ==
  ASSUME Quiet PROVE Spec => ImplementsVectorMap
<1>1. Init => Map!MapInit
  <2> SUFFICES ASSUME Init PROVE Map!MapInit
    OBVIOUS
  <2>1. DOMAIN <<>> = {}
    BY EmptySeq, LenProperties
  <2>2. Recovered = EmptyMap
    BY <2>1 DEF Init, Recovered, EmptyMap
  <2> QED BY <2>2 DEF Init, Map!MapInit, EmptyMap
<1>2. Init => BatchBounded
  BY InitBatchBounded
<1>3. IInv /\ BatchBounded /\ [Next]_vars => BatchBounded'
  BY NextBatchBounded
<1>4. /\ IInv /\ UnreadAborts /\ (unread \/ QuietInv) /\ (unread \/ QuietInv)' /\ BatchBounded
      /\ [Next]_vars
      => [Map!MapNext]_(Map!mapVars)
  BY StepImplements
<1> QED BY <1>1, <1>2, <1>3, <1>4, IInvHolds, UnreadAbortsHolds, QuietInvHolds, PTL
        DEF Spec, ImplementsVectorMap, Map!MapSpec

----------------------------------------------------------------------------
(* The log is compacted.                                                   *)

\* No snapshot fails either: the disk works, but the log may fail to open for
\* an append.  Sync opens the log too, unless every append was synced.
Steady ==
  /\ Legible /\ "save" \notin Faults /\ "trunc" \notin Faults /\ HugeVal = {}
  /\ "open" \in Faults => SyncEvery = 1

InRequest == {"idle", "index", "upsert", "ann", "rollback", "delIndex", "delStore", "delAnn", "wal"}

\* The log holds the writes since the last snapshot, and they are fewer than
\* SnapshotEvery until the one that makes a snapshot due.
CompactInv ==
  /\ persistOps \in Nat
  /\ pc \notin InRequest \cup {"snap", "sync", "save", "trunc"} => persistOps = 0
  /\ pc \in InRequest \cup {"snap"} => persistOps < SnapshotEvery
  /\ pc \in InRequest => Len(wal) <= persistOps * MaxBatch
  /\ pc = "snap" => Len(wal) <= (persistOps + 1) * MaxBatch

\* Nothing waits for an fsync where Sync could fail.
Synced == "open" \in Faults => pendingOps = 0

LEMMA NextSynced ==
  ASSUME Steady, IInv, Synced, [Next]_vars PROVE Synced'
<1> SUFFICES ASSUME "open" \in Faults PROVE pendingOps' = 0
  BY DEF Synced
<1>0. pendingOps = 0 /\ SyncEvery = 1 /\ Quiet
  BY DEF Synced, Steady, Legible
<1>1. CASE (\E b \in Batches : AddVectors(b)) \/ \E id \in ID : DeleteVector(id)
  BY <1>0, <1>1 DEF AddVectors, DeleteVector
<1>2. CASE Add \/ Delete
  BY <1>0, <1>2 DEF Add, AddToIndex, RefuseVector, UpsertVectors, AddToANN, RefuseByANN, RollbackOne,
     RollbackDone, Delete, DeleteFromIndex, DeleteFromStore, DeleteFromANN
<1>3. CASE LogOK
  <2>1. Len(batch) \in Nat /\ Len(batch) > 0
    BY <1>3, BatchElem DEF LogOK, IInv, AtWal, Applied
  <2> QED BY <1>0, <1>3, <2>1 DEF LogOK, AppendOK
<1>4. CASE LogFailsAdd \/ LogFailsDelete
  BY <1>0, <1>4, AppendFailsQuiet DEF LogFailsAdd, LogFailsDelete
<1>5. CASE MaybeSnapshot
  BY <1>0, <1>5 DEF MaybeSnapshot, SnapshotNotDue, SnapshotDue, SyncStep, SaveStep, TruncateStep,
     SyncOK, SyncFails, SaveSnapshotOK, SaveSnapshotFails, TruncateOK, TruncateFails
<1>6. CASE Crash \/ CrashWhileLogging \/ Restart
  BY <1>0, <1>6 DEF Crash, CrashWhileLogging, Restart
<1>7. CASE RestoreState
  BY <1>0, <1>7 DEF RestoreState, LoadSnapshotOK, LoadSnapshotFails, LoadSnapshotUnreadable, ReplayLine,
     ReplayStops, ReplayUnreadable, ReadFails, ReplayDone, RestoreSave, RestoreTruncate,
     SaveSnapshotOK, SaveSnapshotFails, TruncateOK, TruncateFails
<1>8. CASE UNCHANGED vars
  BY <1>0, <1>8 DEF vars
<1> QED BY <1>1, <1>2, <1>3, <1>4, <1>5, <1>6, <1>7, <1>8 DEF Next, Log

LEMMA NextCompact ==
  ASSUME Steady, Synced, IInv, BatchBounded, QuietInv, QuietInv', CompactInv, [Next]_vars
  PROVE  CompactInv'
<1>0. /\ persistOps \in Nat /\ MaxBatch \in Nat /\ SnapshotEvery \in Nat /\ SnapshotEvery > 0
      /\ Len(wal) \in Nat /\ Len(batch) \in Nat /\ Len(<<>>) = 0
  BY WalElem, BatchElem, ServiceAssumption, EmptySeq DEF CompactInv, IInv
<1>1. CASE UNCHANGED <<wal, persistOps>> /\ pc \in InRequest /\ pc' \in InRequest
  BY <1>1 DEF CompactInv, InRequest
<1>2. CASE persistOps' = 0 /\ pc' \notin InRequest \cup {"snap"}
  BY <1>2 DEF CompactInv, InRequest
<1>3. CASE persistOps' = 0 /\ wal' = <<>>
  <2>1. persistOps' = 0 /\ Len(wal') = 0 /\ 0 * MaxBatch = 0 /\ (0 + 1) * MaxBatch = MaxBatch
    BY <1>0, <1>3
  <2> QED BY <1>0, <2>1 DEF CompactInv
<1>4. CASE LogOK
  <2>1. wal' = wal \o batch /\ pc = "wal" /\ pc' = "snap" /\ persistOps' = persistOps
    BY <1>4 DEF LogOK, AppendOK, AppendLines, QuietInv, CleanFiles
  <2>2. Len(wal') = Len(wal) + Len(batch)
    <3>1. wal \in Seq(Line) /\ batch \in Seq(Line)
      BY <1>4, WalElem, BatchIsLines DEF LogOK, IInv, AtWal, Applied
    <3> QED BY <2>1, <3>1, ConcatProperties
  <2>3. Len(wal) <= persistOps * MaxBatch /\ Len(batch) <= MaxBatch /\ persistOps < SnapshotEvery
    BY <2>1 DEF CompactInv, InRequest, BatchBounded
  <2>4. (persistOps + 1) * MaxBatch = persistOps * MaxBatch + MaxBatch /\ persistOps * MaxBatch \in Nat
    BY <1>0
  <2>5. Len(wal') <= (persistOps + 1) * MaxBatch
    BY <1>0, <2>2, <2>3, <2>4
  <2> QED BY <1>0, <2>1, <2>3, <2>5 DEF CompactInv, InRequest
<1>5. CASE SnapshotNotDue
  <2>1. pc = "snap" /\ pc' = "idle" /\ persistOps' = persistOps + 1 /\ persistOps + 1 < SnapshotEvery
        /\ wal' = wal
    BY <1>5 DEF SnapshotNotDue, ReturnOK, Return
  <2>2. Len(wal') <= persistOps' * MaxBatch
    BY <2>1 DEF CompactInv
  <2> QED BY <1>0, <2>1, <2>2 DEF CompactInv, InRequest
<1>6. CASE SnapshotDue \/ SyncStep \/ SaveStep
  <2>2. ~SyncFails
    BY DEF Steady, Legible, Quiet, SyncFails, Synced
  <2>1. pc' \in {"sync", "save", "trunc"} /\ persistOps' \in Nat
    BY <1>0, <1>6, <2>2 DEF Steady, SnapshotDue, SyncStep, SaveStep, SaveSnapshotFails
  <2> QED BY <2>1 DEF CompactInv, InRequest
<1>7. CASE TruncateStep \/ RestoreTruncate
  BY <1>3, <1>7 DEF Steady, TruncateStep, RestoreTruncate, TruncateOK, TruncateFails
<1>8. CASE Crash \/ CrashWhileLogging
  BY <1>2, <1>8 DEF Crash, CrashWhileLogging, LoseMemory, InRequest
<1>9. CASE LoadSnapshotFails \/ ReplayStops \/ LoadSnapshotUnreadable \/ ReplayUnreadable
  BY <1>9 DEF LoadSnapshotFails, ReplayStops, LoadSnapshotUnreadable, ReplayUnreadable, QuietInv, CleanFiles
<1>10. CASE Restart \/ LoadSnapshotOK \/ ReplayLine \/ ReplayDone \/ RestoreSave
  <2>1. persistOps' = persistOps /\ pc \notin InRequest \cup {"snap", "sync", "save", "trunc"}
        /\ pc' \notin InRequest \cup {"snap"}
    BY <1>10 DEF Steady, Restart, LoadSnapshotOK, ReplayLine, ReplayDone, RestoreSave, SaveSnapshotFails,
       InRequest
  <2> QED BY <1>2, <2>1 DEF CompactInv
<1>11. CASE (\E b \in Batches : AddVectors(b)) \/ \E id \in ID : DeleteVector(id)
  BY <1>1, <1>11 DEF AddVectors, DeleteVector, InRequest
<1>12. CASE Add \/ Delete
  BY <1>1, <1>12 DEF Add, AddToIndex, RefuseVector, UpsertVectors, AddToANN, RefuseByANN, RollbackOne,
     RollbackDone, Delete, DeleteFromIndex, DeleteFromStore, DeleteFromANN, ReturnError, Return, InRequest
<1>13. CASE LogFailsAdd \/ LogFailsDelete
  BY <1>1, <1>13, AppendFailsQuiet DEF Steady, Legible, LogFailsAdd, LogFailsDelete, Return, InRequest
<1>14. CASE UNCHANGED vars
  BY <1>14 DEF CompactInv, vars
<1> QED BY <1>4, <1>5, <1>6, <1>7, <1>8, <1>9, <1>10, <1>11, <1>12, <1>13, <1>14
        DEF Next, Log, MaybeSnapshot, RestoreState

\* When the disk works, the log between writes holds fewer than SnapshotEvery
\* requests, however many crashes and recoveries there were (service.go
\* maybeSnapshot, restoreState).
THEOREM LogIsCompacted ==
  ASSUME Steady PROVE Spec => []LogCompacted
<1>1. Init => CompactInv
  BY DEF Init, CompactInv, InRequest
<1>2. IInv /\ BatchBounded /\ [Next]_vars => BatchBounded'
  BY NextBatchBounded
<1>3. IInv /\ BatchBounded /\ QuietInv /\ QuietInv' /\ Synced /\ CompactInv /\ [Next]_vars => CompactInv'
  BY NextCompact
<1>6. Init => Synced
  BY DEF Init, Synced
<1>7. IInv /\ Synced /\ [Next]_vars => Synced'
  BY NextSynced
<1>4. CompactInv => LogCompacted
  BY DEF CompactInv, LogCompacted, InRequest
<1>5. Spec => []QuietInv
  BY LegibleQuietInv DEF Steady
<1> QED BY <1>1, <1>2, <1>3, <1>4, <1>5, <1>6, <1>7, InitBatchBounded, IInvHolds, PTL DEF Spec
============================================================================
