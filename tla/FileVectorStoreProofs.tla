----------------------- MODULE FileVectorStoreProofs -----------------------
(***************************************************************************)
(* The payload file, for every set of ids, payloads and readers, every     *)
(* length of the file and of a batch, and every sync interval.  Whatever   *)
(* the environment lets fail, a reader that uses an offset and a handle    *)
(* after it released the lock gets the record it asked for or an error.    *)
(* While writes and reads of the file do not fail, the index in memory is  *)
(* the one a restart would rebuild, and no open, fsync, compaction, Close  *)
(* or crash changes what a restart finds.                                  *)
(***************************************************************************)
EXTENDS FileVectorStore, SequenceTheorems, FiniteSetTheorems, WellFoundedInduction, TLAPS

----------------------------------------------------------------------------
(* Least and greatest numbers.                                             *)

LEMMA Least ==
  ASSUME NEW S, S \subseteq Nat, S # {}
  PROVE  \E m \in S : \A j \in S : m <= j
<1> DEFINE R == OpToRel(<, Nat)
<1>1. PICK m \in S : \A j \in S : ~ (<<j, m>> \in R)
  <2>1. IsWellFoundedOn(R, Nat)
    BY NatLessThanWellFounded
  <2> HIDE DEF R
  <2> QED BY <2>1, WFMin
<1>2. ASSUME NEW j \in S PROVE m <= j
  <2>1. j < m => <<j, m>> \in R
    BY DEF OpToRel
  <2>2. ~(j < m)
    BY <1>1, <2>1
  <2> QED BY <2>2
<1> QED BY <1>2

LEMMA Greatest ==
  ASSUME NEW n \in Nat, NEW S, S \subseteq 1 .. n, S # {}
  PROVE  \E m \in S : \A j \in S : j <= m
<1> DEFINE D == {n - i : i \in S}
<1>1. D \subseteq Nat /\ D # {}
  <2>1. \A i \in S : n - i \in Nat
    OBVIOUS
  <2> QED BY <2>1
<1>2. PICK d \in D : \A e \in D : d <= e
  <2> HIDE DEF D
  <2> QED BY <1>1, Least
<1>3. PICK m \in S : d = n - m
  OBVIOUS
<1>4. \A j \in S : n - m <= n - j
  BY <1>2, <1>3
<1>5. \A j \in S : j <= m
  BY <1>4
<1> QED BY <1>5

----------------------------------------------------------------------------
(* The hot cache stays a list of payloads within its limit.                *)

LEMMA HotWithoutIs ==
  ASSUME NEW h \in Seq(Put), NEW id
  PROVE  HotWithout(h, id) \in Seq(Put) /\ Len(HotWithout(h, id)) <= Len(h)
<1> DEFINE I == {i \in 1 .. Len(h) : h[i].id = id}
<1>1. CASE I = {}
  <2>1. HotWithout(h, id) = h
    BY <1>1 DEF HotWithout, RemoveFirstMatch
  <2> QED BY <2>1
<1>2. CASE I # {}
  <2>1. PICK k \in I : \A j \in I : k <= j
    <3>1. I \subseteq Nat
      OBVIOUS
    <3> HIDE DEF I
    <3> QED BY <1>2, <3>1, Least
  <2>2. Min(I) \in I
    BY <2>1 DEF Min
  <2>3. PICK m \in 1 .. Len(h) : m = Min(I)
    BY <2>2
  <2>4. HotWithout(h, id) = LET i == IF I # {} THEN Min(I) ELSE 0
                            IN  SubSeq(h, 1, i - 1) \o SubSeq(h, i + 1, Len(h))
    BY <2>1 DEF HotWithout, RemoveFirstMatch, RemoveAt, SelectInSeq
  <2>5. HotWithout(h, id) = SubSeq(h, 1, m - 1) \o SubSeq(h, m + 1, Len(h))
    BY <1>2, <2>3, <2>4, Zenon
  <2> DEFINE a == SubSeq(h, 1, m - 1)
             b == SubSeq(h, m + 1, Len(h))
  <2> HIDE DEF Put, I
  <2>6. a \in Seq(Put) /\ Len(a) = m - 1
    OBVIOUS
  <2>7. b \in Seq(Put) /\ Len(b) = Len(h) - m
    <3>1. m + 1 \in Int /\ Len(h) \in Int /\ \A i \in (m + 1) .. Len(h) : h[i] \in Put
      OBVIOUS
    <3>2. b \in Seq(Put) /\ Len(b) = IF m + 1 <= Len(h) THEN Len(h) - (m + 1) + 1 ELSE 0
      BY <3>1, SubSeqProperties
    <3> HIDE DEF b
    <3>3. CASE m = Len(h)
      BY <3>2, <3>3
    <3>4. CASE m < Len(h)
      BY <3>2, <3>4
    <3> QED BY <3>2, <3>3, <3>4
  <2> HIDE DEF a, b
  <2>8. a \o b \in Seq(Put) /\ Len(a \o b) = Len(a) + Len(b)
    BY <2>6, <2>7, ConcatProperties
  <2>9. Len(a \o b) <= Len(h)
    BY <2>6, <2>7, <2>8
  <2> QED BY <2>5, <2>8, <2>9 DEF a, b
<1> QED BY <1>1, <1>2

LEMMA HotPutIs ==
  ASSUME NEW h \in Seq(Put), NEW id \in ID, NEW val \in Val
  PROVE  HotPut(h, id, val) \in Seq(Put) /\ Len(HotPut(h, id, val)) <= HotMax
<1> DEFINE e == [id |-> id, val |-> val]
           g == <<e>> \o HotWithout(h, id)
           l == IF Len(g) > HotMax THEN HotMax ELSE Len(g)
<1>1. e \in Put
  BY DEF Put
<1> HIDE DEF e, Put
<1>2. g \in Seq(Put)
  <2>1. <<e>> \in Seq(Put) /\ HotWithout(h, id) \in Seq(Put)
    BY <1>1, HotWithoutIs
  <2> QED BY <2>1, ConcatProperties
<1> HIDE DEF g
<1>3. l \in 0 .. Len(g) /\ l <= HotMax
  BY <1>2, FileAssumption
<1> HIDE DEF l
<1>4. SubSeq(g, 1, l) \in Seq(Put) /\ Len(SubSeq(g, 1, l)) = l
  BY <1>2, <1>3
<1> QED BY <1>3, <1>4 DEF HotPut, l, g, e

\* The recursion of HotPutAll has a solution, up to any record of the batch.
HotSteps(h, ops, n, f) ==
  f = [i \in 0 .. n |-> IF i = 0 THEN h ELSE HotPut(f[i - 1], ops[i].id, ops[i].val)]
TheHotSteps(h, ops, n) == CHOOSE f : HotSteps(h, ops, n, f)

LEMMA HotStepsExist ==
  ASSUME NEW h, NEW ops, NEW n \in Nat
  PROVE  HotSteps(h, ops, n, TheHotSteps(h, ops, n))
<1> DEFINE Bad == {m \in Nat : ~ \E f : HotSteps(h, ops, m, f)}
<1> SUFFICES ASSUME Bad # {} PROVE FALSE
  BY DEF TheHotSteps
<1>1. PICK m \in Bad : \A k \in Bad : m <= k
  <2>1. Bad \subseteq Nat
    OBVIOUS
  <2> HIDE DEF Bad
  <2> QED BY <2>1, Least
<1>2. m \in Nat /\ ~ \E f : HotSteps(h, ops, m, f)
  OBVIOUS
<1>3. CASE m = 0
  <2>1. HotSteps(h, ops, 0, [i \in 0 .. 0 |-> h])
    BY DEF HotSteps
  <2> QED BY <1>2, <1>3, <2>1
<1>4. CASE m # 0
  <2>1. m - 1 \in Nat /\ m - 1 \notin Bad
    BY <1>1, <1>2, <1>4
  <2>2. PICK f : HotSteps(h, ops, m - 1, f)
    BY <2>1
  <2> HIDE DEF Bad
  <2> DEFINE g == [i \in 0 .. m |-> IF i = m THEN HotPut(f[m - 1], ops[m].id, ops[m].val) ELSE f[i]]
  <2>3. \A i \in 0 .. m - 1 : f[i] = IF i = 0 THEN h ELSE HotPut(f[i - 1], ops[i].id, ops[i].val)
    BY <2>2 DEF HotSteps
  <2>4. ASSUME NEW i \in 0 .. m
        PROVE  g[i] = IF i = 0 THEN h ELSE HotPut(g[i - 1], ops[i].id, ops[i].val)
    <3>1. CASE i = m
      <4>1. i # 0 /\ i - 1 = m - 1 /\ m - 1 \in 0 .. m /\ m - 1 # m
        BY <1>2, <1>4, <3>1
      <4>2. g[i - 1] = f[m - 1]
        BY <4>1
      <4> QED BY <3>1, <4>1, <4>2
    <3>2. CASE i # m
      <4>1. i \in 0 .. m - 1 /\ i \in 0 .. m
        BY <1>2, <3>2
      <4>2. i # 0 => i - 1 \in 0 .. m /\ i - 1 # m
        BY <1>2, <4>1
      <4>3. g[i] = f[i] /\ (i # 0 => g[i - 1] = f[i - 1])
        BY <3>2, <4>1, <4>2
      <4> HIDE DEF g
      <4> QED BY <2>3, <4>1, <4>3
    <3> QED BY <3>1, <3>2
  <2>5. g = [i \in 0 .. m |-> g[i]]
    OBVIOUS
  <2> HIDE DEF g
  <2>6. HotSteps(h, ops, m, g)
    <3>1. [i \in 0 .. m |-> g[i]]
            = [i \in 0 .. m |-> IF i = 0 THEN h ELSE HotPut(g[i - 1], ops[i].id, ops[i].val)]
      BY <2>4
    <3> QED BY <2>5, <3>1 DEF HotSteps
  <2> QED BY <1>2, <2>6
<1> QED BY <1>3, <1>4

LEMMA HotPutAllIs ==
  ASSUME NEW h \in Seq(Put), Len(h) <= HotMax, NEW ops \in Seq(Put)
  PROVE  HotPutAll(h, ops) \in Seq(Put) /\ Len(HotPutAll(h, ops)) <= HotMax
<1> HIDE DEF Put
<1>1. PICK n \in Nat : n = Len(ops)
  OBVIOUS
<1>2. PICK f : f = TheHotSteps(h, ops, n)
  OBVIOUS
<1>3. HotSteps(h, ops, n, f)
  BY <1>2, HotStepsExist
<1>4. \A i \in 0 .. n : f[i] = IF i = 0 THEN h ELSE HotPut(f[i - 1], ops[i].id, ops[i].val)
  BY <1>3 DEF HotSteps
<1> DEFINE Good(g) == g \in Seq(Put) /\ Len(g) <= HotMax
           Bad == {i \in 0 .. n : ~Good(f[i])}
<1>5. Bad = {}
  <2> SUFFICES ASSUME Bad # {} PROVE FALSE
    OBVIOUS
  <2>1. PICK i \in Bad : \A k \in Bad : i <= k
    <3>1. Bad \subseteq Nat
      OBVIOUS
    <3> HIDE DEF Bad
    <3> QED BY <3>1, Least
  <2>2. CASE i = 0
    BY <1>4, <2>2
  <2>3. CASE i # 0
    <3>1. i - 1 \in 0 .. n /\ i - 1 \notin Bad /\ i \in 1 .. n
      BY <2>1, <2>3
    <3>2. Good(f[i - 1]) /\ f[i] = HotPut(f[i - 1], ops[i].id, ops[i].val)
      BY <1>4, <2>3, <3>1
    <3>3. ops[i].id \in ID /\ ops[i].val \in Val
      <4>1. ops[i] \in Put
        BY <1>1, <3>1
      <4> QED BY <4>1 DEF Put
    <3>4. Good(HotPut(f[i - 1], ops[i].id, ops[i].val))
      BY <3>2, <3>3, HotPutIs
    <3> QED BY <3>2, <3>4
  <2> QED BY <2>2, <2>3
<1>6. Good(f[n])
  BY <1>5
<1>7. HotPutAll(h, ops) = f[n]
  BY <1>1, <1>2 DEF HotPutAll, TheHotSteps, HotSteps
<1> QED BY <1>6, <1>7

----------------------------------------------------------------------------
(* The invariant that holds whatever fails.                                *)

Requests == Batches \cup Deletes

\* An offset leads to a record of a payload, as long as the handle is open.
OffsetsOK ==
  handle = "open" =>
    \A id \in ID : offsets[id] # 0 => offsets[id] \in DOMAIN file /\ file[offsets[id]].val \in Val

\* The request in progress; the handle is closed while the file is replaced.
RequestOK ==
  /\ req = <<>> \/ req \in Requests
  /\ pc = "write" => req # <<>>
  /\ pc \in {"rename", "reopen"} => handle = "closed"
  /\ pc = "reopen" => file = newFile

\* What a reader has taken with it.
ReaderOK(r) ==
  /\ attached[r] => handle = "open"
  /\ rpc[r] \in {"hot", "read"} /\ attached[r] =>
       at[r] \in DOMAIN file /\ file[at[r]].val \in Val \cap seen[r]
  /\ rpc[r] \in {"hot", "putHot"} => wantHot[r]
  /\ rpc[r] \in {"hot", "read", "putHot"} => rid[r] \in ID
  /\ rpc[r] = "putHot" => rval[r] \in Val
  /\ rpc[r] = "done" /\ ~wantHot[r] => rval[r] \in seen[r] \cup {Err}

FileInv == FileTypeOK /\ OffsetsOK /\ RequestOK /\ \A r \in Reader : ReaderOK(r)

----------------------------------------------------------------------------
(* What a rebuild finds.                                                   *)

LEMMA LastIs ==
  ASSUME NEW f, NEW id, NEW n \in Nat \ {0}
  PROVE  LET k == LastBefore(f, id, n) IN
         \/ k = 0 /\ \A j \in 1 .. (n - 1) : f[j].id # id
         \/ k \in 1 .. (n - 1) /\ f[k].id = id /\ \A j \in (k + 1) .. (n - 1) : f[j].id # id
<1> DEFINE S == {j \in 1 .. (n - 1) : f[j].id = id}
<1>1. CASE S = {}
  BY <1>1 DEF LastBefore
<1>2. CASE S # {}
  <2>1. PICK k \in S : \A j \in S : j <= k
    <3>1. n - 1 \in Nat /\ S \subseteq 1 .. (n - 1)
      OBVIOUS
    <3> HIDE DEF S
    <3> QED BY <1>2, <3>1, Greatest
  <2>2. \A j \in (k + 1) .. (n - 1) : f[j].id # id
    BY <2>1
  <2> QED BY <2>1, <2>2 DEF LastBefore
<1> QED BY <1>1, <1>2

\* There is one such place.
LEMMA LastIsIt ==
  ASSUME NEW f, NEW id, NEW n \in Nat \ {0}, NEW k \in 1 .. (n - 1), f[k].id = id,
         \A j \in (k + 1) .. (n - 1) : f[j].id # id
  PROVE  LastBefore(f, id, n) = k
<1>1. PICK l : l = LastBefore(f, id, n)
  OBVIOUS
<1>2. \/ l = 0 /\ \A j \in 1 .. (n - 1) : f[j].id # id
      \/ l \in 1 .. (n - 1) /\ f[l].id = id /\ \A j \in (l + 1) .. (n - 1) : f[j].id # id
  BY <1>1, LastIs
<1>3. ~(l < k) /\ ~(k < l) /\ l \in Nat
  BY <1>2
<1> QED BY <1>1, <1>3

\* The rebuilt offsets lead to the last record of the id, a payload.
LEMMA RebuiltIs ==
  ASSUME NEW f \in Seq(Record \cup {Torn})
  PROVE  /\ RebuiltOffsets(f) \in [ID -> Nat]
         /\ \A id \in ID : RebuiltOffsets(f)[id] # 0 =>
              /\ RebuiltOffsets(f)[id] \in DOMAIN f
              /\ f[RebuiltOffsets(f)[id]].id = id /\ f[RebuiltOffsets(f)[id]].val \in Val
<1>1. ASSUME NEW id \in ID
      PROVE  LET o == OffsetBefore(f, id, Len(f) + 1) IN
             /\ o \in Nat
             /\ o # 0 => o \in DOMAIN f /\ f[o].id = id /\ f[o].val \in Val
  <2>1. PICK n \in Nat \ {0} : n = Len(f) + 1
    OBVIOUS
  <2>2. PICK k : k = LastBefore(f, id, n)
    OBVIOUS
  <2>3. k = 0 \/ (k \in 1 .. Len(f) /\ f[k].id = id)
    BY <2>1, <2>2, LastIs
  <2>4. k # 0 /\ f[k].val # None => f[k].val \in Val
    <3>1. k # 0 => f[k] \in Record \cup {Torn}
      BY <2>3
    <3> QED BY <3>1 DEF Record, Torn
  <2> QED BY <2>1, <2>2, <2>3, <2>4 DEF OffsetBefore
<1> QED BY <1>1 DEF RebuiltOffsets

----------------------------------------------------------------------------
(* Every step keeps it.                                                    *)

StoreTypeOK ==
  /\ file \in Seq(Record \cup {Torn}) /\ handle \in {"nil", "open", "closed"}
  /\ offsets \in [ID -> Nat] /\ writes \in Nat /\ stale \in Nat /\ pending \in Nat
HotOK == hot \in Seq(Put) /\ Len(hot) <= HotMax
ReqTypeOK ==
  /\ pc \in {"down", "idle", "open", "write", "sync", "maybeCompact", "tmp",
            "close", "rename", "reopen"}
  /\ req \in Seq(Record) /\ booting \in BOOLEAN /\ newFile \in Seq(Record)
ReadTypeOK ==
  /\ rpc \in [Reader -> {"idle", "hot", "read", "putHot", "done"}]
  /\ rid \in [Reader -> ID \cup {None}] /\ at \in [Reader -> Nat]
  /\ rval \in [Reader -> Val \cup {None, Err}]
  /\ attached \in [Reader -> BOOLEAN] /\ wantHot \in [Reader -> BOOLEAN]
  /\ seen \in [Reader -> SUBSET (Val \cup {None})]
ReadersOK == ReadTypeOK /\ \A r \in Reader : ReaderOK(r)

LEMMA InvParts ==
  FileInv <=> StoreTypeOK /\ HotOK /\ ReqTypeOK /\ ReadersOK /\ OffsetsOK /\ RequestOK
BY DEF FileInv, FileTypeOK, StoreTypeOK, HotOK, ReqTypeOK, ReadTypeOK, ReadersOK

LEMMA InvPartsNext ==
  FileInv' <=> StoreTypeOK' /\ HotOK' /\ ReqTypeOK' /\ ReadersOK' /\ OffsetsOK' /\ RequestOK'
BY DEF FileInv, FileTypeOK, StoreTypeOK, HotOK, ReqTypeOK, ReadTypeOK, ReadersOK

\* f goes on after the records of g.
Extends(f, g) == DOMAIN g \subseteq DOMAIN f /\ \A k \in DOMAIN g : f[k] = g[k]

\* The readers that are attached find their records where they were.
LEMMA ReadersKept ==
  ASSUME FileInv, UNCHANGED readVars,
         handle = "open" => handle' = "open" /\ Extends(file', file)
  PROVE  ReadersOK'
<1>1. ReadersOK
  BY InvParts
<1>2. ReadTypeOK'
  BY <1>1 DEF ReadersOK, ReadTypeOK, readVars
<1>3. ASSUME NEW r \in Reader PROVE ReaderOK(r)'
  BY <1>1 DEF ReadersOK, ReaderOK, readVars, Extends
<1> QED BY <1>2, <1>3 DEF ReadersOK

LEMMA SameFile == ASSUME file' = file PROVE Extends(file', file)
BY DEF Extends

\* The handle is closed: the readers that had it fail from now on.
LEMMA ReadersDetached ==
  ASSUME FileInv, Detach, UNCHANGED <<rpc, rid, at, rval, wantHot, seen>>
  PROVE  ReadersOK'
<1>1. ReadersOK
  BY InvParts
<1>2. \A r \in Reader : attached'[r] = FALSE
  BY DEF Detach
<1>3. ReadTypeOK'
  BY <1>1 DEF ReadersOK, ReadTypeOK, Detach
<1>4. ASSUME NEW r \in Reader PROVE ReaderOK(r)'
  BY <1>1, <1>2 DEF ReadersOK, ReaderOK
<1> QED BY <1>3, <1>4 DEF ReadersOK

LEMMA NoRequest ==
  ASSUME pc' \in {"down", "idle"}, req' = <<>>, booting' = FALSE, newFile' = <<>>
  PROVE  ReqTypeOK' /\ RequestOK'
<1>1. <<>> \in Seq(Record)
  OBVIOUS
<1>2. booting' \in BOOLEAN
  OBVIOUS
<1>3. ReqTypeOK'
  BY <1>1, <1>2 DEF ReqTypeOK
<1> QED BY <1>3 DEF RequestOK

\* The process is gone; the file has what it had.
LEMMA LoseMemoryInv ==
  ASSUME LoseMemory, file' \in Seq(Record \cup {Torn})
  PROVE  FileInv'
<1>1. StoreTypeOK' /\ HotOK' /\ OffsetsOK'
  BY FileAssumption DEF LoseMemory, StoreTypeOK, HotOK, OffsetsOK, NoOffsets
<1>2. ReqTypeOK' /\ RequestOK'
  BY NoRequest DEF LoseMemory
<1>3. ReadTypeOK'
  BY DEF LoseMemory, ReadTypeOK, Detach
<1>4. \A r \in Reader : ReaderOK(r)'
  BY DEF LoseMemory, ReaderOK, Detach
<1> QED BY <1>1, <1>2, <1>3, <1>4, InvPartsNext DEF ReadersOK

LEMMA FinishInv ==
  ASSUME FileInv, Finish, UNCHANGED <<storeVars, hot, readVars>>
  PROVE  FileInv'
<1>1. StoreTypeOK /\ HotOK /\ OffsetsOK
  BY InvParts
<1>2. StoreTypeOK' /\ HotOK' /\ OffsetsOK'
  BY <1>1 DEF StoreTypeOK, HotOK, OffsetsOK, storeVars
<1>3. ReqTypeOK' /\ RequestOK'
  BY NoRequest DEF Finish
<1>4. ReadersOK'
  BY ReadersKept, SameFile DEF storeVars
<1> QED BY <1>2, <1>3, <1>4, InvPartsNext

LEMMA FailInv ==
  ASSUME FileInv, Fail
  PROVE  FileInv'
<1>1. StoreTypeOK
  BY InvParts
<1>2. CASE ~booting /\ Finish /\ UNCHANGED <<storeVars, hot, readVars>>
  BY <1>2, FinishInv
<1>3. CASE booting /\ LoseMemory /\ UNCHANGED file
  BY <1>1, <1>3, LoseMemoryInv DEF StoreTypeOK
<1> QED BY <1>2, <1>3 DEF Fail

\* A step that only moves the request on.
LEMMA MoveInv ==
  ASSUME FileInv, UNCHANGED <<storeVars, hot, readVars>>, ReqTypeOK', RequestOK'
  PROVE  FileInv'
<1>1. StoreTypeOK /\ HotOK /\ OffsetsOK
  BY InvParts
<1>2. StoreTypeOK' /\ HotOK' /\ OffsetsOK'
  BY <1>1 DEF StoreTypeOK, HotOK, OffsetsOK, storeVars
<1>3. ReadersOK'
  BY ReadersKept, SameFile DEF storeVars
<1> QED BY <1>2, <1>3, InvPartsNext

LEMMA RequestsAre ==
  ASSUME NEW ops \in Requests
  PROVE  /\ ops \in Seq(Record) /\ Len(ops) \in Nat \ {0} /\ ops # <<>> /\ DOMAIN ops = 1 .. Len(ops)
         /\ \A i \in 1 .. Len(ops) : ops[i].id \in ID /\ ops[i].val \in Val \cup {None}
         /\ \/ ops \in Seq(Put) /\ \A i \in 1 .. Len(ops) : ops[i].val \in Val
            \/ Len(ops) = 1 /\ ops[1].val = None
<1>1. CASE ops \in Batches
  <2>1. PICK n \in 1 .. MaxBatch : ops \in [1 .. n -> Put]
    BY <1>1 DEF Batches
  <2>2. n \in Nat /\ n >= 1
    BY FileAssumption
  <2>3. \A i \in 1 .. n : ops[i] \in Put /\ ops[i] \in Record /\ ops[i].id \in ID /\ ops[i].val \in Val
    BY <2>1 DEF Put, Record
  <2>4. ops \in [1 .. n -> Record]
    BY <2>1, <2>3
  <2>5. ops \in Seq(Record) /\ ops \in Seq(Put) /\ Len(ops) = n
    <3> HIDE DEF Put, Record
    <3> QED BY <2>1, <2>2, <2>4
  <2>6. ops # <<>>
    BY <2>2, <2>5
  <2> QED BY <2>1, <2>2, <2>3, <2>5, <2>6
<1>2. CASE ops \in Deletes
  <2>1. PICK id \in ID : ops = <<[id |-> id, val |-> None]>>
    BY <1>2 DEF Deletes
  <2> DEFINE e == [id |-> id, val |-> None]
  <2>2. e \in Record /\ e.id = id /\ e.val = None
    BY DEF Record
  <2> HIDE DEF e
  <2>3. ops = <<e>>
    BY <2>1 DEF e
  <2>4. ops \in Seq(Record) /\ Len(ops) = 1 /\ ops[1] = e /\ DOMAIN ops = 1 .. 1 /\ ops # <<>>
    BY <2>2, <2>3
  <2> QED BY <2>2, <2>4
<1> QED BY <1>1, <1>2 DEF Requests

\* More records after those of the file.
LEMMA Appended ==
  ASSUME NEW f \in Seq(Record \cup {Torn}), NEW g \in Seq(Record \cup {Torn})
  PROVE  /\ f \o g \in Seq(Record \cup {Torn}) /\ Extends(f \o g, f)
         /\ Len(f \o g) = Len(f) + Len(g) /\ Len(f) \in Nat /\ Len(g) \in Nat
         /\ \A i \in 1 .. Len(g) : (f \o g)[Len(f) + i] = g[i]
<1> HIDE DEF Record, Torn
<1>1. /\ f \o g \in Seq(Record \cup {Torn}) /\ Len(f \o g) = Len(f) + Len(g)
      /\ \A i \in 1 .. Len(f) + Len(g) : (f \o g)[i] = IF i <= Len(f) THEN f[i] ELSE g[i - Len(f)]
  BY ConcatProperties
<1>2. Len(f) \in Nat /\ Len(g) \in Nat /\ DOMAIN f = 1 .. Len(f)
  OBVIOUS
<1>3. DOMAIN (f \o g) = 1 .. Len(f) + Len(g)
  BY <1>1
<1>4. Extends(f \o g, f)
  BY <1>1, <1>2, <1>3 DEF Extends
<1>5. ASSUME NEW i \in 1 .. Len(g) PROVE (f \o g)[Len(f) + i] = g[i]
  <2>1. Len(f) + i \in 1 .. Len(f) + Len(g) /\ ~(Len(f) + i <= Len(f)) /\ (Len(f) + i) - Len(f) = i
    BY <1>2
  <2> QED BY <1>1, <2>1
<1> QED BY <1>1, <1>2, <1>4, <1>5

LEMMA StartInv == ASSUME FileInv, Start PROVE FileInv'
<1>1. ReqTypeOK /\ RequestOK
  BY InvParts
<1>2. booting' \in BOOLEAN
  BY DEF Start
<1>3. ReqTypeOK' /\ RequestOK'
  BY <1>1, <1>2 DEF Start, ReqTypeOK, RequestOK
<1> QED BY <1>3, MoveInv DEF Start

LEMMA BeginInv == ASSUME FileInv, NEW ops \in Requests, Begin(ops) PROVE FileInv'
<1>1. ReqTypeOK /\ RequestOK
  BY InvParts
<1>2. ops \in Seq(Record) /\ ops # <<>>
  BY RequestsAre
<1>3. ReqTypeOK' /\ RequestOK'
  BY <1>1, <1>2 DEF Begin, ReqTypeOK, RequestOK
<1> QED BY <1>3, MoveInv DEF Begin

LEMMA OpenOKInv == ASSUME FileInv, OpenOK PROVE FileInv'
<1>1. StoreTypeOK /\ ReqTypeOK /\ RequestOK
  BY InvParts
<1>2. UNCHANGED <<file, pending, req, booting, newFile, readVars>>
  BY DEF OpenOK
<1>3. StoreTypeOK' /\ HotOK' /\ OffsetsOK'
  <2>1. /\ RebuiltOffsets(file) \in [ID -> Nat]
        /\ \A id \in ID : RebuiltOffsets(file)[id] # 0 =>
             RebuiltOffsets(file)[id] \in DOMAIN file /\ file[RebuiltOffsets(file)[id]].val \in Val
    BY <1>1, RebuiltIs DEF StoreTypeOK
  <2>2. Len(file) \in Nat /\ RebuiltStale(file) \in Nat
    <3>1. Len(file) \in Nat /\ DOMAIN file = 1 .. Len(file)
      BY <1>1 DEF StoreTypeOK
    <3>2. IsFiniteSet(DOMAIN file)
      BY <3>1, FS_Interval
    <3>3. IsFiniteSet({k \in DOMAIN file : file[k].val = None \/ OffsetBefore(file, file[k].id, k) # 0})
      BY <3>2, FS_Subset
    <3> QED BY <3>1, <3>3, FS_CardinalityType DEF RebuiltStale
  <2>3. hot' \in Seq(Put) /\ Len(hot') <= HotMax
    BY FileAssumption DEF OpenOK
  <2> QED BY <1>1, <1>2, <2>1, <2>2, <2>3 DEF OpenOK, StoreTypeOK, HotOK, OffsetsOK
<1>4. ReqTypeOK' /\ RequestOK'
  BY <1>1, <1>2 DEF OpenOK, ReqTypeOK, RequestOK
<1>5. ReadersOK'
  BY <1>2, ReadersKept, SameFile DEF OpenOK
<1> QED BY <1>3, <1>4, <1>5, InvPartsNext

\* What a reader of an id that is written has seen grows by what it becomes.
LEMMA WriteOKInv == ASSUME FileInv, WriteOK PROVE FileInv'
<1>1. StoreTypeOK /\ HotOK /\ OffsetsOK /\ ReqTypeOK /\ RequestOK /\ ReadersOK
  BY InvParts
<1>2. /\ pc = "write" /\ handle = "open"
      /\ UNCHANGED <<handle, booting, newFile, rpc, rid, at, rval, attached, wantHot>>
      /\ file' = file \o req /\ offsets' = NewOffsets(req)
      /\ writes' = writes + Len(req) /\ stale' = stale + Cardinality(Replaced(req))
      /\ pending' = pending + Len(req)
      /\ req' = <<>> /\ pc' = "sync"
  BY DEF WriteOK
<1>3. req \in Requests
  BY <1>1, <1>2 DEF RequestOK
<1>4. /\ req \in Seq(Record) /\ Len(req) \in Nat \ {0} /\ DOMAIN req = 1 .. Len(req)
      /\ \A i \in 1 .. Len(req) : req[i].id \in ID /\ req[i].val \in Val \cup {None}
      /\ req[1].val # None => req \in Seq(Put)
  BY <1>3, RequestsAre
<1>5. /\ file' \in Seq(Record \cup {Torn}) /\ Extends(file', file)
      /\ Len(file') = Len(file) + Len(req) /\ Len(file) \in Nat
      /\ \A i \in 1 .. Len(req) : file'[Len(file) + i] = req[i]
  <2>1. req \in Seq(Record \cup {Torn})
    BY <1>4, SeqMonotonic
  <2> QED BY <1>1, <1>2, <2>1, Appended DEF StoreTypeOK
<1>6. ASSUME NEW id \in ID
      PROVE  /\ offsets'[id] \in Nat
             /\ offsets'[id] # 0 => offsets'[id] \in DOMAIN file' /\ file'[offsets'[id]].val \in Val
  <2> DEFINE S == {i \in DOMAIN req : req[i].id = id}
  <2>1. CASE S = {}
    <3>1. offsets'[id] = offsets[id]
      BY <1>2, <2>1 DEF NewOffsets
    <3> QED BY <1>1, <1>2, <1>5, <3>1 DEF StoreTypeOK, OffsetsOK, Extends
  <2>2. CASE S # {}
    <3>1. PICK i \in S : \A j \in S : j <= i
      <4>1. S \subseteq 1 .. Len(req)
        BY <1>4
      <4> HIDE DEF S
      <4> QED BY <1>4, <2>2, <4>1, Greatest
    <3>2. PICK k : k = CHOOSE e \in DOMAIN req : /\ req[e].id = id
                                                 /\ \A j \in DOMAIN req : req[j].id = id => j <= e
      OBVIOUS
    <3>3. k \in DOMAIN req
      BY <3>1, <3>2
    <3>4. offsets'[id] = IF req[k].val = None THEN 0 ELSE Len(file) + k
      BY <1>2, <2>2, <3>2 DEF NewOffsets
    <3>5. k \in Nat /\ k >= 1 /\ k <= Len(req) /\ file'[Len(file) + k] = req[k]
      BY <1>4, <1>5, <3>3
    <3>6. DOMAIN file' = 1 .. Len(file')
      BY <1>5
    <3>7. Len(file) + k \in DOMAIN file'
      BY <1>4, <1>5, <3>5, <3>6
    <3> QED BY <1>4, <1>5, <3>3, <3>4, <3>5, <3>7
  <2> QED BY <2>1, <2>2
<1>7. StoreTypeOK' /\ OffsetsOK'
  <2>1. offsets' \in [ID -> Nat]
    BY <1>2, <1>6 DEF NewOffsets
  <2>2. Cardinality(Replaced(req)) \in Nat
    <3>1. Replaced(req) \subseteq 1 .. Len(req)
      BY <1>4 DEF Replaced
    <3>2. IsFiniteSet(1 .. Len(req))
      BY <1>4, FS_Interval
    <3> QED BY <3>1, <3>2, FS_Subset, FS_CardinalityType
  <2> QED BY <1>1, <1>2, <1>4, <1>5, <1>6, <2>1, <2>2 DEF StoreTypeOK, OffsetsOK
<1>8. HotOK'
  <2>1. CASE req[1].val = None
    <3>1. hot' = HotWithout(hot, req[1].id)
      BY <2>1 DEF WriteOK
    <3>2. hot' \in Seq(Put) /\ Len(hot') <= Len(hot)
      BY <1>1, <3>1, HotWithoutIs DEF HotOK
    <3>3. Len(hot) \in Nat /\ Len(hot') \in Nat
      BY <1>1, <3>2 DEF HotOK
    <3> QED BY <1>1, <3>2, <3>3, FileAssumption DEF HotOK
  <2>2. CASE req[1].val # None
    <3>1. hot' = HotPutAll(hot, req)
      BY <2>2 DEF WriteOK
    <3> QED BY <1>1, <1>4, <2>2, <3>1, HotPutAllIs DEF HotOK
  <2> QED BY <2>1, <2>2
<1>9. ReqTypeOK' /\ RequestOK'
  <2>1. <<>> \in Seq(Record)
    OBVIOUS
  <2> QED BY <1>1, <1>2, <2>1 DEF ReqTypeOK, RequestOK
<1>10. ReadersOK'
  <2>1. /\ seen' \in [Reader -> SUBSET (Val \cup {None})]
        /\ \A r \in Reader : seen[r] \subseteq seen'[r]
    <3> DEFINE new(r) == IF offsets'[rid[r]] = 0 THEN None ELSE file'[offsets'[rid[r]]].val
    <3>1. seen' = [r \in Reader |-> IF \E i \in DOMAIN req : req[i].id = rid[r]
                                    THEN seen[r] \cup {new(r)} ELSE seen[r]]
      BY DEF WriteOK
    <3>2. ASSUME NEW r \in Reader, \E i \in DOMAIN req : req[i].id = rid[r]
          PROVE  new(r) \in Val \cup {None}
      <4>1. rid[r] \in ID
        BY <1>4, <3>2
      <4> QED BY <1>6, <4>1
    <3> HIDE DEF new
    <3> QED BY <1>1, <3>1, <3>2 DEF ReadersOK, ReadTypeOK
  <2>2. ReadTypeOK'
    BY <1>1, <1>2, <2>1 DEF ReadersOK, ReadTypeOK
  <2>3. ASSUME NEW r \in Reader PROVE ReaderOK(r)'
    BY <1>1, <1>2, <1>5, <2>1 DEF ReadersOK, ReaderOK, Extends
  <2> QED BY <2>2, <2>3 DEF ReadersOK
<1> QED BY <1>7, <1>8, <1>9, <1>10, InvPartsNext

LEMMA PartialWriteIs ==
  ASSUME FileInv, PartialWrite
  PROVE  file' \in Seq(Record \cup {Torn}) /\ Extends(file', file)
<1>1. file \in Seq(Record \cup {Torn}) /\ req \in Seq(Record)
  BY InvParts DEF StoreTypeOK, ReqTypeOK
<1>2. PICK n \in 0 .. (Len(req) - 1), tail \in {<<>>, <<Torn>>} :
        file' = file \o SubSeq(req, 1, n) \o tail
  BY DEF PartialWrite
<1> DEFINE part == SubSeq(req, 1, n)
<1> HIDE DEF Record, Torn
<1>3. part \in Seq(Record)
  BY <1>1
<1>4. part \in Seq(Record \cup {Torn}) /\ tail \in Seq(Record \cup {Torn})
  <2>1. part \in Seq(Record \cup {Torn})
    BY <1>3, SeqMonotonic
  <2>2. <<>> \in Seq(Record \cup {Torn}) /\ <<Torn>> \in Seq(Record \cup {Torn})
    OBVIOUS
  <2> QED BY <2>1, <2>2
<1> HIDE DEF part
<1>5. file \o part \in Seq(Record \cup {Torn}) /\ Extends(file \o part, file)
  BY <1>1, <1>4, Appended
<1>6. /\ (file \o part) \o tail \in Seq(Record \cup {Torn})
      /\ Extends((file \o part) \o tail, file \o part)
  BY <1>4, <1>5, Appended
<1>7. Extends((file \o part) \o tail, file)
  BY <1>5, <1>6 DEF Extends
<1> QED BY <1>2, <1>6, <1>7 DEF part

LEMMA WriteFailsInv == ASSUME FileInv, WriteFails PROVE FileInv'
<1>1. StoreTypeOK /\ HotOK /\ OffsetsOK
  BY InvParts
<1>2. UNCHANGED <<handle, offsets, writes, stale, pending, hot, readVars>> /\ Finish
  BY DEF WriteFails
<1>3. file' \in Seq(Record \cup {Torn}) /\ Extends(file', file)
  BY <1>1, PartialWriteIs, SameFile DEF WriteFails, StoreTypeOK
<1>4. StoreTypeOK' /\ HotOK' /\ OffsetsOK'
  BY <1>1, <1>2, <1>3 DEF StoreTypeOK, HotOK, OffsetsOK, Extends
<1>5. ReqTypeOK' /\ RequestOK'
  BY <1>2, NoRequest DEF Finish
<1>6. ReadersOK'
  BY <1>2, <1>3, ReadersKept
<1> QED BY <1>4, <1>5, <1>6, InvPartsNext

LEMMA SyncStepInv == ASSUME FileInv, SyncStep PROVE FileInv'
<1>1. StoreTypeOK /\ HotOK /\ OffsetsOK /\ ReqTypeOK /\ RequestOK
  BY InvParts
<1>2. UNCHANGED <<file, handle, offsets, writes, stale, hot, readVars>>
  BY DEF SyncStep
<1>3. StoreTypeOK' /\ HotOK' /\ OffsetsOK'
  BY <1>1, <1>2 DEF SyncStep, StoreTypeOK, HotOK, OffsetsOK
<1>4. ReqTypeOK' /\ RequestOK'
  <2>1. CASE Finish
    BY <2>1, NoRequest DEF Finish
  <2>2. CASE pc' = "maybeCompact" /\ UNCHANGED <<req, booting, newFile>>
    BY <1>1, <2>2 DEF ReqTypeOK, RequestOK
  <2> QED BY <2>1, <2>2 DEF SyncStep
<1>5. ReadersOK'
  BY <1>2, ReadersKept, SameFile
<1> QED BY <1>3, <1>4, <1>5, InvPartsNext

LEMMA ContinueIs == ASSUME FileInv, Continue PROVE ReqTypeOK' /\ RequestOK'
<1>1. ReqTypeOK /\ RequestOK
  BY InvParts
<1>2. CASE req = <<>>
  BY <1>2, NoRequest DEF Continue, Finish
<1>3. CASE req # <<>>
  <2>1. pc' = "write" /\ booting' = FALSE /\ newFile' = <<>> /\ req' = req
    BY <1>3 DEF Continue
  <2>2. <<>> \in Seq(Record)
    OBVIOUS
  <2>3. booting' \in BOOLEAN
    BY <2>1
  <2>4. ReqTypeOK'
    BY <1>1, <2>1, <2>2, <2>3 DEF ReqTypeOK
  <2> QED BY <1>1, <1>3, <2>1, <2>4 DEF RequestOK
<1> QED BY <1>2, <1>3

LEMMA NoCompactionInv == ASSUME FileInv, NoCompaction PROVE FileInv'
BY ContinueIs, MoveInv DEF NoCompaction

LEMMA CurrentIs ==
  ASSUME FileInv, NEW id \in ID
  PROVE  Current(id) \in Val \cup {None}
<1>1. file \in Seq(Record \cup {Torn})
  BY InvParts DEF StoreTypeOK
<1>2. ASSUME NEW k \in DOMAIN file PROVE file[k].val \in Val \cup {None}
  <2>1. file[k] \in Record \cup {Torn}
    BY <1>1
  <2> QED BY <2>1 DEF Record, Torn
<1> QED BY <1>2 DEF Current

LEMMA CompactSyncInv == ASSUME FileInv, CompactSync PROVE FileInv'
<1>1. StoreTypeOK /\ HotOK /\ OffsetsOK /\ ReqTypeOK /\ RequestOK
  BY InvParts
<1>2. CASE Fail
  BY <1>2, FailInv
<1>3. CASE ~Fail
  <2>1. /\ pending' = 0 /\ pc' = "tmp"
        /\ UNCHANGED <<file, handle, offsets, writes, stale, hot, req, booting, readVars>>
    BY <1>3 DEF CompactSync
  <2>2. PICK live \in SUBSET Indexed(offsets) : \E s \in [1 .. Cardinality(live) -> live] :
          newFile' = [i \in DOMAIN s |-> [id |-> s[i], val |-> Current(s[i])]]
    BY <1>3 DEF CompactSync
  <2>0. PICK s \in [1 .. Cardinality(live) -> live] :
          newFile' = [i \in DOMAIN s |-> [id |-> s[i], val |-> Current(s[i])]]
    BY <2>2
  <2>3. newFile' \in Seq(Record)
    <3>1. IsFiniteSet(live) /\ live \subseteq ID
      <4>1. live \subseteq ID
        BY DEF Indexed
      <4> QED BY <4>1, FS_Subset, FileAssumption
    <3>2. Cardinality(live) \in Nat
      BY <3>1, FS_CardinalityType
    <3>3. ASSUME NEW i \in DOMAIN s PROVE [id |-> s[i], val |-> Current(s[i])] \in Record
      BY <3>1, CurrentIs DEF Record
    <3>4. newFile' \in [1 .. Cardinality(live) -> Record]
      <4> HIDE DEF Record
      <4> QED BY <2>0, <3>3
    <3> HIDE DEF Record
    <3> QED BY <3>2, <3>4
  <2>4. StoreTypeOK' /\ HotOK' /\ OffsetsOK'
    BY <1>1, <2>1 DEF StoreTypeOK, HotOK, OffsetsOK
  <2>5. ReqTypeOK' /\ RequestOK'
    BY <1>1, <2>1, <2>3 DEF ReqTypeOK, RequestOK
  <2>6. ReadersOK'
    BY <2>1, ReadersKept, SameFile
  <2> QED BY <2>4, <2>5, <2>6, InvPartsNext
<1> QED BY <1>2, <1>3

LEMMA CompactTmpInv == ASSUME FileInv, CompactTmp PROVE FileInv'
<1>1. ReqTypeOK /\ RequestOK
  BY InvParts
<1>2. CASE Fail
  BY <1>2, FailInv
<1>3. CASE pc' = "close" /\ UNCHANGED <<storeVars, hot, req, booting, newFile, readVars>>
  <2>1. ReqTypeOK' /\ RequestOK'
    BY <1>1, <1>3 DEF ReqTypeOK, RequestOK, storeVars
  <2> QED BY <1>3, <2>1, MoveInv
<1> QED BY <1>2, <1>3 DEF CompactTmp

LEMMA CompactCloseInv == ASSUME FileInv, CompactClose PROVE FileInv'
<1>1. StoreTypeOK /\ HotOK /\ ReqTypeOK /\ RequestOK
  BY InvParts
<1>2. CASE LoseMemory /\ UNCHANGED file
  BY <1>1, <1>2, LoseMemoryInv DEF StoreTypeOK
<1>3. CASE /\ handle' = "closed" /\ Detach
           /\ UNCHANGED <<file, offsets, writes, stale, pending, hot, rpc, rid, at, rval, wantHot, seen>>
           /\ Finish \/ (pc' = "rename" /\ UNCHANGED <<req, booting, newFile>>)
  <2>1. StoreTypeOK' /\ HotOK' /\ OffsetsOK'
    BY <1>1, <1>3 DEF StoreTypeOK, HotOK, OffsetsOK
  <2>2. CASE Finish
    BY <1>3, <2>1, <2>2, NoRequest, ReadersDetached, InvPartsNext DEF Finish
  <2>3. CASE pc' = "rename" /\ UNCHANGED <<req, booting, newFile>>
    <3>1. ReqTypeOK' /\ RequestOK'
      BY <1>1, <1>3, <2>3 DEF ReqTypeOK, RequestOK
    <3> QED BY <1>3, <2>1, <3>1, ReadersDetached, InvPartsNext
  <2> QED BY <1>3, <2>2, <2>3
<1> QED BY <1>2, <1>3 DEF CompactClose

LEMMA CompactRenameInv == ASSUME FileInv, CompactRename PROVE FileInv'
<1>1. StoreTypeOK /\ HotOK /\ ReqTypeOK /\ RequestOK
  BY InvParts
<1>2. CASE Fail
  BY <1>2, FailInv
<1>3. CASE /\ file' = newFile /\ pc' = "reopen"
           /\ UNCHANGED <<handle, offsets, writes, stale, pending, hot, req, booting, newFile, readVars>>
  <2>1. handle = "closed"
    BY <1>1 DEF RequestOK, CompactRename
  <2>2. newFile \in Seq(Record \cup {Torn})
    <3>1. newFile \in Seq(Record)
      BY <1>1 DEF ReqTypeOK
    <3> QED BY <3>1, SeqMonotonic
  <2>3. StoreTypeOK' /\ HotOK' /\ OffsetsOK'
    BY <1>1, <1>3, <2>1, <2>2 DEF StoreTypeOK, HotOK, OffsetsOK
  <2>4. ReqTypeOK' /\ RequestOK'
    BY <1>1, <1>3, <2>1 DEF ReqTypeOK, RequestOK
  <2>5. ReadersOK'
    BY <1>3, <2>1, ReadersKept
  <2> QED BY <2>3, <2>4, <2>5, InvPartsNext
<1> QED BY <1>2, <1>3 DEF CompactRename

LEMMA CompactSwapInv == ASSUME FileInv, CompactSwap PROVE FileInv'
<1>1. StoreTypeOK /\ ReqTypeOK /\ RequestOK
  BY InvParts
<1>2. /\ handle' = "open" /\ offsets' = RebuiltOffsets(newFile) /\ writes' = Len(newFile)
      /\ stale' = 0 /\ pending' = 0 /\ hot' = <<>> /\ Continue /\ UNCHANGED <<file, readVars>>
  BY DEF CompactSwap
<1>3. handle = "closed" /\ file = newFile
  BY <1>1 DEF RequestOK, CompactSwap
<1>4. StoreTypeOK' /\ HotOK' /\ OffsetsOK'
  <2>1. /\ RebuiltOffsets(file) \in [ID -> Nat]
        /\ \A id \in ID : RebuiltOffsets(file)[id] # 0 =>
             RebuiltOffsets(file)[id] \in DOMAIN file /\ file[RebuiltOffsets(file)[id]].val \in Val
    BY <1>1, RebuiltIs DEF StoreTypeOK
  <2>2. Len(file) \in Nat
    BY <1>1 DEF StoreTypeOK
  <2>3. hot' \in Seq(Put) /\ Len(hot') <= HotMax
    BY <1>2, FileAssumption
  <2> QED BY <1>1, <1>2, <1>3, <2>1, <2>2, <2>3 DEF StoreTypeOK, HotOK, OffsetsOK
<1>5. ReadersOK'
  BY <1>2, <1>3, ReadersKept
<1> QED BY <1>2, <1>4, <1>5, ContinueIs, InvPartsNext

LEMMA CloseInv == ASSUME FileInv, Close PROVE FileInv'
<1>1. StoreTypeOK /\ HotOK /\ ReqTypeOK /\ RequestOK
  BY InvParts
<1>2. /\ pc = "idle" /\ pending' = 0 /\ handle' = "nil" /\ hot' = <<>> /\ Detach
      /\ UNCHANGED <<file, offsets, writes, stale, reqVars, rpc, rid, at, rval, wantHot, seen>>
  BY DEF Close
<1>3. StoreTypeOK' /\ HotOK' /\ OffsetsOK'
  BY <1>1, <1>2, FileAssumption DEF StoreTypeOK, HotOK, OffsetsOK
<1>4. ReqTypeOK' /\ RequestOK'
  BY <1>1, <1>2 DEF ReqTypeOK, RequestOK, reqVars
<1> QED BY <1>2, <1>3, <1>4, ReadersDetached, InvPartsNext

LEMMA CrashInv == ASSUME FileInv, Crash \/ CrashWhileWriting PROVE FileInv'
<1>1. file \in Seq(Record \cup {Torn})
  BY InvParts DEF StoreTypeOK
<1>2. CASE Crash
  BY <1>1, <1>2, LoseMemoryInv DEF Crash
<1>3. CASE CrashWhileWriting
  BY <1>3, PartialWriteIs, LoseMemoryInv DEF CrashWhileWriting
<1> QED BY <1>2, <1>3

\* A step of a reader.
LEMMA ReadStep ==
  ASSUME FileInv, UNCHANGED <<storeVars, reqVars>>, HotOK', ReadTypeOK', NEW r \in Reader,
         ReaderOK(r)',
         \A q \in Reader \ {r} : /\ rpc'[q] = rpc[q] /\ rid'[q] = rid[q] /\ at'[q] = at[q]
                                 /\ rval'[q] = rval[q] /\ attached'[q] = attached[q]
                                 /\ wantHot'[q] = wantHot[q] /\ seen'[q] = seen[q]
  PROVE  FileInv'
<1>1. StoreTypeOK /\ OffsetsOK /\ ReqTypeOK /\ RequestOK /\ ReadersOK
  BY InvParts
<1>2. StoreTypeOK' /\ OffsetsOK'
  BY <1>1 DEF StoreTypeOK, OffsetsOK, storeVars
<1>3. ReqTypeOK' /\ RequestOK'
  BY <1>1 DEF ReqTypeOK, RequestOK, storeVars, reqVars
<1>4. ASSUME NEW q \in Reader \ {r} PROVE ReaderOK(q)'
  BY <1>1 DEF ReadersOK, ReaderOK, storeVars
<1>5. ReadersOK'
  BY <1>4 DEF ReadersOK
<1> QED BY <1>2, <1>3, <1>5, InvPartsNext

LEMMA ReadBeginInv ==
  ASSUME FileInv, NEW r \in Reader, NEW id \in ID, NEW hot32 \in BOOLEAN, ReadBegin(r, id, hot32)
  PROVE  FileInv'
<1>1. StoreTypeOK /\ HotOK /\ OffsetsOK /\ ReadTypeOK /\ \A q \in Reader : ReaderOK(q)
  BY InvParts DEF ReadersOK
<1>2. /\ rpc[r] = "idle" /\ rid' = [rid EXCEPT ![r] = id] /\ wantHot' = [wantHot EXCEPT ![r] = hot32]
      /\ seen' = [seen EXCEPT ![r] = {Current(id)}] /\ UNCHANGED <<storeVars, hot, reqVars>>
  BY DEF ReadBegin
<1>3. HotOK'
  BY <1>1, <1>2 DEF HotOK
<1>4. Current(id) \in Val \cup {None}
  BY CurrentIs
<1>5. CASE offsets[id] = 0 \/ handle = "nil"
  <2>1. PICK x \in {None, Err} :
          /\ rpc' = [rpc EXCEPT ![r] = "done"] /\ rval' = [rval EXCEPT ![r] = x]
          /\ UNCHANGED <<at, attached>> /\ (x = None => offsets[id] = 0)
    <3>1. PICK x \in {None, Err} : x = IF offsets[id] = 0 THEN None ELSE Err
      OBVIOUS
    <3>2. x = None => offsets[id] = 0
      BY <3>1, FileAssumption
    <3> QED BY <1>5, <3>1, <3>2, Zenon DEF ReadBegin, Answer
  <2>2. ReadTypeOK'
    BY <1>1, <1>2, <1>4, <2>1 DEF ReadTypeOK
  <2>3. offsets[id] = 0 => Current(id) = None
    BY <1>1 DEF Current, StoreTypeOK
  <2>4. ReaderOK(r)'
    BY <1>1, <1>2, <2>1, <2>3 DEF ReadTypeOK, ReaderOK, storeVars
  <2> QED BY <1>1, <1>2, <1>3, <2>1, <2>2, <2>4, ReadStep DEF ReadTypeOK
<1>6. CASE ~(offsets[id] = 0 \/ handle = "nil")
  <2>1. PICK l \in {"hot", "read"}, b \in BOOLEAN :
          /\ rpc' = [rpc EXCEPT ![r] = l] /\ at' = [at EXCEPT ![r] = offsets[id]]
          /\ attached' = [attached EXCEPT ![r] = b] /\ (b => handle = "open")
          /\ UNCHANGED rval /\ (l = "hot" => hot32)
    <3>1. PICK b \in BOOLEAN : b = (handle = "open")
      OBVIOUS
    <3>2. PICK l \in {"hot", "read"} : l = IF hot32 THEN "hot" ELSE "read"
      OBVIOUS
    <3>3. l = "hot" => hot32
      BY <3>2
    <3> QED BY <1>6, <3>1, <3>2, <3>3, Zenon DEF ReadBegin
  <2>2. ReadTypeOK'
    BY <1>1, <1>2, <1>4, <2>1 DEF ReadTypeOK, StoreTypeOK
  <2>3. handle = "open" => /\ offsets[id] \in DOMAIN file
                           /\ file[offsets[id]].val \in Val /\ Current(id) = file[offsets[id]].val
    BY <1>1, <1>6 DEF OffsetsOK, Current
  <2>4. ReaderOK(r)'
    BY <1>1, <1>2, <2>1, <2>3 DEF ReadTypeOK, ReaderOK, storeVars
  <2> QED BY <1>1, <1>2, <1>3, <2>1, <2>2, <2>4, ReadStep DEF ReadTypeOK
<1> QED BY <1>5, <1>6

LEMMA ReadHotInv == ASSUME FileInv, NEW r \in Reader, ReadHot(r) PROVE FileInv'
<1>1. HotOK /\ ReadTypeOK /\ \A q \in Reader : ReaderOK(q)
  BY InvParts DEF ReadersOK
<1>2. rpc[r] = "hot" /\ UNCHANGED <<storeVars, reqVars, rid, at, attached, wantHot, seen>>
  BY DEF ReadHot
<1>3. rid[r] \in ID /\ wantHot[r]
  BY <1>1, <1>2 DEF ReaderOK
<1>4. CASE IsHot(rid[r])
  <2>1. PICK x : /\ x = HotVal(rid[r])
                 /\ rpc' = [rpc EXCEPT ![r] = "done"] /\ rval' = [rval EXCEPT ![r] = x]
                 /\ hot' = HotPut(hot, rid[r], x)
    BY <1>4 DEF ReadHot, Answer
  <2>2. x \in Val
    <3>1. PICK i : i = CHOOSE j \in DOMAIN hot : hot[j].id = rid[r]
      OBVIOUS
    <3>2. i \in DOMAIN hot /\ x = hot[i].val
      BY <1>4, <2>1, <3>1 DEF IsHot, HotVal
    <3>3. hot[i] \in Put
      BY <1>1, <3>2 DEF HotOK
    <3> QED BY <3>2, <3>3 DEF Put
  <2>3. HotOK'
    BY <1>1, <1>3, <2>1, <2>2, HotPutIs DEF HotOK
  <2>4. ReadTypeOK'
    BY <1>1, <1>2, <2>1, <2>2 DEF ReadTypeOK
  <2>5. ReaderOK(r)'
    BY <1>1, <1>2, <1>3, <2>1 DEF ReadTypeOK, ReaderOK, storeVars
  <2> QED BY <1>1, <1>2, <2>1, <2>3, <2>4, <2>5, ReadStep DEF ReadTypeOK
<1>5. CASE ~IsHot(rid[r])
  <2>1. rpc' = [rpc EXCEPT ![r] = "read"] /\ UNCHANGED <<rval, hot>>
    BY <1>5 DEF ReadHot
  <2>2. HotOK' /\ ReadTypeOK'
    BY <1>1, <1>2, <2>1 DEF HotOK, ReadTypeOK
  <2>3. ReaderOK(r)'
    BY <1>1, <1>2, <1>3, <2>1 DEF ReadTypeOK, ReaderOK, storeVars
  <2> QED BY <1>1, <1>2, <2>1, <2>2, <2>3, ReadStep DEF ReadTypeOK
<1> QED BY <1>4, <1>5

LEMMA ReadFileInv == ASSUME FileInv, NEW r \in Reader, ReadFile(r) PROVE FileInv'
<1>1. HotOK /\ ReadTypeOK /\ \A q \in Reader : ReaderOK(q)
  BY InvParts DEF ReadersOK
<1>2. rpc[r] = "read" /\ UNCHANGED <<storeVars, hot, reqVars, rid, at, attached, wantHot, seen>>
  BY DEF ReadFile
<1>3. HotOK'
  BY <1>1, <1>2 DEF HotOK
<1>4. PICK l, x :
        /\ l \in {"putHot", "done"} /\ rpc' = [rpc EXCEPT ![r] = l] /\ rval' = [rval EXCEPT ![r] = x]
        /\ l = "putHot" => wantHot[r] /\ x # Err
        /\ x = Err \/ (x = file[at[r]].val /\ attached[r])
  <2>1. CASE attached[r] /\ rval' = [rval EXCEPT ![r] = file[at[r]].val]
             /\ rpc' = [rpc EXCEPT ![r] = IF wantHot[r] THEN "putHot" ELSE "done"]
    <3>1. PICK l \in {"putHot", "done"} : l = IF wantHot[r] THEN "putHot" ELSE "done"
      OBVIOUS
    <3>2. l = "putHot" => wantHot[r]
      BY <3>1
    <3>3. file[at[r]].val # Err
      BY <1>1, <1>2, <2>1, FileAssumption DEF ReaderOK
    <3>4. rpc' = [rpc EXCEPT ![r] = l]
      BY <2>1, <3>1
    <3> QED BY <2>1, <3>2, <3>3, <3>4
  <2>2. CASE Answer(r, Err)
    BY <2>2 DEF Answer
  <2> QED BY <2>1, <2>2 DEF ReadFile
<1>5. x # Err => x \in Val \cap seen[r]
  BY <1>1, <1>2, <1>4 DEF ReaderOK
<1>6. ReadTypeOK'
  BY <1>1, <1>2, <1>4, <1>5 DEF ReadTypeOK
<1>7. ReaderOK(r)'
  BY <1>1, <1>2, <1>4, <1>5 DEF ReadTypeOK, ReaderOK, storeVars
<1> QED BY <1>1, <1>2, <1>3, <1>4, <1>6, <1>7, ReadStep DEF ReadTypeOK

LEMMA ReadPutHotInv == ASSUME FileInv, NEW r \in Reader, ReadPutHot(r) PROVE FileInv'
<1>1. HotOK /\ ReadTypeOK /\ \A q \in Reader : ReaderOK(q)
  BY InvParts DEF ReadersOK
<1>2. /\ rpc[r] = "putHot" /\ hot' = HotPut(hot, rid[r], rval[r]) /\ rpc' = [rpc EXCEPT ![r] = "done"]
      /\ UNCHANGED <<storeVars, reqVars, rid, at, rval, attached, wantHot, seen>>
  BY DEF ReadPutHot
<1>3. rid[r] \in ID /\ wantHot[r] /\ rval[r] \in Val
  BY <1>1, <1>2 DEF ReaderOK
<1>4. HotOK' /\ ReadTypeOK'
  BY <1>1, <1>2, <1>3, HotPutIs DEF HotOK, ReadTypeOK
<1>5. ReaderOK(r)'
  BY <1>1, <1>2, <1>3 DEF ReadTypeOK, ReaderOK, storeVars
<1> QED BY <1>1, <1>2, <1>4, <1>5, ReadStep DEF ReadTypeOK

LEMMA ReadReturnInv == ASSUME FileInv, NEW r \in Reader, ReadReturn(r) PROVE FileInv'
<1>1. HotOK /\ ReadTypeOK
  BY InvParts DEF ReadersOK
<1>2. HotOK' /\ ReadTypeOK'
  BY <1>1 DEF HotOK, ReadTypeOK, ReadReturn
<1>3. ReaderOK(r)'
  BY <1>1 DEF ReadReturn, ReadTypeOK, ReaderOK
<1>4. \A q \in Reader \ {r} : /\ rpc'[q] = rpc[q] /\ rid'[q] = rid[q] /\ at'[q] = at[q]
                              /\ rval'[q] = rval[q] /\ attached'[q] = attached[q]
                              /\ wantHot'[q] = wantHot[q] /\ seen'[q] = seen[q]
  BY <1>1 DEF ReadReturn, ReadTypeOK
<1> QED BY <1>2, <1>3, <1>4, ReadStep DEF ReadReturn

LEMMA FileInit == Init => FileInv
<1> SUFFICES ASSUME Init PROVE FileInv
  OBVIOUS
<1>1. StoreTypeOK /\ HotOK /\ OffsetsOK
  BY FileAssumption DEF Init, StoreTypeOK, HotOK, OffsetsOK, NoOffsets
<1>2. booting \in BOOLEAN
  BY DEF Init
<1>3. ReqTypeOK /\ RequestOK
  <2>1. <<>> \in Seq(Record)
    OBVIOUS
  <2> QED BY <1>2, <2>1 DEF Init, ReqTypeOK, RequestOK
<1>4. ReadersOK
  BY DEF Init, ReadersOK, ReadTypeOK, ReaderOK
<1> QED BY <1>1, <1>3, <1>4, InvParts

LEMMA FileNext == FileInv /\ [Next]_vars => FileInv'
<1> SUFFICES ASSUME FileInv, [Next]_vars PROVE FileInv'
  OBVIOUS
<1>1. CASE UNCHANGED vars
  BY <1>1, InvParts, MoveInv DEF vars, reqVars, storeVars, ReqTypeOK, RequestOK
<1>2. CASE Start \/ OpenOK \/ OpenFails
  BY <1>2, StartInv, OpenOKInv, FailInv DEF OpenFails
<1>3. ASSUME NEW ops \in Requests, Begin(ops) PROVE FileInv'
  BY <1>3, BeginInv
<1>4. CASE WriteOK \/ WriteFails \/ SyncStep
  BY <1>4, WriteOKInv, WriteFailsInv, SyncStepInv
<1>5. CASE Compacting
  BY <1>5, NoCompactionInv, CompactSyncInv, CompactTmpInv, CompactCloseInv, CompactRenameInv,
     CompactSwapInv, FailInv DEF Compacting, CompactReopenFails
<1>6. CASE Close \/ Crash \/ CrashWhileWriting
  BY <1>6, CloseInv, CrashInv
<1>7. ASSUME NEW r \in Reader, NEW id \in ID, NEW hot32 \in BOOLEAN, ReadBegin(r, id, hot32)
      PROVE  FileInv'
  BY <1>7, ReadBeginInv
<1>8. CASE Reading
  BY <1>8, ReadHotInv, ReadFileInv, ReadPutHotInv, ReadReturnInv DEF Reading
<1> QED BY <1>1, <1>2, <1>3, <1>4, <1>5, <1>6, <1>7, <1>8, Zenon DEF Next, Requests

\* The inductive invariant: an offset leads to a payload while the handle is
\* open, the handle is closed while the file is replaced, and a reader that is
\* still attached finds its record where it was.
THEOREM FileInvHolds == Spec => []FileInv
BY FileInit, FileNext, PTL DEF Spec

\* GetVectorReadOnly uses an offset and a handle that it took before it released
\* s.mu.  Whatever writes, compactions, failures and reopenings come in
\* between, it answers with what the id was at some moment of the call, or
\* with an error.
THEOREM ReadsAreLinearizable == Spec => []ReadIsLinearizable
<1>1. FileInv => ReadIsLinearizable
  BY DEF FileInv, ReaderOK, ReadIsLinearizable
<1> QED BY <1>1, FileInvHolds, PTL

----------------------------------------------------------------------------
(* The invariant that holds when neither a write nor a read fails.         *)

\* f has one record for each entry of the map m, and no other.
Compacted(f, m) ==
  /\ \A i \in DOMAIN f : f[i].id \in ID /\ f[i].val = m[f[i].id]
  /\ \A i, j \in DOMAIN f : f[i].id = f[j].id => i = j
  /\ \A id \in ID : m[id] # None <=> \E i \in DOMAIN f : f[i].id = id

\* The process has read the file since it started.
Booted == pc # "down" /\ ~(booting /\ pc = "open")

IndexInv ==
  /\ IndexMatchesFile
  /\ Booted => \A id \in ID : offsets[id] # 0 <=> Recovered(file)[id] # None
  /\ pc \in {"tmp", "close", "rename", "reopen"} => Compacted(newFile, Recovered(file))
  /\ pc \in {"sync", "maybeCompact", "tmp", "close"} => handle = "open"
  /\ booting => req = <<>> /\ pc \notin {"idle", "write", "sync"}
  /\ pc = "down" => req = <<>>
  /\ req # <<>> /\ req[1].val = None => Len(req) = 1 /\ offsets[req[1].id] # 0

----------------------------------------------------------------------------
(* What a rebuild finds after an append.                                   *)

LEMMA SameLast ==
  ASSUME NEW f, NEW g, NEW id, NEW n \in Nat \ {0}, \A k \in 1 .. (n - 1) : f[k] = g[k]
  PROVE  /\ LastBefore(f, id, n) = LastBefore(g, id, n)
         /\ OffsetBefore(f, id, n) = OffsetBefore(g, id, n)
<1>1. PICK l : l = LastBefore(g, id, n)
  OBVIOUS
<1>2. \/ l = 0 /\ \A j \in 1 .. (n - 1) : g[j].id # id
      \/ l \in 1 .. (n - 1) /\ g[l].id = id /\ \A j \in (l + 1) .. (n - 1) : g[j].id # id
  BY <1>1, LastIs
<1>3. LastBefore(f, id, n) = l
  <2>1. CASE l = 0 /\ \A j \in 1 .. (n - 1) : g[j].id # id
    BY <2>1 DEF LastBefore
  <2>2. CASE l \in 1 .. (n - 1) /\ g[l].id = id /\ \A j \in (l + 1) .. (n - 1) : g[j].id # id
    <3>1. f[l].id = id /\ \A j \in (l + 1) .. (n - 1) : f[j].id # id
      BY <2>2
    <3> QED BY <2>2, <3>1, LastIsIt
  <2> QED BY <1>2, <2>1, <2>2
<1>4. l # 0 => f[l] = g[l]
  BY <1>2
<1> QED BY <1>1, <1>3, <1>4 DEF OffsetBefore

\* Place m has the last record of id before place n.
LastIn(s, id, m, n) ==
  m \in 1 .. (n - 1) /\ s[m].id = id /\ \A j \in (m + 1) .. (n - 1) : s[j].id # id

\* g is f, of length l, followed by ops, of length n.
IsAppend(g, f, l, ops, n) ==
  /\ l \in Nat /\ n \in Nat
  /\ \A k \in 1 .. l : g[k] = f[k]
  /\ \A j \in 1 .. n : g[l + j] = ops[j]

LEMMA AppendIs ==
  ASSUME NEW f \in Seq(Record \cup {Torn}), NEW ops \in Seq(Record \cup {Torn})
  PROVE  IsAppend(f \o ops, f, Len(f), ops, Len(ops)) /\ Len(f \o ops) = Len(f) + Len(ops)
<1>1. DOMAIN f = 1 .. Len(f)
  <2> HIDE DEF Record, Torn
  <2> QED OBVIOUS
<1>2. PICK g : g = f \o ops
  OBVIOUS
<1>3. /\ Extends(g, f) /\ Len(g) = Len(f) + Len(ops) /\ Len(f) \in Nat /\ Len(ops) \in Nat
      /\ \A i \in 1 .. Len(ops) : g[Len(f) + i] = ops[i]
  BY <1>2, Appended
<1>4. IsAppend(g, f, Len(f), ops, Len(ops))
  BY <1>1, <1>3 DEF IsAppend, Extends
<1> QED BY <1>2, <1>3, <1>4

LEMMA AppendLast ==
  ASSUME NEW f, NEW g, NEW l, NEW ops, NEW n, IsAppend(g, f, l, ops, n), NEW id, NEW i \in 1 .. n + 1
  PROVE  /\ \A m \in Nat : LastIn(ops, id, m, i) => LastBefore(g, id, l + i) = l + m
         /\ (\A j \in 1 .. (i - 1) : ops[j].id # id)
              => LastBefore(g, id, l + i) = LastBefore(f, id, l + 1)
<1>1. /\ l \in Nat /\ l + i \in Nat \ {0} /\ i \in Nat \ {0}
      /\ \A k \in 1 .. l : g[k] = f[k]
      /\ \A j \in 1 .. (i - 1) : g[l + j] = ops[j]
  BY DEF IsAppend
<1>2. PICK t \in Nat \ {0} : t = l + i
  BY <1>1
<1>3. ASSUME NEW k \in Nat, k > l, k <= t - 1 PROVE k - l \in 1 .. (i - 1) /\ g[k] = ops[k - l]
  <2>1. k - l \in 1 .. (i - 1) /\ l + (k - l) = k
    BY <1>1, <1>2, <1>3
  <2> QED BY <1>1, <2>1
<1>4. ASSUME NEW m \in Nat, LastIn(ops, id, m, i) PROVE LastBefore(g, id, t) = l + m
  <2>1. m \in 1 .. (i - 1) /\ ops[m].id = id /\ \A j \in (m + 1) .. (i - 1) : ops[j].id # id
    BY <1>4 DEF LastIn
  <2>2. l + m \in 1 .. (t - 1) /\ g[l + m].id = id
    BY <1>1, <1>2, <2>1
  <2>3. ASSUME NEW k \in (l + m + 1) .. (t - 1) PROVE g[k].id # id
    <3>1. k \in Nat /\ k > l /\ k <= t - 1 /\ k - l \in (m + 1) .. (i - 1)
      BY <1>1, <1>2, <2>1
    <3> QED BY <1>3, <2>1, <3>1
  <2> QED BY <2>2, <2>3, LastIsIt
<1>5. ASSUME \A j \in 1 .. (i - 1) : ops[j].id # id
      PROVE  LastBefore(g, id, t) = LastBefore(f, id, l + 1)
  <2>1. ASSUME NEW k \in Nat, k > l, k <= t - 1 PROVE g[k].id # id
    BY <1>3, <1>5, <2>1
  <2>2. PICK b : b = LastBefore(f, id, l + 1)
    OBVIOUS
  <2>3. \/ b = 0 /\ \A j \in 1 .. l : f[j].id # id
        \/ b \in 1 .. l /\ f[b].id = id /\ \A j \in (b + 1) .. l : f[j].id # id
    <3>1. l + 1 \in Nat \ {0} /\ (l + 1) - 1 = l
      BY <1>1
    <3>2. \/ b = 0 /\ \A j \in 1 .. ((l + 1) - 1) : f[j].id # id
          \/ /\ b \in 1 .. ((l + 1) - 1) /\ f[b].id = id
             /\ \A j \in (b + 1) .. ((l + 1) - 1) : f[j].id # id
      BY <2>2, <3>1, LastIs
    <3> QED BY <3>1, <3>2
  <2>4. CASE b = 0 /\ \A j \in 1 .. l : f[j].id # id
    <3>1. ASSUME NEW j \in 1 .. (t - 1) PROVE g[j].id # id
      <4>1. CASE j <= l
        BY <1>1, <2>4, <4>1
      <4>2. CASE j > l
        BY <1>1, <2>1, <4>2
      <4> QED BY <1>1, <4>1, <4>2
    <3>2. LastBefore(g, id, t) = 0
      BY <3>1 DEF LastBefore
    <3> QED BY <2>2, <2>4, <3>2
  <2>5. CASE b \in 1 .. l /\ f[b].id = id /\ \A j \in (b + 1) .. l : f[j].id # id
    <3>1. b \in 1 .. (t - 1) /\ g[b].id = id
      BY <1>1, <1>2, <2>5
    <3>2. ASSUME NEW j \in (b + 1) .. (t - 1) PROVE g[j].id # id
      <4>1. CASE j <= l
        BY <1>1, <2>5, <4>1
      <4>2. CASE j > l
        BY <1>1, <2>1, <2>5, <4>2
      <4> QED BY <1>1, <2>5, <4>1, <4>2
    <3> QED BY <2>2, <3>1, <3>2, LastIsIt
  <2> QED BY <2>3, <2>4, <2>5
<1> QED BY <1>2, <1>4, <1>5

\* The offset before a record of a request: of an earlier record of it, or
\* what it was before the request.
LEMMA AppendOffset ==
  ASSUME NEW f, NEW g, NEW l, NEW ops, NEW n, IsAppend(g, f, l, ops, n), NEW id, NEW i \in 1 .. n + 1
  PROVE  /\ \A m \in Nat : LastIn(ops, id, m, i) =>
              OffsetBefore(g, id, l + i) = IF ops[m].val = None THEN 0 ELSE l + m
         /\ (\A j \in 1 .. (i - 1) : ops[j].id # id) =>
              OffsetBefore(g, id, l + i) = OffsetBefore(f, id, l + 1)
<1>1. /\ l \in Nat /\ n \in Nat /\ \A k \in 1 .. l : g[k] = f[k]
      /\ \A j \in 1 .. n : g[l + j] = ops[j]
  BY DEF IsAppend
<1>2. ASSUME NEW m \in Nat, LastIn(ops, id, m, i)
      PROVE  OffsetBefore(g, id, l + i) = IF ops[m].val = None THEN 0 ELSE l + m
  <2>1. LastBefore(g, id, l + i) = l + m
    BY <1>2, AppendLast
  <2>2. m \in 1 .. n /\ l + m # 0
    BY <1>1, <1>2 DEF LastIn
  <2>3. g[l + m] = ops[m]
    BY <1>1, <2>2
  <2> QED BY <2>1, <2>2, <2>3 DEF OffsetBefore
<1>3. ASSUME \A j \in 1 .. (i - 1) : ops[j].id # id
      PROVE  OffsetBefore(g, id, l + i) = OffsetBefore(f, id, l + 1)
  <2>1. PICK b : b = LastBefore(f, id, l + 1)
    OBVIOUS
  <2>2. LastBefore(g, id, l + i) = b
    BY <1>3, <2>1, AppendLast
  <2>3. b # 0 => g[b] = f[b]
    <3>1. l + 1 \in Nat \ {0}
      BY <1>1
    <3>2. b # 0 => b \in 1 .. ((l + 1) - 1)
      BY <2>1, <3>1, LastIs
    <3> QED BY <1>1, <3>2
  <2> QED BY <2>1, <2>2, <2>3 DEF OffsetBefore
<1> QED BY <1>2, <1>3

NoneIn(s, id, n) == \A j \in 1 .. (n - 1) : s[j].id # id

LEMMA AppendOffsetOld ==
  ASSUME NEW f, NEW g, NEW l, NEW ops, NEW n, IsAppend(g, f, l, ops, n), NEW id, NEW i \in 1 .. n + 1,
         NoneIn(ops, id, i)
  PROVE  OffsetBefore(g, id, l + i) = OffsetBefore(f, id, l + 1)
BY AppendOffset DEF NoneIn

\* The offsets of WriteOK are those of a rebuild.
LEMMA AppendOffsets ==
  ASSUME FileInv, req \in Requests, offsets = RebuiltOffsets(file)
  PROVE  NewOffsets(req) = RebuiltOffsets(file \o req)
<1>1. file \in Seq(Record \cup {Torn})
  BY InvParts DEF StoreTypeOK
<1>2. /\ Len(req) \in Nat \ {0} /\ DOMAIN req = 1 .. Len(req)
      /\ Len(file \o req) = Len(file) + Len(req) /\ Len(file) \in Nat
      /\ IsAppend(file \o req, file, Len(file), req, Len(req))
  <2>1. req \in Seq(Record) /\ Len(req) \in Nat \ {0} /\ DOMAIN req = 1 .. Len(req)
    BY RequestsAre
  <2>2. req \in Seq(Record \cup {Torn})
    BY <2>1, SeqMonotonic
  <2> QED BY <1>1, <2>1, <2>2, AppendIs DEF IsAppend
<1>3. ASSUME NEW id \in ID PROVE NewOffsets(req)[id] = RebuiltOffsets(file \o req)[id]
  <2>0. PICK l \in Nat, n \in Nat \ {0} : l = Len(file) /\ n = Len(req)
    BY <1>2
  <2>1. PICK g, o : g = file \o req /\ o = OffsetBefore(g, id, l + (n + 1))
    OBVIOUS
  <2>2. RebuiltOffsets(file \o req)[id] = o
    <3>1. Len(g) + 1 = l + (n + 1)
      BY <1>2, <2>0, <2>1
    <3> QED BY <2>0, <2>1, <3>1 DEF RebuiltOffsets
  <2>3. n + 1 \in 1 .. n + 1 /\ (n + 1) - 1 = n
    OBVIOUS
  <2>4. /\ \A m \in Nat : LastIn(req, id, m, n + 1) => o = IF req[m].val = None THEN 0 ELSE l + m
        /\ (\A j \in 1 .. n : req[j].id # id) => o = RebuiltOffsets(file)[id]
    <3>1. PICK f, ops : f = file /\ ops = req
      OBVIOUS
    <3>2. PICK i \in 1 .. n + 1 : i = n + 1
      BY <2>3
    <3>3. IsAppend(g, f, l, ops, n)
      BY <1>2, <2>0, <2>1, <3>1
    <3>5. ASSUME NEW m \in Nat, LastIn(ops, id, m, i)
          PROVE  OffsetBefore(g, id, l + i) = IF ops[m].val = None THEN 0 ELSE l + m
      BY <3>3, <3>5, AppendOffset
    <3>6. ASSUME NoneIn(ops, id, i)
          PROVE  OffsetBefore(g, id, l + i) = OffsetBefore(f, id, l + 1)
      BY <3>3, <3>6, AppendOffsetOld
    <3>4. RebuiltOffsets(file)[id] = OffsetBefore(f, id, l + 1)
      BY <2>0, <2>1, <3>1 DEF RebuiltOffsets
    <3>7. (\A j \in 1 .. n : req[j].id # id) => NoneIn(ops, id, i)
      BY <2>3, <3>1, <3>2 DEF NoneIn
    <3> QED BY <2>1, <3>1, <3>2, <3>4, <3>5, <3>6, <3>7
  <2> DEFINE S == {i \in DOMAIN req : req[i].id = id}
  <2>5. CASE S = {}
    <3>1. NewOffsets(req)[id] = offsets[id]
      BY <2>5 DEF NewOffsets
    <3> QED BY <1>2, <2>0, <2>1, <2>2, <2>4, <2>5, <3>1
  <2>6. CASE S # {}
    <3>1. PICK i \in S : \A j \in S : j <= i
      <4>1. S \subseteq 1 .. Len(req)
        BY <1>2
      <4> HIDE DEF S
      <4> QED BY <1>2, <2>6, <4>1, Greatest
    <3>2. PICK k : k = CHOOSE e \in DOMAIN req : /\ req[e].id = id
                                                 /\ \A j \in DOMAIN req : req[j].id = id => j <= e
      OBVIOUS
    <3>3. k \in DOMAIN req /\ req[k].id = id /\ \A j \in DOMAIN req : req[j].id = id => j <= k
      BY <3>1, <3>2
    <3>4. NewOffsets(req)[id] = IF req[k].val = None THEN 0 ELSE Len(file) + k
      BY <2>6, <3>2 DEF NewOffsets
    <3>5. k \in 1 .. n /\ \A j \in (k + 1) .. n : req[j].id # id
      <4>1. n \in Nat /\ k \in 1 .. n /\ \A j \in 1 .. n : req[j].id = id => j <= k
        BY <1>2, <2>0, <2>1, <3>3
      <4>2. \A j \in (k + 1) .. n : j \in 1 .. n /\ ~(j <= k)
        BY <4>1
      <4> QED BY <4>1, <4>2
    <3>6. LastIn(req, id, k, n + 1)
      BY <2>3, <3>3, <3>5 DEF LastIn
    <3>7. k \in Nat
      BY <3>5
    <3> QED BY <2>0, <2>2, <2>4, <3>4, <3>6, <3>7
  <2> QED BY <2>5, <2>6
<1> QED BY <1>3 DEF NewOffsets, RebuiltOffsets

StaleAt(f) == {k \in DOMAIN f : f[k].val = None \/ OffsetBefore(f, f[k].id, k) # 0}

\* So is the number of stale records.
LEMMA AppendStale ==
  ASSUME FileInv, req \in Requests, offsets = RebuiltOffsets(file),
         req[1].val = None => offsets[req[1].id] # 0
  PROVE  RebuiltStale(file \o req) = RebuiltStale(file) + Cardinality(Replaced(req))
<1>1. file \in Seq(Record \cup {Torn})
  BY InvParts DEF StoreTypeOK
<1>2. /\ req \in Seq(Record) /\ req \in Seq(Record \cup {Torn})
      /\ Len(req) \in Nat \ {0} /\ DOMAIN req = 1 .. Len(req)
      /\ \A i \in 1 .. Len(req) : req[i].id \in ID
      /\ \/ \A i \in 1 .. Len(req) : req[i].val \in Val
         \/ Len(req) = 1 /\ req[1].val = None
  <2>1. req \in Seq(Record)
    BY RequestsAre
  <2>2. req \in Seq(Record \cup {Torn})
    BY <2>1, SeqMonotonic
  <2> QED BY <2>1, <2>2, RequestsAre
<1>3. PICK g, l, n : g = file \o req /\ l = Len(file) /\ n = Len(req)
  OBVIOUS
<1>4. /\ Extends(g, file) /\ Len(g) = l + n /\ l \in Nat /\ n \in Nat \ {0}
      /\ IsAppend(g, file, l, req, n) /\ \A i \in 1 .. n : g[l + i] = req[i]
      /\ DOMAIN file = 1 .. l /\ DOMAIN g = 1 .. l + n
  <2>1. /\ g \in Seq(Record \cup {Torn}) /\ Extends(g, file) /\ Len(g) = l + n /\ l \in Nat /\ n \in Nat \ {0}
        /\ \A i \in 1 .. n : g[l + i] = req[i]
    BY <1>1, <1>2, <1>3, Appended
  <2>2. IsAppend(g, file, l, req, n)
    BY <1>1, <1>2, <1>3, AppendIs
  <2> HIDE DEF Record, Torn
  <2> QED BY <1>1, <1>3, <2>1, <2>2
<1> DEFINE old == StaleAt(file)
           new == {l + i : i \in Replaced(req)}
<1>5. ASSUME NEW k \in 1 .. l PROVE k \in StaleAt(g) <=> k \in old
  <2>1. g[k] = file[k] /\ k \in DOMAIN g /\ k \in DOMAIN file
    BY <1>4 DEF Extends
  <2>2. OffsetBefore(g, file[k].id, k) = OffsetBefore(file, file[k].id, k)
    <3>1. k \in Nat \ {0} /\ \A j \in 1 .. (k - 1) : g[j] = file[j]
      BY <1>4 DEF Extends
    <3> QED BY <3>1, SameLast
  <2> QED BY <2>1, <2>2 DEF StaleAt
<1>6. ASSUME NEW i \in 1 .. n PROVE l + i \in StaleAt(g) <=> i \in Replaced(req)
  <2>1. PICK id, o : id \in ID /\ id = req[i].id /\ o = OffsetBefore(g, id, l + i)
    BY <1>2, <1>3
  <2>2. l + i \in StaleAt(g) <=> req[i].val = None \/ o # 0
    BY <1>4, <2>1 DEF StaleAt
  <2>3. /\ \A m \in Nat : LastIn(req, id, m, i) => o = IF req[m].val = None THEN 0 ELSE l + m
        /\ (\A j \in 1 .. (i - 1) : req[j].id # id) => o = offsets[id]
    <3>1. PICK f, ops : f = file /\ ops = req
      OBVIOUS
    <3>2. IsAppend(g, f, l, ops, n) /\ i \in 1 .. n + 1
      BY <1>4, <3>1
    <3>3. /\ \A m \in Nat : LastIn(ops, id, m, i) =>
               OffsetBefore(g, id, l + i) = IF ops[m].val = None THEN 0 ELSE l + m
          /\ (\A j \in 1 .. (i - 1) : ops[j].id # id) =>
               OffsetBefore(g, id, l + i) = OffsetBefore(f, id, l + 1)
      BY <3>2, AppendOffset
    <3>4. offsets[id] = OffsetBefore(f, id, l + 1)
      BY <1>3, <2>1, <3>1 DEF RebuiltOffsets
    <3> QED BY <2>1, <3>1, <3>3, <3>4
  <2>4. CASE Len(req) = 1 /\ req[1].val = None
    <3>1. i = 1
      BY <1>3, <2>4
    <3>2. i \in Replaced(req)
      BY <1>2, <2>4, <3>1 DEF Replaced
    <3> QED BY <2>2, <2>4, <3>1, <3>2
  <2>5. CASE \A j \in 1 .. Len(req) : req[j].val \in Val
    <3>1. req[i].val # None
      BY <1>3, <2>5, FileAssumption
    <3> DEFINE S == {j \in 1 .. (i - 1) : req[j].id = id}
    <3>2. i \in Replaced(req) <=> offsets[id] # 0 \/ S # {}
      BY <1>2, <1>3, <2>1 DEF Replaced
    <3>3. CASE S = {}
      BY <2>2, <2>3, <3>1, <3>2, <3>3
    <3>4. CASE S # {}
      <4>1. PICK m \in S : \A j \in S : j <= m
        <5>1. i - 1 \in Nat /\ S \subseteq 1 .. (i - 1)
          OBVIOUS
        <5> HIDE DEF S
        <5> QED BY <3>4, <5>1, Greatest
      <4>2. m \in 1 .. (i - 1) /\ req[m].id = id /\ \A j \in (m + 1) .. (i - 1) : req[j].id # id
        BY <4>1
      <4>3. m \in 1 .. Len(req)
        BY <1>3, <1>4, <4>2
      <4>4. req[m].val # None
        BY <2>5, <4>3, FileAssumption
      <4>5. o = l + m
        BY <2>3, <4>2, <4>4 DEF LastIn
      <4>6. o # 0
        BY <1>4, <4>2, <4>5
      <4> QED BY <2>2, <3>2, <3>4, <4>6
    <3> QED BY <3>3, <3>4
  <2> QED BY <1>2, <2>4, <2>5
<1>7. Replaced(req) \subseteq 1 .. n
  BY <1>2, <1>3 DEF Replaced
<1>8. StaleAt(g) = old \cup new /\ old \cap new = {}
  <2>1. old \subseteq 1 .. l
    BY <1>4 DEF StaleAt
  <2>2. ASSUME NEW k \in StaleAt(g) PROVE k \in old \cup new
    <3>1. k \in 1 .. l + n
      BY <1>4 DEF StaleAt
    <3>2. CASE k <= l
      BY <1>4, <1>5, <3>1, <3>2
    <3>3. CASE k > l
      <4>1. k - l \in 1 .. n /\ l + (k - l) = k
        BY <1>4, <3>1, <3>3
      <4>2. k - l \in Replaced(req)
        BY <1>6, <4>1
      <4> QED BY <4>1, <4>2
    <3> QED BY <1>4, <3>1, <3>2, <3>3
  <2>3. ASSUME NEW k \in new PROVE k \in StaleAt(g) /\ k \notin old
    <3>1. PICK i \in Replaced(req) : k = l + i
      OBVIOUS
    <3>2. i \in 1 .. n
      BY <1>7
    <3>3. k > l
      BY <1>4, <3>1, <3>2
    <3> QED BY <1>4, <1>6, <2>1, <3>1, <3>2, <3>3
  <2>4. \A k \in old : k \in StaleAt(g)
    BY <1>5, <2>1
  <2> HIDE DEF old, new
  <2> QED BY <2>2, <2>3, <2>4
<1>9. IsFiniteSet(old) /\ IsFiniteSet(Replaced(req))
  <2>1. IsFiniteSet(1 .. l) /\ IsFiniteSet(1 .. n)
    BY <1>4, FS_Interval
  <2>2. old \subseteq 1 .. l
    BY <1>4 DEF StaleAt
  <2> HIDE DEF old
  <2> QED BY <1>7, <2>1, <2>2, FS_Subset
<1>10. IsFiniteSet(new) /\ Cardinality(new) = Cardinality(Replaced(req))
  <2> DEFINE shift == [i \in Replaced(req) |-> l + i]
  <2>1. shift \in Bijection(Replaced(req), new)
    <3>1. \A i, j \in Replaced(req) : l + i = l + j => i = j
      BY <1>4, <1>7
    <3> QED BY <3>1 DEF Bijection, Injection, Surjection, IsInjective
  <2>2. ExistsBijection(Replaced(req), new)
    BY <2>1 DEF ExistsBijection
  <2> HIDE DEF new
  <2> QED BY <1>9, <2>2, FS_Bijection
<1>11. Cardinality(StaleAt(g)) = Cardinality(old) + Cardinality(Replaced(req))
  <2> HIDE DEF old, new
  <2>1. Cardinality(old \cup new) = Cardinality(old) + Cardinality(new) - Cardinality(old \cap new)
    BY <1>9, <1>10, FS_Union
  <2>2. Cardinality(old \cap new) = 0
    BY <1>8, FS_EmptySet
  <2>3. Cardinality(old) \in Nat /\ Cardinality(new) \in Nat
    BY <1>9, <1>10, FS_CardinalityType
  <2>4. Cardinality(old \cup new) = Cardinality(old) + Cardinality(new)
    BY <2>1, <2>2, <2>3
  <2> QED BY <1>8, <1>10, <2>4
<1> QED BY <1>3, <1>11 DEF RebuiltStale, StaleAt

----------------------------------------------------------------------------
(* What a restart finds, and in a compacted file.                          *)

LEMMA RecoveredIs ==
  ASSUME NEW f \in Seq(Record \cup {Torn})
  PROVE  /\ Recovered(f) \in [ID -> Val \cup {None}]
         /\ \A id \in ID : Recovered(f)[id] # None <=> RebuiltOffsets(f)[id] # 0
         /\ \A id \in ID : RebuiltOffsets(f)[id] # 0 =>
              RebuiltOffsets(f)[id] \in DOMAIN f /\ Recovered(f)[id] = f[RebuiltOffsets(f)[id]].val
<1>1. \A id \in ID : RebuiltOffsets(f)[id] # 0 =>
        RebuiltOffsets(f)[id] \in DOMAIN f /\ f[RebuiltOffsets(f)[id]].val \in Val
  BY RebuiltIs
<1>2. PICK o : o = RebuiltOffsets(f)
  OBVIOUS
<1>3. Recovered(f) = [id \in ID |-> IF o[id] = 0 THEN None ELSE f[o[id]].val]
  BY <1>2 DEF Recovered
<1>4. \A id \in ID : o[id] # 0 => o[id] \in DOMAIN f /\ f[o[id]].val \in Val /\ f[o[id]].val # None
  BY <1>1, <1>2, FileAssumption
<1>5. ASSUME NEW id \in ID
      PROVE  /\ Recovered(f)[id] \in Val \cup {None}
             /\ Recovered(f)[id] # None <=> o[id] # 0
             /\ o[id] # 0 => o[id] \in DOMAIN f /\ Recovered(f)[id] = f[o[id]].val
  BY <1>3, <1>4
<1> QED BY <1>2, <1>3, <1>5

LEMMA CompactedRebuild ==
  ASSUME NEW f \in Seq(Record), NEW m \in [ID -> Val \cup {None}], Compacted(f, m)
  PROVE  Recovered(f) = m /\ RebuiltStale(f) = 0
<1>1. PICK n \in Nat : n = Len(f) /\ DOMAIN f = 1 .. n
  <2> HIDE DEF Record
  <2> QED OBVIOUS
<1>2. /\ \A i \in 1 .. n : f[i].id \in ID /\ f[i].val = m[f[i].id] /\ f[i].val # None
      /\ \A i, j \in 1 .. n : f[i].id = f[j].id => i = j
      /\ \A id \in ID : m[id] # None <=> \E i \in 1 .. n : f[i].id = id
  BY <1>1 DEF Compacted
<1>3. n + 1 \in Nat \ {0} /\ (n + 1) - 1 = n
  OBVIOUS
<1>4. ASSUME NEW id \in ID PROVE Recovered(f)[id] = m[id]
  <2>1. PICK o : o = OffsetBefore(f, id, n + 1)
    OBVIOUS
  <2>2. Recovered(f)[id] = IF o = 0 THEN None ELSE f[o].val
    BY <1>1, <2>1 DEF Recovered, RebuiltOffsets
  <2>3. CASE m[id] = None
    <3>1. LastBefore(f, id, n + 1) = 0
      BY <1>2, <1>3, <2>3 DEF LastBefore
    <3> QED BY <2>1, <2>2, <2>3, <3>1 DEF OffsetBefore
  <2>4. CASE m[id] # None
    <3>1. PICK i \in 1 .. n : f[i].id = id
      BY <1>2, <2>4
    <3>2. i \in 1 .. ((n + 1) - 1) /\ \A j \in (i + 1) .. ((n + 1) - 1) : f[j].id # id
      BY <1>2, <1>3, <3>1
    <3>3. LastBefore(f, id, n + 1) = i
      BY <1>3, <3>1, <3>2, LastIsIt
    <3>4. f[i].val = m[id] /\ f[i].val # None
      BY <1>2, <3>1
    <3>5. o = i /\ i # 0
      BY <2>1, <3>3, <3>4 DEF OffsetBefore
    <3> QED BY <2>2, <3>4, <3>5
  <2> QED BY <2>3, <2>4
<1>5. ASSUME NEW k \in DOMAIN f PROVE ~(f[k].val = None \/ OffsetBefore(f, f[k].id, k) # 0)
  <2>1. k \in 1 .. n /\ f[k].val # None
    BY <1>1, <1>2
  <2>2. \A j \in 1 .. (k - 1) : f[j].id # f[k].id
    BY <1>2, <2>1
  <2>3. LastBefore(f, f[k].id, k) = 0
    BY <2>2 DEF LastBefore
  <2> QED BY <2>1, <2>3 DEF OffsetBefore
<1>6. StaleAt(f) = {}
  BY <1>5 DEF StaleAt
<1>7. RebuiltStale(f) = 0
  BY <1>6, FS_EmptySet DEF RebuiltStale, StaleAt
<1>8. Recovered(f) = [id \in ID |-> Recovered(f)[id]]
  BY DEF Recovered
<1> QED BY <1>4, <1>7, <1>8

----------------------------------------------------------------------------
(* Every step keeps IndexInv, when no write and no read fails.             *)

\* Neither a write(2) of a request nor a read of a record fails.  (After a
\* partial write the process goes on with a file that has more records than
\* its index knows, and a compaction skips a record it cannot read.)
Healthy == "write" \notin Faults /\ "read" \notin Faults

\* The parts that only the request can disturb.
RequestInv ==
  /\ booting => req = <<>> /\ pc \notin {"idle", "write", "sync"}
  /\ pc = "down" => req = <<>>
  /\ req # <<>> /\ req[1].val = None => Len(req) = 1 /\ offsets[req[1].id] # 0
\* The index while no compaction is under way.
PlainInv ==
  /\ IndexMatchesFile
  /\ Booted => \A id \in ID : offsets[id] # 0 <=> Recovered(file)[id] # None
  /\ pc \in {"sync", "maybeCompact", "tmp", "close"} => handle = "open"
CompactInv ==
  pc \in {"tmp", "close", "rename", "reopen"} => Compacted(newFile, Recovered(file))

LEMMA IndexParts == IndexInv <=> PlainInv /\ RequestInv /\ CompactInv
BY DEF IndexInv, PlainInv, RequestInv, CompactInv

LEMMA IndexPartsNext == IndexInv' <=> PlainInv' /\ RequestInv' /\ CompactInv'
BY DEF IndexInv, PlainInv, RequestInv, CompactInv

LEMMA IndexKept ==
  ASSUME IndexInv, UNCHANGED <<storeVars, reqVars>>
  PROVE  IndexInv'
<1>1. UNCHANGED <<file, handle, offsets, writes, stale, pc, req, booting, newFile>>
  BY DEF storeVars, reqVars
<1> QED BY <1>1 DEF IndexInv, IndexMatchesFile, Booted

LEMMA LoseMemoryIndex == ASSUME LoseMemory PROVE IndexInv'
<1>1. handle' = "nil" /\ pc' = "down" /\ req' = <<>> /\ ~booting'
  BY DEF LoseMemory
<1> QED BY <1>1 DEF IndexInv, IndexMatchesFile, Booted

LEMMA FinishIndex ==
  ASSUME IndexInv, Finish, Booted,
         UNCHANGED <<file, offsets, writes, stale>>, handle' \in {handle, "closed"}
  PROVE  IndexInv'
<1>1. pc' = "idle" /\ req' = <<>> /\ ~booting'
  BY DEF Finish
<1> QED BY <1>1 DEF IndexInv, IndexMatchesFile

LEMMA FailIndex == ASSUME IndexInv, Fail, pc # "down" PROVE IndexInv'
<1>1. CASE ~booting /\ Finish /\ UNCHANGED <<storeVars, hot, readVars>>
  BY <1>1, FinishIndex DEF Booted, storeVars
<1>2. CASE booting /\ LoseMemory /\ UNCHANGED file
  BY <1>2, LoseMemoryIndex
<1> QED BY <1>1, <1>2 DEF Fail

LEMMA StartIndex == ASSUME IndexInv, Start PROVE IndexInv'
<1>1. /\ pc = "down" /\ pc' = "open" /\ booting' /\ req = <<>> /\ req' = <<>>
      /\ UNCHANGED <<file, handle, offsets, writes, stale>>
  BY DEF Start, IndexInv, storeVars
<1> QED BY <1>1 DEF IndexInv, IndexMatchesFile, Booted

LEMMA BeginIndex == ASSUME IndexInv, NEW ops \in Requests, Begin(ops) PROVE IndexInv'
<1>1. /\ pc = "idle" /\ pc' \in {"open", "write"} /\ ~booting /\ ~booting' /\ req' = ops
      /\ UNCHANGED <<file, handle, offsets, writes, stale>>
  BY DEF Begin, IndexInv, storeVars
<1>2. ops[1].val = None => Len(ops) = 1 /\ offsets[ops[1].id] # 0
  <2>1. ops[1].val = None => Len(ops) = 1
    BY RequestsAre, FileAssumption
  <2> QED BY <2>1 DEF Begin
<1> QED BY <1>1, <1>2 DEF IndexInv, IndexMatchesFile, Booted

\* The current delete still has an offset after a rebuild.
LEMMA DeleteIndexed ==
  ASSUME FileInv, IndexInv, Booted, req # <<>>, req[1].val = None
  PROVE  Len(req) = 1 /\ RebuiltOffsets(file)[req[1].id] # 0
<1>1. req \in Requests /\ file \in Seq(Record \cup {Torn})
  BY InvParts DEF RequestOK, StoreTypeOK
<1>2. req[1].id \in ID
  BY <1>1, RequestsAre
<1>3. Len(req) = 1 /\ offsets[req[1].id] # 0
  BY DEF IndexInv
<1>4. Recovered(file)[req[1].id] # None
  BY <1>2, <1>3 DEF IndexInv
<1> QED BY <1>1, <1>2, <1>3, <1>4, RecoveredIs

LEMMA OpenOKIndex == ASSUME FileInv, IndexInv, OpenOK PROVE IndexInv'
<1>1. /\ pc = "open" /\ handle' = "open" /\ offsets' = RebuiltOffsets(file)
      /\ writes' = Len(file) /\ stale' = RebuiltStale(file) /\ pc' = "maybeCompact"
      /\ UNCHANGED <<file, req, booting, newFile>>
  BY DEF OpenOK
<1>2. file \in Seq(Record \cup {Torn})
  BY InvParts DEF StoreTypeOK
<1>3. PlainInv'
  <2>1. IndexMatchesFile'
    BY <1>1 DEF IndexMatchesFile
  <2>2. \A id \in ID : offsets'[id] # 0 <=> Recovered(file')[id] # None
    BY <1>1, <1>2, RecoveredIs
  <2> QED BY <1>1, <2>1, <2>2 DEF PlainInv
<1>4. req # <<>> /\ req[1].val = None => Len(req) = 1 /\ offsets'[req[1].id] # 0
  <2>1. req # <<>> => Booted
    BY <1>1 DEF IndexInv, Booted
  <2> QED BY <1>1, <2>1, DeleteIndexed
<1>5. RequestInv'
  BY <1>1, <1>4 DEF RequestInv, IndexInv
<1>6. CompactInv'
  BY <1>1 DEF CompactInv
<1> QED BY <1>3, <1>5, <1>6, IndexPartsNext

LEMMA WriteOKIndex == ASSUME FileInv, IndexInv, WriteOK PROVE IndexInv'
<1>1. /\ pc = "write" /\ handle = "open" /\ handle' = "open" /\ file' = file \o req
      /\ offsets' = NewOffsets(req) /\ writes' = writes + Len(req)
      /\ stale' = stale + Cardinality(Replaced(req)) /\ req' = <<>> /\ pc' = "sync"
      /\ booting' = booting
  BY DEF WriteOK
<1>2. /\ file \in Seq(Record \cup {Torn}) /\ req \in Requests
      /\ offsets = RebuiltOffsets(file) /\ writes = Len(file) /\ stale = RebuiltStale(file)
      /\ req[1].val = None => offsets[req[1].id] # 0
      /\ ~booting
  <2>1. /\ file \in Seq(Record \cup {Torn}) /\ req \in Requests /\ req # <<>>
    BY <1>1, InvParts DEF RequestOK, StoreTypeOK
  <2> QED BY <1>1, <2>1 DEF IndexInv, IndexMatchesFile
<1>3. offsets' = RebuiltOffsets(file')
  BY <1>1, <1>2, AppendOffsets
<1>4. stale' = RebuiltStale(file')
  BY <1>1, <1>2, AppendStale
<1>5. file' \in Seq(Record \cup {Torn}) /\ writes' = Len(file')
  <2>1. req \in Seq(Record)
    BY <1>2, RequestsAre
  <2>2. req \in Seq(Record \cup {Torn})
    BY <2>1, SeqMonotonic
  <2> QED BY <1>1, <1>2, <2>2, Appended
<1>6. PlainInv'
  <2>1. IndexMatchesFile'
    BY <1>3, <1>4, <1>5 DEF IndexMatchesFile
  <2>2. \A id \in ID : offsets'[id] # 0 <=> Recovered(file')[id] # None
    BY <1>3, <1>5, RecoveredIs
  <2> QED BY <1>1, <2>1, <2>2 DEF PlainInv
<1>7. RequestInv' /\ CompactInv'
  BY <1>1, <1>2 DEF RequestInv, CompactInv
<1> QED BY <1>6, <1>7, IndexPartsNext

LEMMA WriteFailsIndex == ASSUME Healthy, IndexInv, WriteFails PROVE IndexInv'
<1>1. pc = "write" /\ Finish /\ UNCHANGED <<file, handle, offsets, writes, stale>>
  BY DEF WriteFails, Healthy
<1> QED BY <1>1, FinishIndex DEF Booted

LEMMA SyncStepIndex == ASSUME IndexInv, SyncStep PROVE IndexInv'
<1>1. pc = "sync" /\ UNCHANGED <<file, handle, offsets, writes, stale>>
  BY DEF SyncStep
<1>2. CASE pc' = "maybeCompact" /\ UNCHANGED <<req, booting, newFile>>
  BY <1>1, <1>2 DEF IndexInv, IndexMatchesFile, Booted
<1>3. CASE Finish
  BY <1>1, <1>3, FinishIndex DEF Booted
<1> QED BY <1>2, <1>3 DEF SyncStep

LEMMA ContinueRequest ==
  ASSUME RequestInv, Continue, Booted,
         req # <<>> /\ req[1].val = None => Len(req) = 1 /\ offsets'[req[1].id] # 0
  PROVE  RequestInv' /\ CompactInv' /\ pc' \in {"idle", "write"}
BY DEF Continue, Finish, RequestInv, CompactInv

LEMMA NoCompactionIndex == ASSUME IndexInv, NoCompaction PROVE IndexInv'
<1>1. pc = "maybeCompact" /\ Continue /\ UNCHANGED <<file, handle, offsets, writes, stale>> /\ Booted
  BY DEF NoCompaction, storeVars, Booted
<1>2. RequestInv' /\ CompactInv' /\ pc' \in {"idle", "write"}
  BY <1>1, ContinueRequest, IndexParts DEF RequestInv
<1>3. PlainInv'
  BY <1>1, <1>2, IndexParts DEF PlainInv, IndexMatchesFile
<1> QED BY <1>2, <1>3, IndexPartsNext

\* The live records, in whatever order the map gives them.
LEMMA LiveRecords ==
  ASSUME FileInv, IndexMatchesFile, handle = "open",
         NEW s \in [1 .. Cardinality(Indexed(offsets)) -> Indexed(offsets)],
         {s[i] : i \in DOMAIN s} = Indexed(offsets)
  PROVE  Compacted([i \in DOMAIN s |-> [id |-> s[i], val |-> Current(s[i])]], Recovered(file))
<1> DEFINE live == Indexed(offsets)
           c == Cardinality(live)
           g == [i \in DOMAIN s |-> [id |-> s[i], val |-> Current(s[i])]]
<1>1. IsFiniteSet(live) /\ live \subseteq ID
  <2>1. live \subseteq ID
    BY DEF Indexed
  <2> QED BY <2>1, FileAssumption, FS_Subset
<1>2. c \in Nat /\ IsFiniteSet(1 .. c) /\ Cardinality(1 .. c) = c
  <2>1. c \in Nat
    <3> HIDE DEF live
    <3> QED BY <1>1, FS_CardinalityType
  <2> HIDE DEF c
  <2>2. 1 \in Int /\ c \in Int
    BY <2>1
  <2>3. IsFiniteSet(1 .. c) /\ Cardinality(1 .. c) = IF 1 > c THEN 0 ELSE c - 1 + 1
    BY <2>2, FS_Interval
  <2> QED BY <2>1, <2>3
<1>3. s \in Injection(1 .. c, live)
  <2>1. s \in Surjection(1 .. c, live)
    <3>1. s \in [1 .. c -> live] /\ DOMAIN s = 1 .. c
      OBVIOUS
    <3>2. \A x \in live : x \in {s[i] : i \in DOMAIN s}
      OBVIOUS
    <3>3. \A x \in live : \E i \in 1 .. c : s[i] = x
      BY <3>1, <3>2
    <3> HIDE DEF c, live
    <3> QED BY <3>1, <3>3 DEF Surjection
  <2> HIDE DEF c, live
  <2>2. Cardinality(1 .. c) = Cardinality(live)
    BY <1>2 DEF c
  <2> QED BY <1>2, <2>1, <2>2, FS_SurjSameCardinalityImpliesInj
<1>4. /\ \A i \in 1 .. c : s[i] \in live
      /\ \A i, j \in 1 .. c : s[i] = s[j] => i = j
      /\ \A x \in live : \E i \in 1 .. c : s[i] = x
      /\ DOMAIN g = 1 .. c
      /\ \A i \in 1 .. c : g[i].id = s[i] /\ g[i].val = Current(s[i])
  <2>1. \A i, j \in 1 .. c : s[i] = s[j] => i = j
    <3> HIDE DEF c, live
    <3> QED BY <1>3 DEF Injection, IsInjective
  <2>2. s \in [1 .. c -> live] /\ DOMAIN s = 1 .. c
    OBVIOUS
  <2>3. DOMAIN g = 1 .. c /\ \A i \in 1 .. c : g[i].id = s[i] /\ g[i].val = Current(s[i])
    BY <2>2
  <2>4. \A x \in live : \E i \in 1 .. c : s[i] = x
    BY <2>2
  <2> QED BY <2>1, <2>2, <2>3, <2>4
<1>5. /\ \A id \in ID : id \in live <=> Recovered(file)[id] # None
      /\ \A id \in live : Current(id) = Recovered(file)[id]
  <2>1. file \in Seq(Record \cup {Torn}) /\ offsets = RebuiltOffsets(file)
    BY InvParts DEF StoreTypeOK, IndexMatchesFile
  <2>2. \A id \in ID : Recovered(file)[id] # None <=> offsets[id] # 0
    BY <2>1, RecoveredIs
  <2>3. \A id \in ID : offsets[id] # 0 => offsets[id] \in DOMAIN file /\ Recovered(file)[id] = file[offsets[id]].val
    BY <2>1, RecoveredIs
  <2> QED BY <2>2, <2>3 DEF Indexed, Current
<1> HIDE DEF c, live, g
<1>6. Compacted(g, Recovered(file))
  BY <1>1, <1>4, <1>5 DEF Compacted
<1> QED BY <1>6 DEF g

LEMMA CompactSyncIndex == ASSUME Healthy, FileInv, IndexInv, CompactSync PROVE IndexInv'
<1>1. pc = "maybeCompact" /\ handle = "open" /\ IndexMatchesFile
  BY DEF CompactSync, IndexInv
<1>2. CASE Fail
  BY <1>1, <1>2, FailIndex
<1>3. CASE ~Fail
  <2>1. /\ pc' = "tmp" /\ UNCHANGED <<file, handle, offsets, writes, stale, req, booting>>
        /\ \E s \in [1 .. Cardinality(Indexed(offsets)) -> Indexed(offsets)] :
             /\ {s[i] : i \in DOMAIN s} = Indexed(offsets)
             /\ newFile' = [i \in DOMAIN s |-> [id |-> s[i], val |-> Current(s[i])]]
    BY <1>3 DEF CompactSync, Healthy
  <2>2. Compacted(newFile', Recovered(file))
    BY <1>1, <2>1, LiveRecords
  <2>3. CompactInv'
    BY <2>1, <2>2 DEF CompactInv
  <2>4. PlainInv' /\ RequestInv'
    BY <1>1, <2>1, IndexParts DEF PlainInv, RequestInv, IndexMatchesFile, Booted
  <2> QED BY <2>3, <2>4, IndexPartsNext
<1> QED BY <1>2, <1>3

LEMMA CompactTmpIndex == ASSUME IndexInv, CompactTmp PROVE IndexInv'
<1>1. pc = "tmp"
  BY DEF CompactTmp
<1>2. CASE Fail
  BY <1>1, <1>2, FailIndex
<1>3. CASE pc' = "close" /\ UNCHANGED <<storeVars, hot, req, booting, newFile, readVars>>
  <2>1. UNCHANGED <<file, handle, offsets, writes, stale, req, booting, newFile>>
    BY <1>3 DEF storeVars
  <2> QED BY <1>1, <1>3, <2>1 DEF IndexInv, IndexMatchesFile, Booted
<1> QED BY <1>2, <1>3 DEF CompactTmp

LEMMA CompactCloseIndex == ASSUME IndexInv, CompactClose PROVE IndexInv'
<1>1. pc = "close"
  BY DEF CompactClose
<1>2. CASE LoseMemory
  BY <1>2, LoseMemoryIndex
<1>3. CASE Finish /\ handle' = "closed" /\ UNCHANGED <<file, offsets, writes, stale>>
  BY <1>1, <1>3, FinishIndex DEF Booted
<1>4. CASE /\ pc' = "rename" /\ handle' = "closed"
           /\ UNCHANGED <<file, offsets, writes, stale, req, booting, newFile>>
  BY <1>1, <1>4 DEF IndexInv, IndexMatchesFile, Booted
<1> QED BY <1>2, <1>3, <1>4 DEF CompactClose

\* The compacted file has what the data file had.
LEMMA RenameKeeps ==
  ASSUME FileInv, IndexInv, pc = "rename"
  PROVE  Recovered(newFile) = Recovered(file)
<1>1. file \in Seq(Record \cup {Torn}) /\ newFile \in Seq(Record)
  BY InvParts DEF StoreTypeOK, ReqTypeOK
<1>2. Compacted(newFile, Recovered(file))
  BY DEF IndexInv
<1>3. PICK m \in [ID -> Val \cup {None}] : m = Recovered(file)
  BY <1>1, RecoveredIs
<1>4. Recovered(newFile) = m
  BY <1>1, <1>2, <1>3, CompactedRebuild
<1> QED BY <1>3, <1>4

LEMMA CompactRenameIndex == ASSUME FileInv, IndexInv, CompactRename PROVE IndexInv'
<1>1. pc = "rename" /\ handle = "closed" /\ Booted
  BY InvParts DEF CompactRename, RequestOK, Booted
<1>2. CASE Fail
  BY <1>1, <1>2, FailIndex
<1>3. CASE /\ file' = newFile /\ pc' = "reopen"
           /\ UNCHANGED <<handle, offsets, writes, stale, req, booting, newFile>>
  <2>1. Recovered(file') = Recovered(file)
    BY <1>1, <1>3, RenameKeeps
  <2>2. PlainInv'
    BY <1>1, <1>3, <2>1, IndexParts DEF PlainInv, IndexMatchesFile
  <2>3. RequestInv'
    BY <1>1, <1>3, IndexParts DEF RequestInv
  <2>4. CompactInv'
    BY <1>1, <1>3, <2>1, IndexParts DEF CompactInv
  <2> QED BY <2>2, <2>3, <2>4, IndexPartsNext
<1> QED BY <1>2, <1>3 DEF CompactRename

LEMMA CompactSwapIndex == ASSUME FileInv, IndexInv, CompactSwap PROVE IndexInv'
<1>1. /\ pc = "reopen" /\ handle' = "open" /\ offsets' = RebuiltOffsets(newFile)
      /\ writes' = Len(newFile) /\ stale' = 0 /\ Continue /\ file' = file /\ Booted
  BY DEF CompactSwap, Booted
<1>2. file \in Seq(Record \cup {Torn}) /\ newFile \in Seq(Record) /\ file = newFile
  BY <1>1, InvParts DEF StoreTypeOK, ReqTypeOK, RequestOK
<1>3. RebuiltStale(file) = 0
  <2>1. Compacted(newFile, Recovered(file))
    BY <1>1 DEF IndexInv
  <2>2. PICK m \in [ID -> Val \cup {None}] : m = Recovered(file)
    BY <1>2, RecoveredIs
  <2>3. RebuiltStale(newFile) = 0
    BY <1>2, <2>1, <2>2, CompactedRebuild
  <2> QED BY <1>2, <2>3
<1>4. req # <<>> /\ req[1].val = None => Len(req) = 1 /\ offsets'[req[1].id] # 0
  BY <1>1, <1>2, DeleteIndexed
<1>5. RequestInv' /\ CompactInv' /\ pc' \in {"idle", "write"}
  BY <1>1, <1>4, ContinueRequest, IndexParts
<1>6. PlainInv'
  <2>1. IndexMatchesFile'
    BY <1>1, <1>2, <1>3 DEF IndexMatchesFile
  <2>2. \A id \in ID : offsets'[id] # 0 <=> Recovered(file')[id] # None
    BY <1>1, <1>2, RecoveredIs
  <2> QED BY <1>1, <2>1, <2>2 DEF PlainInv
<1> QED BY <1>5, <1>6, IndexPartsNext

LEMMA CloseIndex == ASSUME IndexInv, Close PROVE IndexInv'
<1>1. pc = "idle" /\ handle' = "nil" /\ UNCHANGED <<file, offsets, writes, stale, pc, req, booting, newFile>>
  BY DEF Close, reqVars
<1> QED BY <1>1 DEF IndexInv, IndexMatchesFile, Booted

LEMMA IndexInit == Init => IndexInv
<1> SUFFICES ASSUME Init PROVE IndexInv
  OBVIOUS
<1>1. handle = "nil" /\ pc = "down" /\ req = <<>> /\ ~booting
  BY DEF Init
<1> QED BY <1>1 DEF IndexInv, IndexMatchesFile, Booted

LEMMA IndexNext == ASSUME Healthy, FileInv, IndexInv, [Next]_vars PROVE IndexInv'
<1>1. CASE UNCHANGED vars
  BY <1>1, IndexKept DEF vars
<1>2. CASE Start \/ OpenOK \/ OpenFails
  BY <1>2, StartIndex, OpenOKIndex, FailIndex DEF OpenFails
<1>3. ASSUME NEW ops \in Requests, Begin(ops) PROVE IndexInv'
  BY <1>3, BeginIndex
<1>4. CASE WriteOK \/ WriteFails \/ SyncStep
  BY <1>4, WriteOKIndex, WriteFailsIndex, SyncStepIndex
<1>5. CASE Compacting
  BY <1>5, NoCompactionIndex, CompactSyncIndex, CompactTmpIndex, CompactCloseIndex,
     CompactRenameIndex, CompactSwapIndex, FailIndex DEF Compacting, CompactReopenFails
<1>6. CASE Close \/ Crash \/ CrashWhileWriting
  BY <1>6, CloseIndex, LoseMemoryIndex DEF Crash, CrashWhileWriting
<1>7. ASSUME NEW r \in Reader, NEW id \in ID, NEW hot32 \in BOOLEAN, ReadBegin(r, id, hot32)
      PROVE  IndexInv'
  BY <1>7, IndexKept DEF ReadBegin
<1>8. CASE Reading
  BY <1>8, IndexKept DEF Reading, ReadHot, ReadFile, ReadPutHot, ReadReturn
<1> QED BY <1>1, <1>2, <1>3, <1>4, <1>5, <1>6, <1>7, <1>8, Zenon DEF Next, Requests

\* As long as no write and no read of the file fails, the offsets and both
\* counters that upserts, deletes, batches and compactions maintain are, while
\* the handle is open, what rebuildFileVectorStoreIndex would compute from the
\* file; crashes at any step (inside a write too), and failing fsyncs, closes,
\* renames and reopenings included.
THEOREM IndexIsExact ==
  ASSUME Healthy
  PROVE  Spec => []IndexMatchesFile
<1>1. Init => FileInv /\ IndexInv
  BY FileInit, IndexInit
<1>2. FileInv /\ IndexInv /\ [Next]_vars => (FileInv /\ IndexInv)'
  BY FileNext, IndexNext
<1>3. IndexInv => IndexMatchesFile
  BY DEF IndexInv
<1> QED BY <1>1, <1>2, <1>3, PTL DEF Spec

\* Under the same condition only the write of a request changes what a restart
\* would find: no step of an open, an fsync, a compaction, a Close or a crash
\* loses a vector or brings one back.
THEOREM OnlyWritesChange ==
  ASSUME Healthy
  PROVE  Spec => OnlyWritesChangeContents
<1>1. Init => FileInv /\ IndexInv
  BY FileInit, IndexInit
<1>2. FileInv /\ IndexInv /\ [Next]_vars => (FileInv /\ IndexInv)'
  BY FileNext, IndexNext
<1>3. ASSUME FileInv, IndexInv, Next, pc # "write" PROVE Recovered(file') = Recovered(file)
  <2>1. CASE CompactRename
    <3>1. pc = "rename" /\ file' \in {file, newFile}
      BY <2>1 DEF CompactRename, Fail, storeVars
    <3> QED BY <1>3, <3>1, RenameKeeps
  <2>2. CASE ~CompactRename
    <3>1. file' = file
      <4>1. CASE Start \/ OpenOK \/ OpenFails \/ SyncStep \/ Close \/ Crash
        BY <4>1 DEF Start, OpenOK, OpenFails, SyncStep, Close, Crash, Fail, storeVars
      <4>2. CASE Compacting
        BY <2>2, <4>2 DEF Compacting, NoCompaction, CompactSync, CompactTmp, CompactClose,
           CompactSwap, CompactReopenFails, Fail, storeVars
      <4>3. CASE \E ops \in Requests : Begin(ops)
        BY <4>3 DEF Begin, storeVars
      <4>4. CASE \E r \in Reader, id \in ID, hot32 \in BOOLEAN : ReadBegin(r, id, hot32)
        BY <4>4 DEF ReadBegin, storeVars
      <4>5. CASE Reading
        BY <4>5 DEF Reading, ReadHot, ReadFile, ReadPutHot, ReadReturn, storeVars
      <4>6. ~(WriteOK \/ WriteFails \/ CrashWhileWriting)
        BY <1>3 DEF WriteOK, WriteFails, CrashWhileWriting
      <4> QED BY <1>3, <4>1, <4>2, <4>3, <4>4, <4>5, <4>6, Zenon DEF Next, Requests
    <3> QED BY <3>1
  <2> QED BY <2>1, <2>2
<1>4. FileInv /\ IndexInv /\ [Next]_vars => [Recovered(file') # Recovered(file) => pc = "write"]_vars
  BY <1>3
<1> QED BY <1>1, <1>2, <1>4, PTL DEF Spec, OnlyWritesChangeContents
============================================================================
