--------------------------- MODULE VectorService ---------------------------
(***************************************************************************)
(* The core service in memory mode (internal/core/service.go): the exact   *)
(* index, the payload store, the ANN index, the ID resolver and the        *)
(* snapshot + WAL backend, and the writes, crashes and restarts that keep  *)
(* them together.  persistMu serialises the writes, so at most one request *)
(* is in progress; its steps are separate actions because readers and      *)
(* crashes fall between them.  pc is where the holder of persistMu (or the *)
(* starting process) is.                                                   *)
(*                                                                         *)
(* A request that is refused without touching anything (an empty batch, a  *)
(* blank id to delete, an unknown id) is no step of this module.           *)
(***************************************************************************)
EXTENDS Persistence, Integers, FiniteSets

CONSTANTS
  BlankID,        \* an identifier of white space only
  Dim,            \* the number of components of each payload
  MaxVectorDim,   \* limits.max_vector_dim
  SnapshotEvery,  \* database.snapshot_every
  RebuildMin,     \* annDeleteRebuildMinDeleted
  MaxBatch,       \* bound: vectors in one AddVectors call
  MaxWAL,         \* bound: a write begins only with a shorter log
  MaxPersistOps,  \* bound: a write begins only with a smaller persistOps
  MaxInternal     \* bound: no write begins after more internal ids were assigned

ASSUME ServiceAssumption ==
  /\ BlankID \notin ID \cup {None}
  /\ Dim \in [Val -> Nat]
  /\ MaxVectorDim \in Nat \ {0}
  /\ SnapshotEvery \in Nat \ {0}
  /\ RebuildMin \in Nat
  /\ MaxBatch \in Nat \ {0} /\ MaxWAL \in Nat /\ MaxPersistOps \in Nat /\ MaxInternal \in Nat
  /\ IsFiniteSet(ID)

VARIABLES
  index,          \* index.Index: the exact index
  store,          \* the VectorStore, memory mode
  ann,            \* the current ann.AnnIndex: dimension, vectors, tombstones
  idToInternal,   \* memoryIDResolver.idToInternal; 0 is "not assigned"
  nextInternal,   \* memoryIDResolver.nextInternal
  persistOps,     \* writes since the last snapshot
  pc, batch, cur, \* the request in progress and the position in it
  saved,          \* DeleteVector's vec: the payload being deleted
  allowed,        \* history: what a client may hold each id to be
  aborted,        \* history: some recovery gave up before its end
  unread          \* history: some recovery could not read a file

memVars == <<index, store, ann, idToInternal, nextInternal>>
reqVars == <<batch, cur, saved>>
histVars == <<allowed, aborted, unread>>
vars == <<diskVars, memVars, persistOps, pc, reqVars, histVars>>

EmptyAnn == [dim |-> 0, vec |-> <<>>, dead |-> {}]
Unassigned == [id \in ID |-> 0]

Vector == [id : ID \cup {BlankID}, val : Val]
Batches == UNION {[1 .. n -> Vector] : n \in 1 .. MaxBatch}

PCs == {"down", "load", "replay", "restoreSave", "restoreTrunc", "idle",
        "index", "upsert", "ann", "rollback", "delIndex", "delStore", "delAnn",
        "wal", "snap", "sync", "save", "trunc"}

----------------------------------------------------------------------------
(* The four in-memory structures.                                          *)

Put(map, id, val) == [map EXCEPT ![id] = val]
Drop(map, id) == [map EXCEPT ![id] = None]
Live(map) == {id \in ID : map[id] # None}

\* The ids of the request in progress, and the maps it produces.
BatchIDs == {batch[i].id : i \in DOMAIN batch}
Overwrite(map, ops) ==
  [id \in ID |-> IF \E i \in DOMAIN ops : ops[i].id = id
                 THEN ops[CHOOSE i \in DOMAIN ops : ops[i].id = id].val
                 ELSE map[id]]

\* The nodes of an ANN index, by internal id, tombstones included.
AnnNodes(a) == DOMAIN a.vec

\* ann.AddVector: the first vector fixes the dimension of the index.
AnnAccepts(a, val) == Dim[val] > 0 /\ (a.dim = 0 \/ a.dim = Dim[val])
AnnAdd(a, n, val) ==
  [dim |-> Dim[val], dead |-> a.dead \ {n},
   vec |-> [m \in AnnNodes(a) \cup {n} |-> IF m = n THEN val ELSE a.vec[m]]]
\* Mutant of AnnDelete: the tombstone is forgotten.
AnnDeleteForgotten(a, n) == a

\* Mutant of AnnDelete: a tombstone for an internal id without a node.
AnnDeleteUnchecked(a, n) == [dim |-> a.dim, vec |-> a.vec, dead |-> a.dead \cup {n}]

\* ann.DeleteVector leaves a tombstone.
AnnDelete(a, n) ==
  [dim |-> a.dim, vec |-> a.vec,
   dead |-> IF n \in AnnNodes(a) THEN a.dead \cup {n} ELSE a.dead]

\* Mutant of AssignID: the next internal id is the number of known ids.
AssignIDByCount(id) ==
  LET n == Cardinality({x \in ID : idToInternal[x] # 0}) + 1 IN
  /\ UNCHANGED nextInternal
  /\ idToInternal' = IF idToInternal[id] = 0
                     THEN [idToInternal EXCEPT ![id] = n] ELSE idToInternal

\* idResolver.Assign of one id.
AssignID(id) ==
  /\ nextInternal' = IF idToInternal[id] = 0 THEN nextInternal + 1 ELSE nextInternal
  /\ idToInternal' = IF idToInternal[id] = 0
                     THEN [idToInternal EXCEPT ![id] = nextInternal + 1]
                     ELSE idToInternal

\* idResolver.Assign of several ids, in the order a Go map yields them.
AssignAll(ids, resolver, next) ==
  LET fresh == {id \in ids : resolver[id] = 0}
  IN  /\ nextInternal' = next + Cardinality(fresh)
      /\ \E f \in [fresh -> (next + 1) .. (next + Cardinality(fresh))] :
           /\ \A x, y \in fresh : f[x] = f[y] => x = y
           /\ idToInternal' = [id \in ID |-> IF id \in fresh THEN f[id] ELSE resolver[id]]

\* A new ANN index over the ids of `members`, under the internal ids
\* that AssignAll gave them.
AnnOver(map, members, d) ==
  [dim |-> d, dead |-> {},
   vec |-> [n \in {idToInternal'[id] : id \in members} |->
              map[CHOOSE id \in members : idToInternal'[id] = n]]]

\* rebuildANNLocked: the first vector listed fixes the dimension, and an
\* AddVector that fails because of it is ignored.
RebuildANN(idx, resolver, next) ==
  /\ AssignAll(Live(idx), resolver, next)
  /\ IF Live(idx) = {}
     THEN ann' = EmptyAnn
     ELSE \E d \in {Dim[idx[id]] : id \in Live(idx)} :
            ann' = AnnOver(idx, {id \in Live(idx) : Dim[idx[id]] = d}, d)

\* maybeCompactANNAfterDeleteLocked: at least RebuildMin tombstones that are
\* a quarter of the nodes.
ShouldRebuild(a) ==
  /\ Cardinality(a.dead) >= RebuildMin
  /\ AnnNodes(a) # {}
  /\ 4 * Cardinality(a.dead) >= Cardinality(AnnNodes(a))

----------------------------------------------------------------------------
(* The history: the request may take effect once it reaches the log; it    *)
(* has taken effect when the client is told so.                            *)

MayTakeEffect ==
  /\ UNCHANGED <<aborted, unread>>
  /\ allowed' = [id \in ID |-> IF id \in BatchIDs
                               THEN allowed[id] \cup {Overwrite(EmptyMap, batch)[id]}
                               ELSE allowed[id]]

Return ==
  /\ pc' = "idle"
  /\ batch' = <<>> /\ cur' = 0 /\ saved' = None

ReturnOK ==
  /\ Return
  /\ UNCHANGED <<aborted, unread>>
  /\ allowed' = [id \in ID |-> IF id \in BatchIDs
                               THEN {Overwrite(EmptyMap, batch)[id]}
                               ELSE allowed[id]]

ReturnError ==
  /\ Return
  /\ UNCHANGED histVars

----------------------------------------------------------------------------
(* AddVectors.                                                             *)

AddVectors(b) ==
  /\ pc = "idle"
  /\ Len(wal) < MaxWAL /\ persistOps < MaxPersistOps
  /\ nextInternal <= MaxInternal
  /\ pc' = "index" /\ batch' = b /\ cur' = 1
  /\ UNCHANGED <<diskVars, memVars, persistOps, saved, histVars>>

\* The checks AddVectors makes of each vector before the index sees it.
Valid(vec) ==
  /\ vec.id # BlankID
  /\ Dim[vec.val] > 0
  /\ Dim[vec.val] <= MaxVectorDim

\* index.AddVector of one vector.
AddToIndex ==
  LET vec == batch[cur] IN
  /\ pc = "index"
  /\ Valid(vec)
  /\ index[vec.id] = None
  /\ index' = Put(index, vec.id, vec.val)
  /\ cur' = cur + 1
  /\ pc' = IF cur = Len(batch) THEN "upsert" ELSE "index"
  /\ UNCHANGED <<diskVars, store, ann, idToInternal, nextInternal, persistOps,
                 batch, saved, histVars>>

\* Mutant of RefuseVector: the refused vector is undone too.
RefuseVectorUndoesItToo ==
  LET vec == batch[cur] IN
  /\ pc = "index"
  /\ Valid(vec) /\ index[vec.id] # None
  /\ pc' = "rollback"
  /\ batch' = SubSeq(batch, 1, cur) /\ cur' = 1
  /\ UNCHANGED <<diskVars, memVars, persistOps, saved, histVars>>

\* A vector is refused: the ones indexed before it (addedIDs) are undone.
RefuseVector ==
  LET vec == batch[cur] IN
  /\ pc = "index"
  /\ Valid(vec) => index[vec.id] # None
  /\ pc' = "rollback"
  /\ batch' = SubSeq(batch, 1, cur - 1) /\ cur' = 1
  /\ UNCHANGED <<diskVars, memVars, persistOps, saved, histVars>>

\* upsertVectors: one batch call, under one lock of the memory store.
UpsertVectors ==
  /\ pc = "upsert"
  /\ store' = Overwrite(store, batch)
  /\ pc' = "ann" /\ cur' = 1
  /\ UNCHANGED <<diskVars, index, ann, idToInternal, nextInternal, persistOps,
                 batch, saved, histVars>>

AddToANN ==
  LET vec == batch[cur] IN
  /\ pc = "ann"
  /\ AssignID(vec.id)
  /\ AnnAccepts(ann, vec.val)
  /\ ann' = AnnAdd(ann, idToInternal'[vec.id], vec.val)
  /\ cur' = cur + 1
  /\ pc' = IF cur = Len(batch) THEN "wal" ELSE "ann"
  /\ UNCHANGED <<diskVars, index, store, persistOps, batch, saved, histVars>>

\* Mutant of RefuseByANN: the error of addANNVector is ignored.
RefuseByANNIgnored ==
  LET vec == batch[cur] IN
  /\ pc = "ann"
  /\ AssignID(vec.id)
  /\ ~AnnAccepts(ann, vec.val)
  /\ cur' = cur + 1
  /\ pc' = IF cur = Len(batch) THEN "wal" ELSE "ann"
  /\ UNCHANGED <<diskVars, index, store, ann, persistOps, batch, saved, histVars>>

\* The ANN index has another dimension: the vector is dropped, then the batch.
RefuseByANN ==
  LET vec == batch[cur] IN
  /\ pc = "ann"
  /\ AssignID(vec.id)
  /\ ~AnnAccepts(ann, vec.val)
  /\ store' = Drop(store, vec.id)
  /\ index' = Drop(index, vec.id)
  /\ pc' = "rollback" /\ cur' = 1
  /\ UNCHANGED <<diskVars, ann, persistOps, batch, saved, histVars>>

\* Mutant of RollbackOne: only the payload is deleted.
RollbackOnePayload ==
  /\ pc = "rollback"
  /\ cur <= Len(batch)
  /\ store' = Drop(store, batch[cur].id)
  /\ cur' = cur + 1
  /\ UNCHANGED <<diskVars, index, ann, idToInternal, nextInternal, persistOps, pc,
                 batch, saved, histVars>>

\* rollbackAddedVectors, one id at a time (the resolver keeps the ids).
RollbackOne ==
  /\ pc = "rollback"
  /\ cur <= Len(batch)
  /\ store' = Drop(store, batch[cur].id)
  /\ index' = Drop(index, batch[cur].id)
  /\ cur' = cur + 1
  /\ UNCHANGED <<diskVars, ann, idToInternal, nextInternal, persistOps, pc, batch,
                 saved, histVars>>

\* Mutant of RollbackDone: the ANN index is not rebuilt.
RollbackDoneNoRebuild ==
  /\ pc = "rollback"
  /\ cur > Len(batch)
  /\ ReturnError
  /\ UNCHANGED <<diskVars, memVars, persistOps>>

RollbackDone ==
  /\ pc = "rollback"
  /\ cur > Len(batch)
  /\ RebuildANN(index, idToInternal, nextInternal)
  /\ ReturnError
  /\ UNCHANGED <<diskVars, index, store, persistOps>>

----------------------------------------------------------------------------
(* DeleteVector.                                                           *)

DeleteVector(id) ==
  /\ pc = "idle"
  /\ Len(wal) < MaxWAL /\ persistOps < MaxPersistOps
  /\ nextInternal <= MaxInternal
  /\ store[id] # None
  /\ pc' = "delIndex" /\ saved' = store[id]
  /\ batch' = <<[id |-> id, val |-> None]>> /\ cur' = 1
  /\ UNCHANGED <<diskVars, memVars, persistOps, histVars>>

\* index.DeleteVector cannot fail: the index holds what the store holds
\* whenever persistMu is free (IndexMatchesStore).
DeleteFromIndex ==
  LET id == batch[1].id IN
  /\ pc = "delIndex"
  /\ index[id] # None
  /\ index' = Drop(index, id)
  /\ pc' = "delStore"
  /\ UNCHANGED <<diskVars, store, ann, idToInternal, nextInternal, persistOps,
                 reqVars, histVars>>

\* vectorStore.DeleteVector cannot fail here: the payload was just read and
\* persistMu is held.
DeleteFromStore ==
  /\ pc = "delStore"
  /\ store' = Drop(store, batch[1].id)
  /\ pc' = "delAnn"
  /\ UNCHANGED <<diskVars, index, ann, idToInternal, nextInternal, persistOps,
                 reqVars, histVars>>

\* Assign, the tombstone, and Remove.
DeleteFromANN ==
  LET id == batch[1].id
      n  == IF idToInternal[id] = 0 THEN nextInternal + 1 ELSE idToInternal[id]
  IN
  /\ pc = "delAnn"
  /\ ann' = AnnDelete(ann, n)
  /\ nextInternal' = IF idToInternal[id] = 0 THEN n ELSE nextInternal
  /\ idToInternal' = [idToInternal EXCEPT ![id] = 0]
  /\ pc' = "wal"
  /\ UNCHANGED <<diskVars, index, store, persistOps, reqVars, histVars>>

----------------------------------------------------------------------------
(* The log, then the snapshot: the end of both requests.                   *)

IsDelete == batch[1].val = None

LogOK ==
  /\ pc = "wal"
  /\ AppendOK(batch)
  /\ MayTakeEffect
  /\ IF IsDelete /\ ShouldRebuild(ann)
     THEN RebuildANN(index, idToInternal, nextInternal)
     ELSE UNCHANGED <<ann, idToInternal, nextInternal>>
  /\ pc' = "snap"
  /\ UNCHANGED <<index, store, persistOps, reqVars>>

LogFailsAdd ==
  /\ pc = "wal"
  /\ ~IsDelete
  /\ AppendFails(batch)
  /\ MayTakeEffect
  /\ pc' = "rollback" /\ cur' = 1
  /\ UNCHANGED <<memVars, persistOps, batch, saved>>

\* Mutant of LogFailsDelete: only the payload is put back.
LogFailsDeletePayload ==
  /\ pc = "wal"
  /\ IsDelete
  /\ AppendFails(batch)
  /\ MayTakeEffect
  /\ store' = Put(store, batch[1].id, saved)
  /\ Return
  /\ UNCHANGED <<index, ann, idToInternal, nextInternal, persistOps>>

\* The deleted vector is put back, under a new internal id.
LogFailsDelete ==
  LET id == batch[1].id IN
  /\ pc = "wal"
  /\ IsDelete
  /\ AppendFails(batch)
  /\ MayTakeEffect
  /\ store' = Put(store, id, saved)
  /\ index' = Put(index, id, saved)
  /\ RebuildANN(index', [idToInternal EXCEPT ![id] = nextInternal + 1], nextInternal + 1)
  /\ Return
  /\ UNCHANGED persistOps

\* Mutant of SnapshotNotDue: the snapshot comes one write late.
SnapshotNotDueOffByOne ==
  /\ pc = "snap"
  /\ persistOps + 1 <= SnapshotEvery
  /\ persistOps' = persistOps + 1
  /\ ReturnOK
  /\ UNCHANGED <<diskVars, memVars>>

\* maybeSnapshot: not yet due.
SnapshotNotDue ==
  /\ pc = "snap"
  /\ persistOps + 1 < SnapshotEvery
  /\ persistOps' = persistOps + 1
  /\ ReturnOK
  /\ UNCHANGED <<diskVars, memVars>>

SnapshotDue ==
  /\ pc = "snap"
  /\ persistOps + 1 >= SnapshotEvery
  /\ persistOps' = persistOps + 1
  /\ pc' = "sync"
  /\ UNCHANGED <<diskVars, memVars, reqVars, histVars>>

SyncStep ==
  /\ pc = "sync"
  /\ \/ SyncOK /\ pc' = "save" /\ UNCHANGED <<reqVars, histVars>>
     \/ SyncFails /\ ReturnError
  /\ UNCHANGED <<memVars, persistOps>>

SaveStep ==
  /\ pc = "save"
  /\ \/ SaveSnapshotOK(store) /\ pc' = "trunc" /\ UNCHANGED <<reqVars, histVars>>
     \/ SaveSnapshotFails(store) /\ ReturnError
  /\ UNCHANGED <<memVars, persistOps>>

TruncateStep ==
  /\ pc = "trunc"
  /\ \/ TruncateOK /\ persistOps' = 0 /\ ReturnOK
     \/ TruncateFails /\ UNCHANGED persistOps /\ ReturnError
  /\ UNCHANGED memVars

----------------------------------------------------------------------------
(* Crash, and restoreState, whose errors NewServiceWithDeps ignores.       *)

LoseMemory ==
  /\ index' = EmptyMap /\ store' = EmptyMap /\ ann' = EmptyAnn
  /\ idToInternal' = Unassigned /\ nextInternal' = 0 /\ persistOps' = 0
  /\ pc' = "down"
  /\ batch' = <<>> /\ cur' = 0 /\ saved' = None

Crash ==
  /\ pc # "down"
  /\ LoseMemory
  /\ pendingOps' = 0
  /\ UNCHANGED <<snapshot, wal, tornTail, histVars>>

\* The process dies while AppendWALBatch is writing.
CrashWhileLogging ==
  /\ pc = "wal"
  /\ "torn" \in Faults
  /\ \E n \in 0 .. (Len(batch) - 1), part \in {"none", "some", "all"} :
       /\ \A i \in 1 .. Len(batch) : i <= n + 1 => Encodable(batch[i])
       /\ PartialAppend(batch, n, part)
  /\ MayTakeEffect
  /\ LoseMemory
  /\ pendingOps' = 0
  /\ UNCHANGED snapshot

Restart ==
  /\ pc = "down"
  /\ pc' = "load"
  /\ UNCHANGED <<diskVars, memVars, persistOps, reqVars, histVars>>

\* Entries loadSnapshot does not skip.
Loadable == {id \in ID : snapshot[id] # None /\ Dim[snapshot[id]] \in 1 .. MaxVectorDim}
Restricted(map, ids) == [id \in ID |-> IF id \in ids THEN map[id] ELSE None]

LoadSnapshotOK ==
  /\ pc = "load"
  /\ \A x, y \in Loadable : Dim[snapshot[x]] = Dim[snapshot[y]]
  /\ store' = Restricted(snapshot, Loadable)
  /\ index' = Restricted(snapshot, Loadable)
  /\ RebuildANN(index', Unassigned, 0)
  /\ pc' = "replay" /\ cur' = 1
  /\ UNCHANGED <<diskVars, persistOps, batch, saved, histVars>>

\* Payloads of two dimensions: the first `last` whose dimension differs from
\* the `done` loaded before it stops the load, and with it the recovery.
LoadSnapshotFails ==
  /\ pc = "load"
  /\ \E done \in SUBSET Loadable, last \in Loadable, d \in {Dim[val] : val \in Val} :
       /\ done # {} /\ last \notin done
       /\ \A x \in done : Dim[snapshot[x]] = d
       /\ Dim[snapshot[last]] # d
       /\ store' = Restricted(snapshot, done \cup {last})
       /\ index' = Restricted(snapshot, done \cup {last})
       /\ AssignAll(done \cup {last}, Unassigned, 0)
       /\ ann' = AnnOver(snapshot, done, d)
  /\ Return
  /\ aborted' = TRUE
  /\ UNCHANGED <<diskVars, persistOps, allowed, unread>>

\* LoadSnapshot returns an error: nothing is loaded and no line is replayed.
\* NewServiceWithDeps drops the error and serves the empty service.
LoadSnapshotUnreadable ==
  /\ pc = "load"
  /\ ReadFails
  /\ Return
  /\ aborted' = TRUE /\ unread' = TRUE
  /\ UNCHANGED <<memVars, persistOps, allowed>>

\* Mutant of ReplayLine: deletes are not replayed.
ReplayLineUpsertsOnly ==
  LET line == wal[cur] IN
  /\ pc = "replay"
  /\ cur <= Len(wal)
  /\ Readable(line)
  /\ IF line.val = None
     THEN UNCHANGED <<store, index>>
     ELSE /\ store' = Put(store, line.id, line.val)
          /\ index' = Put(index, line.id, line.val)
  /\ cur' = cur + 1
  /\ UNCHANGED <<diskVars, ann, idToInternal, nextInternal, persistOps, pc, batch,
                 saved, histVars>>

\* One line of the log.  An upsert of a vector over the limit is skipped.
ReplayLine ==
  LET line == wal[cur] IN
  /\ pc = "replay"
  /\ cur <= Len(wal)
  /\ Readable(line)
  /\ IF line.val # None /\ Dim[line.val] \notin 1 .. MaxVectorDim
     THEN UNCHANGED <<store, index>>
     ELSE /\ store' = Put(store, line.id, line.val)
          /\ index' = Put(index, line.id, line.val)
  /\ cur' = cur + 1
  /\ UNCHANGED <<diskVars, ann, idToInternal, nextInternal, persistOps, pc, batch,
                 saved, histVars>>

\* A line that cannot be read ends the recovery: no ANN rebuild, no snapshot.
ReplayStops ==
  /\ pc = "replay"
  /\ cur <= Len(wal)
  /\ ~Readable(wal[cur])
  /\ Return
  /\ aborted' = TRUE
  /\ UNCHANGED <<diskVars, memVars, persistOps, allowed, unread>>

\* ReplayWAL cannot open the log, or a read of it fails after some lines.
ReplayUnreadable ==
  /\ pc = "replay"
  /\ ReadFails
  /\ Return
  /\ aborted' = TRUE /\ unread' = TRUE
  /\ UNCHANGED <<memVars, persistOps, allowed>>

ReplayDone ==
  /\ pc = "replay"
  /\ cur > Len(wal)
  /\ RebuildANN(index, idToInternal, nextInternal)
  /\ pc' = "restoreSave" /\ cur' = 0
  /\ UNCHANGED <<diskVars, index, store, persistOps, batch, saved, histVars>>

RestoreSave ==
  /\ pc = "restoreSave"
  /\ \/ SaveSnapshotOK(store) /\ pc' = "restoreTrunc" /\ UNCHANGED <<reqVars, histVars>>
     \/ SaveSnapshotFails(store) /\ ReturnError
  /\ UNCHANGED <<memVars, persistOps>>

RestoreTruncate ==
  /\ pc = "restoreTrunc"
  /\ TruncateOK \/ TruncateFails
  /\ persistOps' = 0
  /\ ReturnError
  /\ UNCHANGED memVars

----------------------------------------------------------------------------
Init ==
  /\ snapshot = EmptyMap /\ wal = <<>> /\ tornTail = FALSE /\ pendingOps = 0
  /\ index = EmptyMap /\ store = EmptyMap /\ ann = EmptyAnn
  /\ idToInternal = Unassigned /\ nextInternal = 0 /\ persistOps = 0
  /\ pc = "down" /\ batch = <<>> /\ cur = 0 /\ saved = None
  /\ allowed = [id \in ID |-> {None}] /\ aborted = FALSE /\ unread = FALSE

Add == AddToIndex \/ RefuseVector \/ UpsertVectors \/ AddToANN \/ RefuseByANN
       \/ RollbackOne \/ RollbackDone
Delete == DeleteFromIndex \/ DeleteFromStore \/ DeleteFromANN
Log == LogOK \/ LogFailsAdd \/ LogFailsDelete
MaybeSnapshot == SnapshotNotDue \/ SnapshotDue \/ SyncStep \/ SaveStep \/ TruncateStep
RestoreState == LoadSnapshotOK \/ LoadSnapshotFails \/ LoadSnapshotUnreadable
                \/ ReplayLine \/ ReplayStops \/ ReplayUnreadable
                \/ ReplayDone \/ RestoreSave \/ RestoreTruncate

Next ==
  \/ \E b \in Batches : AddVectors(b)
  \/ \E id \in ID : DeleteVector(id)
  \/ Add \/ Delete \/ Log \/ MaybeSnapshot
  \/ Crash \/ CrashWhileLogging \/ Restart \/ RestoreState

Spec == Init /\ [][Next]_vars

----------------------------------------------------------------------------
TypeOK ==
  /\ PersistenceTypeOK
  /\ index \in Maps /\ store \in Maps
  /\ ann.dim \in Nat /\ AnnNodes(ann) \subseteq Nat /\ ann.dead \subseteq AnnNodes(ann)
  /\ ann.vec \in [AnnNodes(ann) -> Val]
  /\ idToInternal \in [ID -> Nat] /\ nextInternal \in Nat
  /\ persistOps \in Nat
  /\ pc \in PCs
  /\ batch \in Seq([id : ID \cup {BlankID}, val : Val \cup {None}])
  /\ cur \in Nat
  /\ saved \in Val \cup {None}
  /\ allowed \in [ID -> SUBSET (Val \cup {None})]
  /\ aborted \in BOOLEAN /\ unread \in BOOLEAN

\* Whenever no write is in progress, GetVector answers with an acknowledged
\* state: for each id the effect of the last acknowledged write, or that of a
\* later write which ended in an I/O error or a crash and so was neither
\* acknowledged nor refused.  Whatever fails, an acknowledged write can only
\* get lost through a recovery that gives up: the four actions of restoreState
\* that set aborted.
AckedWritesServed ==
  pc = "idle" /\ ~aborted => \A id \in ID : store[id] \in allowed[id]

\* A crash at any instant, in the middle of a write, of a snapshot or of a
\* recovery, leaves files from which a restart that reads the whole log
\* recovers an acknowledged state.
AllReadable == \A k \in DOMAIN wal : Readable(wal[k])
CrashSafe ==
  AllReadable /\ ~aborted => \A id \in ID : Recovered[id] \in allowed[id]

\* restoreState, whose error NewServiceWithDeps drops, gives up only when the
\* snapshot or the log cannot be read: what the service itself wrote before a
\* crash, a failed open, a failed snapshot or a failed truncation never stops
\* its recovery.
RecoveryCompletes == aborted => unread

\* The stronger reading of the two above, as the operations guide puts it:
\* the payloads are restored from snapshot + WAL.
AckedWritesRestored == pc = "idle" => \A id \in ID : store[id] \in allowed[id]

\* Whenever no write is in progress the exact index and the payload store
\* hold the same vectors, whatever failed on the way: reads by id and exact
\* searches answer from the same contents.
IndexMatchesStore == pc = "idle" => index = store

\* Likewise the ANN index reached through the resolver: every stored vector
\* is a live node under its internal id, and every live node is the current
\* payload of a stored vector.  A recovery that gives up in the log has put the
\* lines it read in the store and not in the ANN index.
ANNMatchesStore ==
  pc = "idle" /\ ~aborted =>
    /\ \A id \in Live(store) :
         /\ idToInternal[id] \in AnnNodes(ann) \ ann.dead
         /\ ann.vec[idToInternal[id]] = store[id]
    /\ \A n \in AnnNodes(ann) \ ann.dead : \E id \in Live(store) : idToInternal[id] = n

\* While the process lives an internal id is never given to a second vector
\* id, not even after Remove: an ANN result that is looked up late, or in an
\* index that was replaced meanwhile, cannot name another vector.
InternalIDsNotReused ==
  [][pc' # "down" =>
       /\ nextInternal' >= nextInternal
       /\ \A x \in ID : \/ idToInternal'[x] \in {0, idToInternal[x]}
                        \/ idToInternal'[x] \in (nextInternal + 1) .. nextInternal'
       /\ \A x, y \in ID : idToInternal'[x] = idToInternal'[y] /\ idToInternal'[x] # 0
                             => x = y]_vars

\* The log is compacted: between writes, fewer than SnapshotEvery writes have
\* been logged since the last snapshot.
LogCompacted ==
  pc = "idle" => persistOps < SnapshotEvery /\ Len(wal) <= persistOps * MaxBatch

----------------------------------------------------------------------------
\* The service implements the durable map: what a restart would recover
\* changes only when a whole request reaches the log, never because of a
\* snapshot, a truncation, a crash or a recovery, and it is what reads see,
\* until a recovery gives up.  That step itself still leaves the map alone.
Map == INSTANCE VectorMap WITH contents <- Recovered,
                               view <- IF pc = "idle" THEN store ELSE None,
                               lost <- aborted
ImplementsVectorMap == Map!MapSpec
============================================================================
