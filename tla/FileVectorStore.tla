-------------------------- MODULE FileVectorStore --------------------------
(***************************************************************************)
(* The append-only payload file of disk mode (internal/core/               *)
(* file_vector_store.go).  s.mu serialises the writes, so one request is   *)
(* in progress; its steps are separate because the process may die between *)
(* them and because a reader releases s.mu before it touches the file or   *)
(* the hot cache.  req is the request in progress, pc where it is.         *)
(*                                                                         *)
(* The data file is a sequence of records; Torn stands for the bytes of a  *)
(* record that was cut short.  An offset is the place of a record in that  *)
(* sequence.  Payloads are taken up to the rounding to float32 which both  *)
(* the encoding and the hot cache apply.  What a power failure takes from  *)
(* the page cache is not modelled.                                         *)
(***************************************************************************)
EXTENDS Naturals, Sequences, FiniteSets, SequencesExt

CONSTANTS
  ID, Val,     \* vector identifiers and payloads
  None,        \* "no vector"; as the payload of a record: a delete
  Err,         \* the answer of a read that failed with another error
  Reader,      \* goroutines that read
  SyncEvery,   \* fsync after this many records
  HotMax,      \* hotMaxItems
  Faults,      \* the failures the environment may choose, from AllFaults
  MaxBatch,    \* bound: records in one request
  MaxFile      \* bound: no request begins with a longer file

\* A failing write(2), a process that dies inside one, a failing fsync, read
\* of a record, write of the compacted file, close, rename, and opening (of the
\* directory and the file, or its first seek) or reopening.
AllFaults == {"write", "torn", "sync", "read", "tmp", "close", "rename", "reopen"}

ASSUME FileAssumption ==
  /\ None \notin ID \cup Val /\ Err \notin Val \cup {None}
  /\ SyncEvery \in Nat \ {0} /\ HotMax \in Nat \ {0}
  /\ Faults \subseteq AllFaults
  /\ MaxBatch \in Nat /\ MaxFile \in Nat
  /\ IsFiniteSet(ID)

VARIABLES
  file,        \* the data file
  handle,      \* s.file: "nil", "open", or "closed" (not nil, but closed)
  offsets,     \* s.offsets: the place of the current record of an id, or 0
  writes, stale, pending,
  hot,         \* the hot cache, the most recently used entry first
  pc, req,
  booting,     \* the request is the constructor, which panics on an error
  newFile,     \* the compacted file before it replaces the data file
  rpc, rid, at, \* each reader: where it is, the id it reads, its offset
  rval,        \* each reader: what it has read
  attached,    \* each reader: the handle it holds is still open
  wantHot,     \* each reader: it came by GetVectorReadOnly32
  seen         \* history: what the id has been since the read began

storeVars == <<file, handle, offsets, writes, stale, pending>>
reqVars == <<pc, req, booting, newFile>>
readVars == <<rpc, rid, at, rval, attached, wantHot, seen>>
vars == <<storeVars, hot, reqVars, readVars>>

Torn == [id |-> None, val |-> None]
Record == [id : ID, val : Val \cup {None}]
Put == [id : ID, val : Val]
Batches == UNION {[1 .. n -> Put] : n \in 1 .. MaxBatch}
Deletes == {<<[id |-> id, val |-> None]>> : id \in ID}

NoOffsets == [id \in ID |-> 0]
Indexed(offs) == {id \in ID : offs[id] # 0}

\* What the store answers for an id while its handle is open.  (After a failed
\* reopening the offsets are those of the file before the compaction.)
Current(id) == IF offsets[id] \in DOMAIN file THEN file[offsets[id]].val ELSE None

----------------------------------------------------------------------------
(* rebuildFileVectorStoreIndex.                                            *)

Clean(f) == \A k \in DOMAIN f : f[k] # Torn

\* The place of the last record of id before place n, or 0.
LastBefore(f, id, n) ==
  IF \E k \in 1 .. (n - 1) : f[k].id = id
  THEN CHOOSE k \in 1 .. (n - 1) :
         f[k].id = id /\ \A j \in (k + 1) .. (n - 1) : f[j].id # id
  ELSE 0

\* The offset of an id after the records before place n were read.
OffsetBefore(f, id, n) ==
  LET k == LastBefore(f, id, n) IN IF k = 0 \/ f[k].val = None THEN 0 ELSE k

RebuiltOffsets(f) == [id \in ID |-> OffsetBefore(f, id, Len(f) + 1)]

\* staleRecords: the deletes, and the puts of an id that had an offset.
RebuiltStale(f) ==
  Cardinality({k \in DOMAIN f : f[k].val = None \/ OffsetBefore(f, f[k].id, k) # 0})

\* What a restart would find.
Recovered(f) ==
  [id \in ID |-> IF RebuiltOffsets(f)[id] = 0 THEN None
                 ELSE f[RebuiltOffsets(f)[id]].val]

----------------------------------------------------------------------------
(* The hot cache.                                                          *)

HotWithout(h, id) == RemoveFirstMatch(h, LAMBDA e : e.id = id)

HotPut(h, id, val) ==
  LET h2 == <<[id |-> id, val |-> val]>> \o HotWithout(h, id)
  IN  SubSeq(h2, 1, IF Len(h2) > HotMax THEN HotMax ELSE Len(h2))
IsHot(id) == \E i \in DOMAIN hot : hot[i].id = id
HotVal(id) == hot[CHOOSE i \in DOMAIN hot : hot[i].id = id].val

\* putHotVector of each record of a batch, in order.
HotPutAll(h, ops) ==
  LET f[n \in 0 .. Len(ops)] ==
        IF n = 0 THEN h ELSE HotPut(f[n - 1], ops[n].id, ops[n].val)
  IN  f[Len(ops)]

----------------------------------------------------------------------------
Init ==
  /\ file = <<>> /\ handle = "nil" /\ offsets = NoOffsets
  /\ writes = 0 /\ stale = 0 /\ pending = 0 /\ hot = <<>>
  /\ pc = "down" /\ req = <<>> /\ booting = FALSE /\ newFile = <<>>
  /\ rpc = [r \in Reader |-> "idle"] /\ rid = [r \in Reader |-> None]
  /\ at = [r \in Reader |-> 0] /\ rval = [r \in Reader |-> None]
  /\ attached = [r \in Reader |-> FALSE] /\ wantHot = [r \in Reader |-> FALSE]
  /\ seen = [r \in Reader |-> {}]

\* The readers that hold the handle lose it when it is closed.
Detach == attached' = [r \in Reader |-> FALSE]

\* The request ends; an error in the constructor is a panic.
Finish ==
  /\ pc' = "idle" /\ req' = <<>> /\ booting' = FALSE /\ newFile' = <<>>
LoseMemory ==
  /\ handle' = "nil" /\ offsets' = NoOffsets
  /\ writes' = 0 /\ stale' = 0 /\ pending' = 0 /\ hot' = <<>>
  /\ pc' = "down" /\ req' = <<>> /\ booting' = FALSE /\ newFile' = <<>>
  /\ rpc' = [r \in Reader |-> "idle"] /\ rid' = [r \in Reader |-> None]
  /\ at' = [r \in Reader |-> 0] /\ rval' = [r \in Reader |-> None]
  /\ wantHot' = [r \in Reader |-> FALSE] /\ seen' = [r \in Reader |-> {}]
  /\ Detach
Fail ==
  \/ ~booting /\ Finish /\ UNCHANGED <<storeVars, hot, readVars>>
  \/ booting /\ LoseMemory /\ UNCHANGED file

\* newFileVectorStore; panics if open() fails.
Start ==
  /\ pc = "down"
  /\ pc' = "open" /\ booting' = TRUE
  /\ UNCHANGED <<storeVars, hot, req, newFile, readVars>>

\* UpsertVectors and DeleteVector take s.mu.  A delete looks the id up first.
Begin(ops) ==
  /\ pc = "idle"
  /\ Len(file) < MaxFile
  /\ ops[1].val = None => offsets[ops[1].id] # 0
  /\ req' = ops
  /\ pc' = IF handle = "nil" THEN "open" ELSE "write"
  /\ UNCHANGED <<storeVars, hot, booting, newFile, readVars>>

\* openLocked: the index is rebuilt from the file.
OpenOK ==
  /\ pc = "open"
  /\ Clean(file)
  /\ handle' = "open" /\ offsets' = RebuiltOffsets(file)
  /\ writes' = Len(file) /\ stale' = RebuiltStale(file)
  /\ hot' = <<>>
  /\ pc' = "maybeCompact"
  /\ UNCHANGED <<file, pending, req, booting, newFile, readVars>>

OpenFails ==
  /\ pc = "open"
  /\ ~Clean(file) \/ "reopen" \in Faults
  /\ Fail

----------------------------------------------------------------------------
(* One write call, its bookkeeping, and the group fsync.                   *)

\* The places at which a batch will be found, for the ids in it.
NewOffsets(ops) ==
  [id \in ID |->
     IF \E i \in DOMAIN ops : ops[i].id = id
     THEN LET i == CHOOSE i \in DOMAIN ops : /\ ops[i].id = id
                                             /\ \A j \in DOMAIN ops : ops[j].id = id => j <= i
          IN  IF ops[i].val = None THEN 0 ELSE Len(file) + i
     ELSE offsets[id]]

\* Records of the batch whose id had an offset when they were applied.
Replaced(ops) ==
  {i \in DOMAIN ops : \/ offsets[ops[i].id] # 0
                      \/ \E j \in 1 .. (i - 1) : ops[j].id = ops[i].id}

\* Mutant of WriteOK: the offsets of a batch are those of its first record.
WriteOKFirstOffset ==
  /\ pc = "write" /\ handle = "open"
  /\ file' = file \o req
  /\ offsets' = [id \in ID |-> IF \E i \in DOMAIN req : req[i].id = id
                               THEN (IF req[1].val = None THEN 0 ELSE Len(file) + 1)
                               ELSE offsets[id]]
  /\ writes' = writes + Len(req)
  /\ stale' = stale + Cardinality(Replaced(req))
  /\ pending' = pending + Len(req)
  /\ hot' = IF req[1].val = None THEN HotWithout(hot, req[1].id) ELSE HotPutAll(hot, req)
  /\ seen' = seen
  /\ req' = <<>>
  /\ pc' = "sync"
  /\ UNCHANGED <<handle, booting, newFile, rpc, rid, at, rval, attached, wantHot>>

WriteOK ==
  /\ pc = "write" /\ handle = "open"
  /\ file' = file \o req
  /\ offsets' = NewOffsets(req)
  /\ writes' = writes + Len(req)
  /\ stale' = stale + Cardinality(Replaced(req))
  /\ pending' = pending + Len(req)
  /\ hot' = IF req[1].val = None THEN HotWithout(hot, req[1].id) ELSE HotPutAll(hot, req)
  /\ seen' = [r \in Reader |->
                IF \E i \in DOMAIN req : req[i].id = rid[r]
                THEN seen[r] \cup {IF offsets'[rid[r]] = 0 THEN None
                                   ELSE file'[offsets'[rid[r]]].val}
                ELSE seen[r]]
  /\ req' = <<>>
  /\ pc' = "sync"
  /\ UNCHANGED <<handle, booting, newFile, rpc, rid, at, rval, attached, wantHot>>

\* Some whole records, and perhaps a part of the next.
PartialWrite ==
  \E n \in 0 .. (Len(req) - 1), tail \in {<<>>, <<Torn>>} :
    file' = file \o SubSeq(req, 1, n) \o tail

\* Seek fails on a handle that was closed under us, or the write fails.
WriteFails ==
  /\ pc = "write"
  /\ \/ handle = "closed" /\ UNCHANGED file
     \/ handle = "open" /\ "write" \in Faults /\ PartialWrite
  /\ Finish
  /\ UNCHANGED <<handle, offsets, writes, stale, pending, hot, readVars>>

\* syncPendingLocked(false), then maybeCompactLocked.
SyncDue == pending >= SyncEvery
SyncStep ==
  /\ pc = "sync"
  /\ \/ /\ pending' = IF SyncDue THEN 0 ELSE pending
        /\ pc' = "maybeCompact"
        /\ UNCHANGED <<req, booting, newFile>>
     \/ /\ SyncDue /\ "sync" \in Faults
        /\ Finish
        /\ UNCHANGED pending
  /\ UNCHANGED <<file, handle, offsets, writes, stale, hot, readVars>>

----------------------------------------------------------------------------
(* Compaction.                                                             *)

CompactDue == stale >= 1 /\ 2 * stale >= writes

\* After the open of a request comes its write; otherwise s.mu is released.
Continue ==
  IF req = <<>> THEN Finish
                ELSE pc' = "write" /\ booting' = FALSE /\ newFile' = <<>> /\ UNCHANGED req

NoCompaction ==
  /\ pc = "maybeCompact"
  /\ ~CompactDue
  /\ Continue
  /\ UNCHANGED <<storeVars, hot, readVars>>

\* syncPendingLocked(true), and the live records in the order of a Go map; one
\* that cannot be read back is skipped.
CompactSync ==
  /\ pc = "maybeCompact"
  /\ CompactDue
  /\ \/ /\ pending' = 0
        /\ \E live \in SUBSET Indexed(offsets) :
             /\ live = Indexed(offsets) \/ "read" \in Faults
             /\ \E s \in [1 .. Cardinality(live) -> live] :
                  /\ {s[i] : i \in DOMAIN s} = live
                  /\ newFile' = [i \in DOMAIN s |-> [id |-> s[i], val |-> Current(s[i])]]
        /\ pc' = "tmp"
        /\ UNCHANGED <<file, handle, offsets, writes, stale, hot, req, booting, readVars>>
     \/ pending > 0 /\ "sync" \in Faults /\ Fail

\* The temporary file is written, synced and closed.
CompactTmp ==
  /\ pc = "tmp"
  /\ \/ /\ pc' = "close"
        /\ UNCHANGED <<storeVars, hot, req, booting, newFile, readVars>>
     \/ "tmp" \in Faults /\ Fail

\* s.file.Close(); os.File forgets the descriptor even when close(2) fails.
CompactClose ==
  /\ pc = "close"
  /\ \/ /\ pc' = "rename" /\ handle' = "closed" /\ Detach
        /\ UNCHANGED <<file, offsets, writes, stale, pending, hot, req, booting,
                       newFile, rpc, rid, at, rval, wantHot, seen>>
     \/ /\ "close" \in Faults /\ ~booting
        /\ handle' = "closed" /\ Detach /\ Finish
        /\ UNCHANGED <<file, offsets, writes, stale, pending, hot,
                       rpc, rid, at, rval, wantHot, seen>>
     \/ /\ "close" \in Faults /\ booting
        /\ LoseMemory /\ UNCHANGED file

\* Mutant of CompactRename: the last record has not reached the new file.
CompactRenameShort ==
  /\ pc = "rename"
  /\ \/ /\ file' = SubSeq(newFile, 1, Len(newFile) - 1)
        /\ pc' = "reopen"
        /\ UNCHANGED <<handle, offsets, writes, stale, pending, hot,
                       req, booting, newFile, readVars>>
     \/ "rename" \in Faults /\ Fail

CompactRename ==
  /\ pc = "rename"
  /\ \/ /\ file' = newFile
        /\ pc' = "reopen"
        /\ UNCHANGED <<handle, offsets, writes, stale, pending, hot,
                       req, booting, newFile, readVars>>
     \/ "rename" \in Faults /\ Fail

CompactSwap ==
  /\ pc = "reopen"
  /\ handle' = "open"
  /\ offsets' = RebuiltOffsets(newFile)
  /\ writes' = Len(newFile) /\ stale' = 0 /\ pending' = 0
  /\ hot' = <<>>
  /\ Continue
  /\ UNCHANGED <<file, readVars>>

CompactReopenFails ==
  /\ pc = "reopen"
  /\ "reopen" \in Faults
  /\ Fail

----------------------------------------------------------------------------
(* Close, and the end of the process.                                      *)

Close ==
  /\ pc = "idle"
  /\ handle # "nil"
  /\ pending' = 0
  /\ handle' = "nil"
  /\ hot' = <<>>
  /\ Detach
  /\ UNCHANGED <<file, offsets, writes, stale, reqVars, rpc, rid, at, rval, wantHot, seen>>

Crash ==
  /\ pc # "down"
  /\ LoseMemory
  /\ UNCHANGED file

CrashWhileWriting ==
  /\ pc = "write" /\ handle = "open"
  /\ "torn" \in Faults
  /\ PartialWrite
  /\ LoseMemory

----------------------------------------------------------------------------
(* Reads.  s.mu is held only for the look-up.                              *)

Answer(r, x) ==
  /\ rpc' = [rpc EXCEPT ![r] = "done"]
  /\ rval' = [rval EXCEPT ![r] = x]

ReadBegin(r, id, hot32) ==
  /\ pc = "idle" /\ rpc[r] = "idle"
  /\ rid' = [rid EXCEPT ![r] = id] /\ wantHot' = [wantHot EXCEPT ![r] = hot32]
  /\ seen' = [seen EXCEPT ![r] = {Current(id)}]
  /\ IF offsets[id] = 0 \/ handle = "nil"
     THEN /\ Answer(r, IF offsets[id] = 0 THEN None ELSE Err)
          /\ UNCHANGED <<at, attached>>
     ELSE /\ rpc' = [rpc EXCEPT ![r] = IF hot32 THEN "hot" ELSE "read"]
          /\ at' = [at EXCEPT ![r] = offsets[id]]
          /\ attached' = [attached EXCEPT ![r] = handle = "open"]
          /\ UNCHANGED rval
  /\ UNCHANGED <<storeVars, hot, reqVars>>

\* getHotVector.
ReadHot(r) ==
  /\ rpc[r] = "hot"
  /\ IF IsHot(rid[r])
     THEN /\ Answer(r, HotVal(rid[r]))
          /\ hot' = HotPut(hot, rid[r], HotVal(rid[r]))
     ELSE /\ rpc' = [rpc EXCEPT ![r] = "read"]
          /\ UNCHANGED <<rval, hot>>
  /\ UNCHANGED <<storeVars, reqVars, rid, at, attached, wantHot, seen>>

\* Mutant of ReadFile: the offset is used with the handle of the moment.
ReadFileCurrentHandle(r) ==
  /\ rpc[r] = "read"
  /\ IF handle = "open" /\ at[r] \in DOMAIN file
     THEN Answer(r, file[at[r]].val)
     ELSE Answer(r, Err)
  /\ UNCHANGED <<storeVars, hot, reqVars, rid, at, attached, wantHot, seen>>

\* ReadAt through the handle the reader took, which fails once it is closed.
ReadFile(r) ==
  /\ rpc[r] = "read"
  /\ \/ /\ attached[r]
        /\ rpc' = [rpc EXCEPT ![r] = IF wantHot[r] THEN "putHot" ELSE "done"]
        /\ rval' = [rval EXCEPT ![r] = file[at[r]].val]
     \/ /\ ~attached[r] \/ "read" \in Faults
        /\ Answer(r, Err)
  /\ UNCHANGED <<storeVars, hot, reqVars, rid, at, attached, wantHot, seen>>

\* putHotVector, after any number of writes.
ReadPutHot(r) ==
  /\ rpc[r] = "putHot"
  /\ hot' = HotPut(hot, rid[r], rval[r])
  /\ rpc' = [rpc EXCEPT ![r] = "done"]
  /\ UNCHANGED <<storeVars, reqVars, rid, at, rval, attached, wantHot, seen>>

ReadReturn(r) ==
  /\ rpc[r] = "done"
  /\ rpc' = [rpc EXCEPT ![r] = "idle"] /\ rid' = [rid EXCEPT ![r] = None]
  /\ at' = [at EXCEPT ![r] = 0] /\ rval' = [rval EXCEPT ![r] = None]
  /\ attached' = [attached EXCEPT ![r] = FALSE]
  /\ wantHot' = [wantHot EXCEPT ![r] = FALSE] /\ seen' = [seen EXCEPT ![r] = {}]
  /\ UNCHANGED <<storeVars, hot, reqVars>>

Reading == \E r \in Reader : ReadHot(r) \/ ReadFile(r) \/ ReadPutHot(r) \/ ReadReturn(r)
Compacting == NoCompaction \/ CompactSync \/ CompactTmp \/ CompactClose \/ CompactRename
              \/ CompactSwap \/ CompactReopenFails

Next ==
  \/ Start \/ OpenOK \/ OpenFails
  \/ \E ops \in Batches \cup Deletes : Begin(ops)
  \/ WriteOK \/ WriteFails \/ SyncStep
  \/ Compacting
  \/ Close \/ Crash \/ CrashWhileWriting
  \/ \E r \in Reader, id \in ID, hot32 \in BOOLEAN : ReadBegin(r, id, hot32)
  \/ Reading

Spec == Init /\ [][Next]_vars

----------------------------------------------------------------------------
FileTypeOK ==
  /\ file \in Seq(Record \cup {Torn})
  /\ handle \in {"nil", "open", "closed"}
  /\ offsets \in [ID -> Nat]
  /\ writes \in Nat /\ stale \in Nat /\ pending \in Nat
  /\ hot \in Seq(Put) /\ Len(hot) <= HotMax
  /\ pc \in {"down", "idle", "open", "write", "sync", "maybeCompact", "tmp",
            "close", "rename", "reopen"}
  /\ req \in Seq(Record) /\ booting \in BOOLEAN /\ newFile \in Seq(Record)
  /\ rpc \in [Reader -> {"idle", "hot", "read", "putHot", "done"}]
  /\ rid \in [Reader -> ID \cup {None}] /\ at \in [Reader -> Nat]
  /\ rval \in [Reader -> Val \cup {None, Err}]
  /\ attached \in [Reader -> BOOLEAN] /\ wantHot \in [Reader -> BOOLEAN]
  /\ seen \in [Reader -> SUBSET (Val \cup {None})]

\* While the handle is open the offsets and both counters are what a rebuild of
\* the file would give: the bookkeeping of upserts, deletes, batches and
\* compactions agrees with rebuildFileVectorStoreIndex, so a restart changes
\* neither an answer nor the moment of the next compaction.
IndexMatchesFile ==
  handle = "open" =>
    /\ offsets = RebuiltOffsets(file)
    /\ writes = Len(file)
    /\ stale = RebuiltStale(file)

\* Only the write of a request changes what a restart would find: a crash or a
\* failure at any step of an open, an fsync, a compaction or a Close keeps
\* every vector.  Two failures do not, and are left out: "read", as a compaction
\* drops a live record that it cannot read back, and "write", as the records of
\* a batch whose write failed half-way are in the file, for a restart to find,
\* until a compaction drops them.
OnlyWritesChangeContents ==
  [][Recovered(file') # Recovered(file) => pc = "write"]_vars

\* GetVectorReadOnly, whose reader uses an offset and a handle it took before it
\* released the lock, answers with what the id was at some moment of the call
\* or fails; compactions, writes and reopenings of the file in between never
\* make it take another record for the one it wants.
\* The types are part of it.
ReadIsLinearizable ==
  /\ FileTypeOK
  /\ \A r \in Reader : rpc[r] = "done" /\ ~wantHot[r] => rval[r] \in seen[r] \cup {Err}

\* GetVectorReadOnly32 promises the same (see ReadIsLinearizable), the hot cache
\* included.
HotReadIsLinearizable ==
  \A r \in Reader : rpc[r] = "done" /\ wantHot[r] => rval[r] \in seen[r] \cup {Err}

\* The store can be opened when the process starts: newFileVectorStore does not
\* panic.
StoreOpens == pc = "open" /\ booting => Clean(file)
============================================================================
