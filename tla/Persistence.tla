---------------------------- MODULE Persistence ----------------------------
(***************************************************************************)
(* The snapshot + write-ahead-log backend of memory mode: snapshotWAL-     *)
(* Backend in internal/core/persistence.go.  The module gives the state of *)
(* the two files and one action per backend call and outcome; module       *)
(* VectorService calls them while it holds persistMu.                      *)
(*                                                                         *)
(* Data abstraction.  A vector payload is a member of Val, up to the       *)
(* rounding to float32 that the stores apply (a second rounding is the     *)
(* identity, so what is logged as float64 and what is saved from a store   *)
(* denote the same member of Val).  Three classes of payload matter to the *)
(* encodings:                                                              *)
(*   NaNVal   holds a component that json.Marshal rejects (NaN, Inf);      *)
(*   HugeVal  is finite as float64 but overflows float32, so a store gives *)
(*            back an infinity, which json.Marshal rejects;                *)
(*   LongVal  encodes to a WAL line longer than the 64 KiB that a          *)
(*            bufio.Scanner accepts by default.                            *)
(***************************************************************************)
EXTENDS Naturals, Sequences

CONSTANTS
  ID,         \* vector identifiers
  Val,        \* vector payloads
  None,       \* "no vector": absent from a map
  NaNVal, HugeVal, LongVal,   \* classes of payloads, see above
  SyncEvery,  \* fsync after this many logged operations
  Faults      \* the I/O failures that may happen: "open" "torn" "sync" "save" "trunc"
              \* "read"

ASSUME PersistenceAssumption ==
  /\ None \notin ID \cup Val
  /\ NaNVal \subseteq Val /\ HugeVal \subseteq Val /\ LongVal \subseteq Val
  /\ SyncEvery \in Nat \ {0}
  /\ Faults \subseteq {"open", "torn", "sync", "save", "trunc", "read"}

VARIABLES
  snapshot,   \* the snapshot file: a map; a missing file loads as the empty map
  wal,        \* the lines of the log file
  tornTail,   \* the last line has no newline yet
  pendingOps  \* operations logged since the last fsync

diskVars == <<snapshot, wal, tornTail, pendingOps>>

Maps == [ID -> Val \cup {None}]
EmptyMap == [id \in ID |-> None]

\* A logged operation: val = None is a "delete", any other val an "upsert".
WalOp == [id : ID, val : Val \cup {None}]
\* A line that is no JSON object: a fragment, or lines run together.
Garbled == [id |-> None, val |-> None]
Line == WalOp \cup {Garbled}

Encodable(op) == op.val \notin NaNVal
\* What ReplayWAL can scan and decode.
Readable(line) == line # Garbled /\ line.val \notin LongVal

----------------------------------------------------------------------------
\* The log after `lines` were appended by one or more write calls.  If the
\* file did not end in a newline the first of them is glued to its last line.
AppendLines(lines) ==
  IF tornTail /\ lines # <<>>
  THEN SubSeq(wal, 1, Len(wal) - 1) \o <<Garbled>> \o Tail(lines)
  ELSE wal \o lines

\* An append that ends early: n complete lines of ops, then possibly a part
\* of the next line, which may be the whole line without its newline.
PartialAppend(ops, n, part) ==
  LET lines == SubSeq(ops, 1, n) \o
                 CASE part = "none" -> <<>>
                   [] part = "some" -> <<Garbled>>
                   [] part = "all"  -> <<ops[n + 1]>>
  IN  /\ wal' = AppendLines(lines)
      /\ tornTail' = IF lines = <<>> THEN tornTail ELSE part # "none"

\* AppendWALBatch succeeds: every line flushed, fsync when the group is full.
AppendOK(ops) ==
  /\ \A i \in DOMAIN ops : Encodable(ops[i])
  /\ wal' = AppendLines(ops)
  /\ tornTail' = FALSE
  /\ pendingOps' = IF pendingOps + Len(ops) < SyncEvery
                   THEN pendingOps + Len(ops) ELSE 0
  /\ UNCHANGED snapshot

\* MkdirAll or OpenFile fails: nothing is written.
AppendOpenFails ==
  /\ "open" \in Faults
  /\ UNCHANGED diskVars

\* json.Marshal fails at ops[j].  The lines before it are in the 4096-byte
\* buffer; what overflowed the buffer is in the file already, the rest is
\* dropped.  A first line is buffered or written whole, so only a later one
\* can be cut.
AppendMarshalFails(ops) ==
  \E j \in DOMAIN ops :
    /\ ~Encodable(ops[j])
    /\ \A i \in 1 .. (j - 1) : Encodable(ops[i])
    /\ \E n \in 0 .. (j - 1), part \in {"none", "some", "all"} :
         /\ part # "none" => n >= 1 /\ n + 1 <= j - 1
         /\ PartialAppend(ops, n, part)
    /\ UNCHANGED <<snapshot, pendingOps>>

\* A write or the final flush fails, or the process dies, part way.
AppendStops(ops) ==
  /\ "torn" \in Faults
  /\ \A i \in DOMAIN ops : Encodable(ops[i])
  /\ \E n \in 0 .. (Len(ops) - 1), part \in {"none", "some", "all"} :
       PartialAppend(ops, n, part)
  /\ UNCHANGED <<snapshot, pendingOps>>

\* The lines are flushed and counted, then fsync fails.
AppendSyncFails(ops) ==
  /\ "sync" \in Faults
  /\ \A i \in DOMAIN ops : Encodable(ops[i])
  /\ pendingOps + Len(ops) >= SyncEvery
  /\ wal' = AppendLines(ops)
  /\ tornTail' = FALSE
  /\ pendingOps' = pendingOps + Len(ops)
  /\ UNCHANGED snapshot

\* AppendWALBatch returns an error.
AppendFails(ops) ==
  \/ AppendOpenFails
  \/ AppendMarshalFails(ops)
  \/ AppendStops(ops)
  \/ AppendSyncFails(ops)

SyncOK ==
  /\ pendingOps' = 0
  /\ UNCHANGED <<snapshot, wal, tornTail>>

\* Sync opens the log once more; the OpenFile or the fsync fails.
SyncFails ==
  /\ "open" \in Faults \/ "sync" \in Faults
  /\ pendingOps > 0
  /\ UNCHANGED diskVars

\* Mutant of SaveSnapshotOK: the temporary file is never renamed.
SaveSnapshotNoRename(vectors) ==
  /\ \A id \in ID : vectors[id] \notin HugeVal
  /\ UNCHANGED diskVars

\* SaveSnapshot writes a temporary file and renames it over the snapshot.
SaveSnapshotOK(vectors) ==
  /\ \A id \in ID : vectors[id] \notin HugeVal
  /\ snapshot' = vectors
  /\ UNCHANGED <<wal, tornTail, pendingOps>>

\* Marshalling, the write or the rename fails: the old snapshot stays.
SaveSnapshotFails(vectors) ==
  /\ "save" \in Faults \/ \E id \in ID : vectors[id] \in HugeVal
  /\ UNCHANGED diskVars

TruncateOK ==
  /\ wal' = <<>>
  /\ tornTail' = FALSE
  /\ pendingOps' = 0
  /\ UNCHANGED snapshot

TruncateFails ==
  /\ "trunc" \in Faults
  /\ UNCHANGED diskVars

\* LoadSnapshot cannot read or unmarshal the snapshot, or ReplayWAL cannot
\* open or read the log, for a reason that is not in what was written.
ReadFails ==
  /\ "read" \in Faults
  /\ UNCHANGED diskVars

----------------------------------------------------------------------------
PersistenceTypeOK ==
  /\ snapshot \in Maps
  /\ wal \in Seq(Line)
  /\ tornTail \in BOOLEAN
  /\ tornTail => wal # <<>>
  /\ pendingOps \in Nat

\* What a restart would make of the two files, for logs every line of which
\* can be read: the last logged operation on an id decides, else the snapshot.
Recovered ==
  [id \in ID |->
     IF \E k \in DOMAIN wal : wal[k].id = id
     THEN LET k == CHOOSE k \in DOMAIN wal :
                     /\ wal[k].id = id
                     /\ \A j \in DOMAIN wal : wal[j].id = id => j <= k
          IN  wal[k].val
     ELSE snapshot[id]]
============================================================================
