------------------------- MODULE CachedVectorStore -------------------------
(***************************************************************************)
(* The LRU decorator of a payload store (internal/core/                    *)
(* cached_vector_store.go): readers and the holder of persistMu (Writer)   *)
(* share one cache.  The backend call and the cache update of a request    *)
(* are separate steps, with no lock held in between.  What is done to the  *)
(* cache is done under mu; putLocked and its evict loop are several steps  *)
(* of the holder, so that the loop's termination can be asked about.       *)
(* Metrics are left out.                                                   *)
(***************************************************************************)
EXTENDS Naturals, Sequences, FiniteSets, FiniteSetsExt, SequencesExt

CONSTANTS
  ID, Val,      \* vector identifiers and payloads
  None,         \* "no vector"
  Proc, Writer, \* the calling goroutines; only Writer writes
  Size,         \* estimateVectorSizeBytes32 of a payload under an id
  MaxBytes, MaxItems,
  HasTTL,       \* cache.ttl is positive
  LateErrors,   \* the backend may fail after it applied a write (a failed fsync
                \* or compaction of the file store)
  MaxBatch      \* bound: vectors in one UpsertVectors call

ASSUME CacheAssumption ==
  /\ None \notin Val \cup ID \cup Proc
  /\ Writer \in Proc
  /\ Size \in [ID -> [Val -> Nat]]
  /\ MaxBytes \in Nat \ {0} /\ MaxItems \in Nat \ {0}
  /\ HasTTL \in BOOLEAN /\ LateErrors \in BOOLEAN
  /\ MaxBatch \in Nat

VARIABLES
  backend,       \* the decorated store: a map
  entries,       \* the cached payloads
  order,         \* the ids of the entries, the most recently used first
  currentBytes,
  mu,            \* the process that holds the cache's mutex, or None
  pc,            \* where each process is
  todo,          \* what it has to put into the cache, or to remove from it
  excused        \* history: the ids of which a cached payload may be stale

vars == <<backend, entries, order, currentBytes, mu, pc, todo, excused>>

Vector == [id : ID, val : Val]
Batches == UNION {[1 .. n -> Vector] : n \in 1 .. MaxBatch}
PCs == {"idle", "read", "lock", "put", "evict", "remove"}

Cached == {id \in ID : entries[id] # None}
\* The list without the element of id.
Without(s, id) == RemoveFirst(s, id)

\* A process that has a payload of id in hand and has not put it yet.
Filling(p, id) == \E i \in DOMAIN todo[p] : todo[p][i].id = id

Init ==
  /\ backend = [id \in ID |-> None] /\ entries = [id \in ID |-> None]
  /\ order = <<>> /\ currentBytes = 0 /\ mu = None
  /\ pc = [p \in Proc |-> "idle"] /\ todo = [p \in Proc |-> <<>>]
  /\ excused = {}

----------------------------------------------------------------------------
\* Mutant of RemoveElement: the bytes stay counted.
RemoveElementKeepsBytes(id) ==
  /\ entries' = [entries EXCEPT ![id] = None]
  /\ order' = Without(order, id)
  /\ UNCHANGED currentBytes

\* removeElementLocked.
RemoveElement(id) ==
  /\ entries' = [entries EXCEPT ![id] = None]
  /\ order' = Without(order, id)
  /\ currentBytes' = currentBytes - Size[id][entries[id]]

Goto(p, l) == pc' = [pc EXCEPT ![p] = l]

\* getCached finds an entry: it moves to the front and is returned.
GetHit(p, id) ==
  /\ pc[p] = "idle" /\ mu = None
  /\ entries[id] # None
  /\ order' = <<id>> \o Without(order, id)
  /\ UNCHANGED <<backend, entries, currentBytes, mu, pc, todo, excused>>

\* getCached finds none, or one whose TTL has passed, which it removes.
GetMiss(p, id) ==
  /\ pc[p] = "idle" /\ mu = None
  /\ \/ entries[id] = None /\ UNCHANGED <<entries, order, currentBytes>>
     \/ entries[id] # None /\ HasTTL /\ RemoveElement(id)
  /\ Goto(p, "read")
  /\ todo' = [todo EXCEPT ![p] = <<[id |-> id, val |-> None]>>]
  /\ UNCHANGED <<backend, mu, excused>>

\* The backend is read, with no lock of the cache held; it has no such vector
\* or fails, or the vector is in hand.
BackendRead(p) ==
  LET id == todo[p][1].id IN
  /\ pc[p] = "read"
  /\ \/ Goto(p, "idle") /\ todo' = [todo EXCEPT ![p] = <<>>]
     \/ /\ backend[id] # None /\ Goto(p, "lock")
        /\ todo' = [todo EXCEPT ![p] = <<[id |-> id, val |-> backend[id]]>>]
  /\ UNCHANGED <<backend, entries, order, currentBytes, mu, excused>>

\* The ids of which another process holds a payload that a write of `ids`
\* makes stale.
Overlapped(ids) == {id \in ids : \E p \in Proc : pc[p] # "read" /\ Filling(p, id)}

\* The backend takes a batch; the cache is updated later, unless the backend
\* reports an error.
UpsertVectors(batch) ==
  LET ids == {batch[i].id : i \in DOMAIN batch}
      val(id) == batch[Max({i \in DOMAIN batch : batch[i].id = id})].val
  IN
  /\ pc[Writer] = "idle"
  /\ backend' = [id \in ID |-> IF id \in ids THEN val(id) ELSE backend[id]]
  /\ \/ /\ Goto(Writer, "lock") /\ todo' = [todo EXCEPT ![Writer] = batch]
        /\ excused' = excused \cup Overlapped(ids)
     \/ /\ LateErrors
        /\ excused' = excused \cup ids
        /\ UNCHANGED <<pc, todo>>
  /\ UNCHANGED <<entries, order, currentBytes, mu>>

DeleteVector(id) ==
  /\ pc[Writer] = "idle"
  /\ backend[id] # None
  /\ backend' = [backend EXCEPT ![id] = None]
  /\ \/ /\ Goto(Writer, "remove")
        /\ todo' = [todo EXCEPT ![Writer] = <<[id |-> id, val |-> None]>>]
        /\ excused' = excused \cup Overlapped({id})
     \/ /\ LateErrors
        /\ excused' = excused \cup {id}
        /\ UNCHANGED <<pc, todo>>
  /\ UNCHANGED <<entries, order, currentBytes, mu>>

\* Mutant of RemoveCached: DeleteVector leaves the cache alone.
RemoveCachedNot(p) ==
  /\ pc[p] = "remove" /\ mu = None
  /\ Goto(p, "idle") /\ todo' = [todo EXCEPT ![p] = <<>>]
  /\ UNCHANGED <<backend, entries, order, currentBytes, mu, excused>>

RemoveCached(p) ==
  LET id == todo[p][1].id IN
  /\ pc[p] = "remove" /\ mu = None
  /\ IF entries[id] = None THEN UNCHANGED <<entries, order, currentBytes>>
                           ELSE RemoveElement(id)
  /\ Goto(p, "idle") /\ todo' = [todo EXCEPT ![p] = <<>>]
  /\ UNCHANGED <<backend, mu, excused>>

----------------------------------------------------------------------------
(* putLocked for each vector in hand, under mu.                            *)

Lock(p) ==
  /\ pc[p] = "lock" /\ mu = None
  /\ mu' = p
  /\ Goto(p, "put")
  /\ UNCHANGED <<backend, entries, order, currentBytes, todo, excused>>

\* Mutant of Put: a new entry goes to the back of the list.
PutAtBack(p) ==
  LET vec == todo[p][1]
      old == IF entries[vec.id] = None THEN 0 ELSE Size[vec.id][entries[vec.id]]
  IN
  /\ pc[p] = "put"
  /\ entries' = [entries EXCEPT ![vec.id] = vec.val]
  /\ order' = Without(order, vec.id) \o <<vec.id>>
  /\ currentBytes' = (currentBytes - old) + Size[vec.id][vec.val]
  /\ Goto(p, "evict")
  /\ UNCHANGED <<backend, mu, todo, excused>>

\* Mutant of Put: the bytes of a replaced payload stay counted.
PutForgetsOld(p) ==
  LET vec == todo[p][1] IN
  /\ pc[p] = "put"
  /\ entries' = [entries EXCEPT ![vec.id] = vec.val]
  /\ order' = <<vec.id>> \o Without(order, vec.id)
  /\ currentBytes' = currentBytes + Size[vec.id][vec.val]
  /\ Goto(p, "evict")
  /\ UNCHANGED <<backend, mu, todo, excused>>

Put(p) ==
  LET vec == todo[p][1]
      old == IF entries[vec.id] = None THEN 0 ELSE Size[vec.id][entries[vec.id]]
  IN
  /\ pc[p] = "put"
  /\ entries' = [entries EXCEPT ![vec.id] = vec.val]
  /\ order' = <<vec.id>> \o Without(order, vec.id)
  /\ currentBytes' = (currentBytes - old) + Size[vec.id][vec.val]
  /\ Goto(p, "evict")
  /\ UNCHANGED <<backend, mu, todo, excused>>

OverLimit == Cardinality(Cached) > MaxItems \/ currentBytes > MaxBytes

\* One round of evictLocked.  With an empty list there is nothing to remove
\* and the loop spins.
EvictOne(p) ==
  /\ pc[p] = "evict"
  /\ OverLimit
  /\ IF order = <<>> THEN UNCHANGED <<entries, order, currentBytes>>
                     ELSE RemoveElement(order[Len(order)])
  /\ UNCHANGED <<backend, mu, pc, todo, excused>>

EvictDone(p) ==
  /\ pc[p] = "evict"
  /\ ~OverLimit
  /\ todo' = [todo EXCEPT ![p] = Tail(todo[p])]
  /\ IF Len(todo[p]) = 1 THEN Goto(p, "idle") /\ mu' = None
                         ELSE Goto(p, "put") /\ UNCHANGED mu
  /\ UNCHANGED <<backend, entries, order, currentBytes, excused>>

----------------------------------------------------------------------------
Proceed(p) == BackendRead(p) \/ Put(p) \/ EvictOne(p) \/ EvictDone(p)

Next ==
  \/ \E p \in Proc, id \in ID : GetHit(p, id) \/ GetMiss(p, id)
  \/ \E batch \in Batches : UpsertVectors(batch)
  \/ \E id \in ID : DeleteVector(id)
  \/ \E p \in Proc : Proceed(p) \/ Lock(p) \/ RemoveCached(p)

Spec == Init /\ [][Next]_vars

\* A running goroutine goes on, and a sync.Mutex (which hands itself to its
\* oldest waiter when it is starved) is not denied for ever.
Fairness ==
  \A p \in Proc : /\ WF_vars(Proceed(p))
                  /\ SF_vars(Lock(p)) /\ SF_vars(RemoveCached(p))

FairSpec == Spec /\ Fairness

----------------------------------------------------------------------------
CacheTypeOK ==
  /\ backend \in [ID -> Val \cup {None}] /\ entries \in [ID -> Val \cup {None}]
  /\ order \in Seq(ID) /\ currentBytes \in Nat
  /\ mu \in Proc \cup {None}
  /\ pc \in [Proc -> PCs]
  /\ todo \in [Proc -> Seq([id : ID, val : Val \cup {None}])]
  /\ excused \subseteq ID

\* Whenever the mutex is free, currentBytes is the sum of the entries, the
\* list holds every entry once, and both limits are kept: whatever mix of
\* hits, fills, expiries, replacements and removals came before.
\* The types are part of it.
CacheAccounted ==
  /\ CacheTypeOK
  /\ mu = None =>
       /\ currentBytes = MapThenSumSet(LAMBDA id : Size[id][entries[id]], Cached)
       /\ Len(order) = Cardinality(Cached)
       /\ {order[i] : i \in DOMAIN order} = Cached
       /\ ~OverLimit

\* Every call returns: the evict loop ends, and nobody keeps the mutex.
CallsReturn == \A p \in Proc : pc[p] # "idle" ~> pc[p] = "idle"

\* LRU: what was just put is still cached when its put ends, unless it is
\* over the byte limit by itself.
NewestSurvives ==
  [][\A p \in Proc : pc[p] = "evict" /\ pc'[p] # "evict" =>
       LET vec == todo[p][1] IN
       Size[vec.id][vec.val] > MaxBytes \/ entries[vec.id] = vec.val]_vars

\* Between the requests of the writer the cache holds for each id the payload
\* of the backend or nothing, unless a reader had fetched the id when a write
\* of it overtook it, or the backend failed after it applied a write of it.
StaleOnlyByRace ==
  pc[Writer] \in {"idle", "read"} =>
    \A id \in ID \ excused : entries[id] \in {None, backend[id]}

\* The stronger reading of StaleOnlyByRace: a deleted vector is not found.
DeletedNotServed ==
  pc[Writer] = "idle" => \A id \in ID : backend[id] = None => entries[id] = None
============================================================================
