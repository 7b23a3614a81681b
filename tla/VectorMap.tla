----------------------------- MODULE VectorMap -----------------------------
(***************************************************************************)
(* What the service promises to a client, with no files, indexes or        *)
(* processes: a map from identifiers to payloads that survives crashes.    *)
(* A write takes effect in one step or not at all.  While no write and no  *)
(* recovery is in progress the service answers from the map itself.  The   *)
(* promise ends when a recovery gives up: NewServiceWithDeps then serves   *)
(* what it had read so far, and a later snapshot may overwrite the map.    *)
(***************************************************************************)
EXTENDS Naturals, Sequences

CONSTANTS ID, Val, None, MaxBatch

VARIABLES
  contents,  \* the durable map
  view,      \* the map reads are answered from, None while a write, a crash
             \* or a recovery is in progress
  lost       \* a recovery gave up

mapVars == <<contents, view, lost>>

MapInit ==
  /\ contents = [id \in ID |-> None]
  /\ view = None
  /\ lost = FALSE

\* A batch of new vectors is stored as a whole.
Insert(batch) ==
  /\ view = None
  /\ \A i \in DOMAIN batch : contents[batch[i].id] = None
  /\ \A i, j \in DOMAIN batch : batch[i].id = batch[j].id => i = j
  /\ contents' = [id \in ID |->
                    IF \E i \in DOMAIN batch : batch[i].id = id
                    THEN batch[CHOOSE i \in DOMAIN batch : batch[i].id = id].val
                    ELSE contents[id]]
  /\ UNCHANGED view

Remove(id) ==
  /\ view = None
  /\ contents[id] # None
  /\ contents' = [contents EXCEPT ![id] = None]
  /\ UNCHANGED view

\* A write or a recovery ends: reads see the map.
Serve ==
  /\ view = None
  /\ view' = contents
  /\ UNCHANGED contents

\* A write begins, or the process dies.
Interrupt ==
  /\ view # None
  /\ view' = None
  /\ UNCHANGED contents

\* A recovery gives up: the map is still there, and reads see something else.
GiveUp ==
  /\ view = None
  /\ lost' = TRUE
  /\ UNCHANGED contents

Inserts == UNION {[1 .. n -> [id : ID, val : Val]] : n \in 1 .. MaxBatch}

Keep ==
  \/ \E batch \in Inserts : Insert(batch)
  \/ \E id \in ID : Remove(id)
  \/ Serve
  \/ Interrupt

\* After a recovery that gave up nothing is promised any more.
MapNext ==
  \/ ~lost /\ Keep /\ UNCHANGED lost
  \/ ~lost /\ GiveUp
  \/ lost /\ lost'

MapSpec == MapInit /\ [][MapNext]_mapVars
============================================================================
