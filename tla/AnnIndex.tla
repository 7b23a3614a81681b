------------------------------ MODULE AnnIndex ------------------------------
(***************************************************************************)
(* The approximate index (internal/index/ann/ann_index.go): a graph of     *)
(* nodes with at most M neighbours each, searched best-first from an entry *)
(* point with a candidate list of ef nodes.  AddVector searches the graph  *)
(* for the neighbours of a new node, links both ways and prunes; deletion  *)
(* leaves a tombstone that a search still walks through.                   *)
(*                                                                         *)
(* AddVector holds the index's lock and a search its read lock, and        *)
(* searches share nothing but the pool of workspaces, of which each takes  *)
(* one for itself; so one call runs at a time here, the rounds of its loop *)
(* one by one, in a workspace that earlier calls left behind.  A vector is *)
(* a tuple of integers; a slot is the position of a node, from 1.  A call  *)
(* that is refused (k <= 0, another dimension) is no step.                 *)
(***************************************************************************)
EXTENDS DistHeap, FiniteSets, FiniteSetsExt

CONSTANTS
  ID,             \* the internal ids the service assigns
  Vectors,        \* the vectors clients send
  M,              \* Options.M
  EfConstruction, \* Options.EfConstruction
  EfSearch,       \* Options.EfSearch
  Ks,             \* the values of k clients ask for
  Epochs,         \* the number of values of visitEpoch, 2^32 in the code
  MaxChanges      \* bound: deletions and replacements

ASSUME AnnAssumption ==
  /\ IsFiniteSet(ID)
  /\ \A v \in Vectors : v \in Seq(Int) /\ v # <<>>
  /\ M \in Nat \ {0} /\ EfConstruction \in Nat \ {0} /\ EfSearch \in Nat \ {0}
  /\ Ks \subseteq Nat \ {0}
  /\ Epochs \in Nat \ {0, 1} /\ MaxChanges \in Nat

VARIABLES
  nodes,        \* nodes, each [id, vec, nbrs]; idToSlot is its inverse
  dim,          \* 0 until the first vector
  entrypoint,   \* a slot; 0 is "none"
  deleted,      \* the slots with a tombstone
  deletedCount,
  ws,           \* a pooled searchWorkspace: its visitedMarks and visitEpoch
  op,           \* the call in progress
  minQ, maxQ,   \* the heaps of its search
  answer,       \* what it returns
  changes       \* the deletions and replacements so far

graphVars == <<nodes, dim, entrypoint>>
tombVars == <<deleted, deletedCount>>
callVars == <<ws, op, minQ, maxQ, answer>>
vars == <<graphVars, tombVars, callVars, changes>>

NoCall == [kind |-> "none"]
Slots == DOMAIN nodes
NewWorkspace == [marks |-> <<>>, epoch |-> 0]

\* NewAnnIndexWithOptions.
Init ==
  /\ nodes = <<>> /\ dim = 0 /\ entrypoint = 0
  /\ deleted = {} /\ deletedCount = 0
  /\ ws = NewWorkspace
  /\ op = NoCall /\ minQ = <<>> /\ maxQ = <<>> /\ answer = <<>>
  /\ changes = 0

----------------------------------------------------------------------------
(* Distances and the choice of the nearest.                                *)

\* squaredDistance32.
SquaredDistance(a, b) ==
  LET sum[i \in 0 .. Len(a)] == IF i = 0 THEN 0 ELSE sum[i - 1] + (a[i] - b[i]) * (a[i] - b[i])
  IN  sum[Len(a)]
Pair(ns, s, v) == [id |-> s, distance |-> SquaredDistance(v, ns[s].vec)]

\* The first of the nearest among c[i..]: the inner loop of selectNearest.
Best(c, i) ==
  CHOOSE b \in i .. Len(c) :
    /\ \A j \in i .. Len(c) : c[b].distance <= c[j].distance
    /\ \A j \in i .. (b - 1) : c[b].distance < c[j].distance

SelectStep(c, i) == Swap(c, i, Best(c, i))
SelectNearest(c, k) ==
  LET sel[i \in 0 .. k] == IF i = 0 THEN c ELSE SelectStep(sel[i - 1], i)
  IN  sel[k]

\* nearestIDs, nearestExternalIDs and nearestResults: the first k of them.
Nearest(c, k) == LET n == Min({k, Len(c)}) IN SubSeq(SelectNearest(c, n), 1, n)
Slot(pairs) == [i \in DOMAIN pairs |-> pairs[i].id]

----------------------------------------------------------------------------
(* The visited marks of a workspace.                                       *)

\* Mutant of Reset: the marks are not cleared when the epoch wraps round.
ResetStale(w, n) ==
  LET marks == IF Len(w.marks) < n THEN [i \in 1 .. n |-> 0] ELSE w.marks
      epoch == (w.epoch + 1) % Epochs
  IN  [marks |-> marks, epoch |-> IF epoch = 0 THEN 1 ELSE epoch]

\* searchWorkspace.reset.
Reset(w, n) ==
  LET marks == IF Len(w.marks) < n THEN [i \in 1 .. n |-> 0] ELSE w.marks
      epoch == (w.epoch + 1) % Epochs
  IN  IF epoch = 0 THEN [marks |-> [i \in DOMAIN marks |-> 0], epoch |-> 1]
      ELSE [marks |-> marks, epoch |-> epoch]

IsVisited(w, s) == w.marks[s] = w.epoch
MarkVisited(w, s) == [w EXCEPT !.marks[s] = w.epoch]
Visited == {s \in Slots : IsVisited(ws, s)}

----------------------------------------------------------------------------
(* searchCandidates32WithWorkspaceLocked.                                  *)

\* Up to the loop, for the graph ns.  The pool hands out a workspace that
\* was used before, or a new one.
Begin(ns, call) ==
  LET start == Pair(ns, entrypoint, call.query)
  IN  /\ op' = call
      /\ \E w \in {ws, NewWorkspace} : ws' = MarkVisited(Reset(w, Len(ns)), entrypoint)
      /\ minQ' = Push(1, <<>>, start)
      /\ maxQ' = Push(-1, <<>>, start)

\* The loop ends: no node is left, or the next is farther than the worst of a
\* full candidate list.
LoopEnds ==
  minQ # <<>> => Len(maxQ) >= op.ef /\ minQ[1].distance > maxQ[1].distance

\* One neighbour of the node being expanded, and all of them.
Offer(s, n) ==
  IF IsVisited(s.ws, n) THEN s
  ELSE LET p == Pair(nodes, n, op.query)
           w == MarkVisited(s.ws, n)
       IN  IF Len(s.maxQ) < op.ef
           THEN [ws |-> w, minQ |-> Push(1, s.minQ, p), maxQ |-> Push(-1, s.maxQ, p)]
           ELSE IF p.distance < s.maxQ[1].distance
           THEN [ws |-> w, minQ |-> Push(1, s.minQ, p), maxQ |-> ReplaceTop(-1, s.maxQ, p)]
           ELSE [s EXCEPT !.ws = w]

OfferAll(s, nbrs) ==
  LET offered[i \in 0 .. Len(nbrs)] == IF i = 0 THEN s ELSE Offer(offered[i - 1], nbrs[i])
  IN  offered[Len(nbrs)]

Expand ==
  /\ op.kind \in {"add", "search"}
  /\ ~LoopEnds
  /\ LET s == OfferAll([ws |-> ws, minQ |-> PopRest(1, minQ), maxQ |-> maxQ], nodes[minQ[1].id].nbrs)
     IN  ws' = s.ws /\ minQ' = s.minQ /\ maxQ' = s.maxQ
  /\ UNCHANGED <<graphVars, tombVars, op, answer, changes>>

\* drainCandidates: the candidates, nearest first.
DrainCandidates == Reverse(PopAll(-1, maxQ))

----------------------------------------------------------------------------
(* AddVector.                                                              *)

Accepts(v) == dim \in {0, Len(v)}
Node(id, v) == [id |-> id, vec |-> v, nbrs |-> <<>>]
Known(id) == \E s \in Slots : nodes[s].id = id
SlotOf(id) == CHOOSE s \in Slots : nodes[s].id = id

\* For an id that has a node: it keeps its links and loses its tombstone.
ReplaceVector(id, v) ==
  /\ op = NoCall /\ Known(id) /\ Accepts(v)
  /\ changes < MaxChanges /\ changes' = changes + 1
  /\ nodes' = [nodes EXCEPT ![SlotOf(id)].vec = v]
  /\ deleted' = deleted \ {SlotOf(id)}
  /\ deletedCount' = IF SlotOf(id) \in deleted THEN deletedCount - 1 ELSE deletedCount
  /\ UNCHANGED <<dim, entrypoint, callVars>>

AddFirst(id, v) ==
  /\ op = NoCall /\ nodes = <<>> /\ Accepts(v)
  /\ nodes' = <<Node(id, v)>> /\ dim' = Len(v) /\ entrypoint' = 1
  /\ UNCHANGED <<tombVars, callVars, changes>>

AddNode(id, v) ==
  /\ op = NoCall /\ nodes # <<>> /\ ~Known(id) /\ Accepts(v)
  /\ nodes' = Append(nodes, Node(id, v))
  /\ Begin(nodes', [kind |-> "add", query |-> v, ef |-> EfConstruction])
  /\ UNCHANGED <<dim, entrypoint, tombVars, answer, changes>>

\* node.addNeighbor.
AddNeighbor(ns, s, n) ==
  IF n = s \/ Contains(ns[s].nbrs, n) THEN ns
  ELSE [ns EXCEPT ![s].nbrs = Append(@, n)]

\* pruneNeighborsLocked.
Prune(ns, s) ==
  LET pairs == [i \in DOMAIN ns[s].nbrs |-> Pair(ns, ns[s].nbrs[i], ns[s].vec)]
  IN  IF Len(pairs) <= M THEN ns ELSE [ns EXCEPT ![s].nbrs = Slot(Nearest(pairs, M))]

\* Mutant of LinkBoth: the neighbour's list is not pruned.
LinkBothUnpruned(ns, n) == AddNeighbor(AddNeighbor(ns, Len(ns), n), n, Len(ns))

\* Mutant of LinkBoth: only the neighbour gets a link.
LinkOneWay(ns, n) == IF n = Len(ns) THEN ns ELSE Prune(AddNeighbor(ns, n, Len(ns)), n)

\* The new node, the last, and one of the nodes it is linked to.
LinkBoth(ns, n) ==
  IF n = Len(ns) THEN ns
  ELSE Prune(AddNeighbor(AddNeighbor(ns, Len(ns), n), n, Len(ns)), n)

LinkAll(ns, slots) ==
  LET linked[i \in 0 .. Len(slots)] == IF i = 0 THEN ns ELSE LinkBoth(linked[i - 1], slots[i])
  IN  linked[Len(slots)]

\* After the search; one new node in twenty becomes the entry point.
Link ==
  /\ op.kind = "add" /\ LoopEnds
  /\ nodes' = Prune(LinkAll(nodes, Slot(Nearest(DrainCandidates, M))), Len(nodes))
  /\ entrypoint' \in {entrypoint, Len(nodes)}
  /\ op' = NoCall /\ minQ' = <<>> /\ maxQ' = <<>>
  /\ UNCHANGED <<dim, tombVars, ws, answer, changes>>

----------------------------------------------------------------------------
(* DeleteVector, Search and SearchWithDistancesInto.                       *)

DeleteVector(id) ==
  /\ op = NoCall /\ Known(id) /\ SlotOf(id) \notin deleted
  /\ changes < MaxChanges /\ changes' = changes + 1
  /\ deleted' = deleted \cup {SlotOf(id)}
  /\ deletedCount' = deletedCount + 1
  /\ UNCHANGED <<graphVars, callVars>>

Search(q, k) ==
  /\ op = NoCall /\ nodes # <<>> /\ Len(q) = dim
  /\ Begin(nodes, [kind |-> "search", query |-> q, ef |-> EfSearch, k |-> k])
  /\ UNCHANGED <<graphVars, tombVars, answer, changes>>

\* liveCandidates.
LiveStep(s, p) == IF p.id \in deleted THEN s ELSE Append(s, p)
LiveCandidates(c) ==
  LET live[i \in 0 .. Len(c)] == IF i = 0 THEN <<>> ELSE LiveStep(live[i - 1], c[i])
  IN  IF deletedCount = 0 THEN c ELSE live[Len(c)]

\* Mutant of Results: the candidates are cut before the tombstones are left out.
ResultsCutFirst(k) == LiveCandidates(Nearest(DrainCandidates, k))

\* searchResults64Locked, after the loop.
Results(k) == Nearest(LiveCandidates(DrainCandidates), k)

Answer ==
  /\ op.kind = "search" /\ LoopEnds
  /\ answer' = Results(op.k)
  /\ op' = [op EXCEPT !.kind = "answered"]
  /\ minQ' = <<>> /\ maxQ' = <<>>
  /\ UNCHANGED <<graphVars, tombVars, ws, changes>>

Return ==
  /\ op.kind = "answered"
  /\ op' = NoCall /\ answer' = <<>>
  /\ UNCHANGED <<graphVars, tombVars, ws, minQ, maxQ, changes>>

----------------------------------------------------------------------------
Next ==
  \/ \E id \in ID, v \in Vectors : AddFirst(id, v) \/ AddNode(id, v) \/ ReplaceVector(id, v)
  \/ \E id \in ID : DeleteVector(id)
  \/ \E q \in Vectors, k \in Ks : Search(q, k)
  \/ Expand \/ Link \/ Answer \/ Return

Spec == Init /\ [][Next]_vars

----------------------------------------------------------------------------
(* Properties.                                                             *)

AnnTypeOK ==
  /\ \A s \in Slots : nodes[s].id \in ID /\ nodes[s].vec \in Vectors /\ Range(nodes[s].nbrs) \subseteq Slots
  /\ dim \in Nat /\ entrypoint \in Slots \cup {0} /\ deleted \subseteq Slots /\ deletedCount \in 0 .. Len(nodes)
  /\ ws.epoch \in 0 .. Epochs - 1 /\ Len(ws.marks) <= Len(nodes)
  /\ op.kind \in {"none", "add", "search", "answered"}
  /\ changes \in 0 .. MaxChanges

\* Between calls every node has at most M neighbours, none twice and not
\* itself, whatever was linked, pruned, replaced and deleted (AddVector,
\* pruneNeighborsLocked).
\* The types are part of it.
DegreeBounded ==
  /\ AnnTypeOK
  /\ op = NoCall => \A s \in Slots :
       LET nbrs == nodes[s].nbrs
       IN  Len(nbrs) <= M /\ s \notin Range(nbrs) /\ IsInjective(nbrs)

\* Once there are two nodes, each has a way out: whichever node becomes the
\* entry point, and whatever pruning took from it, a search from there sees
\* more than that node.
NoDeadEnd ==
  op = NoCall /\ Len(nodes) > 1 => \A s \in Slots : nodes[s].nbrs # <<>>

\* In every round of the loop maxQ holds the ef nearest of the nodes visited
\* so far, each once, with the worst on top.
CandidatesAreNearest ==
  op.kind \in {"add", "search"} =>
    LET kept == Range(Slot(maxQ))
    IN  /\ kept \subseteq Visited
        /\ Len(maxQ) = Min({op.ef, Cardinality(Visited)}) /\ Cardinality(kept) = Len(maxQ)
        /\ \A i \in DOMAIN maxQ : maxQ[i] = Pair(nodes, maxQ[i].id, op.query)
        /\ \A s \in kept : Pair(nodes, s, op.query).distance <= maxQ[1].distance
        /\ \A s \in Visited \ kept : Pair(nodes, s, op.query).distance >= maxQ[1].distance

\* The nodes with a path from the entry point: those in every set that has the
\* entry point and, with a node, its neighbours.
Closed(S) == \A s \in S : Range(nodes[s].nbrs) \subseteq S
Reachable == {s \in Slots : \A S \in SUBSET Slots : entrypoint \in S /\ Closed(S) => s \in S}

\* A search whose ef covers every node it can reach misses none of them: it
\* answers with the k nearest of the reachable vectors that are not deleted,
\* nearest first, however often its workspace was used before.
AnswerExact ==
  op.kind = "answered" /\ Cardinality(Reachable) <= op.ef =>
    LET live == Reachable \ deleted
        got == Range(Slot(answer))
    IN  /\ got \subseteq live
        /\ Len(answer) = Min({op.k, Cardinality(live)}) /\ Cardinality(got) = Len(answer)
        /\ \A i \in DOMAIN answer : answer[i] = Pair(nodes, answer[i].id, op.query)
        /\ \A i \in 1 .. Len(answer) - 1 : answer[i].distance <= answer[i + 1].distance
        /\ answer # <<>> => \A s \in live \ got :
             Pair(nodes, s, op.query).distance >= Last(answer).distance

\* No deleted vector is ever returned, and tombstones, which take places
\* among the ef candidates, cost at most as many results as there are.
TombstonesBounded ==
  op.kind = "answered" =>
    /\ Range(Slot(answer)) \cap deleted = {}
    /\ Len(answer) >= Min({op.k, Min({op.ef, Cardinality(Visited)}) - Cardinality(deleted)})
=============================================================================
