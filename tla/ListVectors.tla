---------------------------- MODULE ListVectors ----------------------------
(***************************************************************************)
(* Listing by pages (internal/core/list_vectors.go, ordered_id_index.go)   *)
(* and the loop of a client that asks for page after page (GRPCVector-     *)
(* Client.ListVectors), while others add and delete vectors.  The ids of a *)
(* page are selected under the store's lock; their payloads are read one   *)
(* by one afterwards, and the next page starts after the last id of this.  *)
(* An id is a number, ordered as the code orders strings; 0 is the empty   *)
(* string, which is no id and as a cursor means "from the start".  Cursors *)
(* travel base64-encoded, which loses nothing.                             *)
(***************************************************************************)
EXTENDS Naturals, Sequences, FiniteSets, FiniteSetsExt

CONSTANTS
  ID,         \* vector identifiers
  Limit,      \* the vectors in a page
  ReadErrors  \* GetVector may fail for a vector that is stored

ASSUME ListAssumption ==
  /\ ID \subseteq Nat \ {0} /\ IsFiniteSet(ID)
  /\ Limit \in Nat \ {0}
  /\ ReadErrors \in BOOLEAN

VARIABLES
  live,           \* the ids in the store
  pc, cursor,     \* the client: where it is, the cursor it sends
  idsOnly,        \* it asks for ids without payloads
  out,            \* what it has received
  todo, cands,    \* selectPageIDsFromRange: ids not yet visited, candidates
  page,           \* the ids of the page that remain to be read
  nextCursor,
  always, ever    \* history: the ids stored all the time, or some time, since
                  \* the client began

vars == <<live, pc, cursor, idsOnly, out, todo, cands, page, nextCursor, always, ever>>
clientVars == <<pc, cursor, idsOnly, out, todo, cands, page, nextCursor>>

Init ==
  /\ live = {} /\ pc = "idle" /\ cursor = 0 /\ idsOnly = FALSE /\ out = <<>>
  /\ todo = {} /\ cands = {} /\ page = {} /\ nextCursor = 0
  /\ always = {} /\ ever = {}

----------------------------------------------------------------------------
(* Others.  The store's lock excludes them while a range is visited.       *)

Add(id) ==
  /\ pc # "scan"
  /\ live' = live \cup {id} /\ ever' = ever \cup {id}
  /\ UNCHANGED <<clientVars, always>>

Delete(id) ==
  /\ pc # "scan"
  /\ live' = live \ {id} /\ always' = always \ {id}
  /\ UNCHANGED <<clientVars, ever>>

----------------------------------------------------------------------------
(* ListVectorsPage.                                                        *)

\* Mutant of Later: the cursor is inclusive.
LaterOrEqual(ids) == {id \in ids : id >= cursor}

Later(ids) == {id \in ids : id > cursor}

\* S is the n smallest members of ids, or all of them.
IsFirst(S, ids, n) ==
  /\ S \subseteq ids
  /\ S = ids \/ Cardinality(S) = n
  /\ Cardinality(S) <= n
  /\ \A x \in ids \ S, y \in S : y < x

\* Mutant of Selected: the cursor is the id that was looked ahead at.
SelectedCursorAhead(S) ==
  /\ IF Cardinality(S) > Limit
     THEN page' = S \ {Max(S)} /\ nextCursor' = Max(S)
     ELSE page' = S /\ nextCursor' = 0
  /\ pc' = "read"

\* One id more than the page holds was selected, to know whether more follow.
Selected(S) ==
  /\ IF Cardinality(S) > Limit
     THEN page' = S \ {Max(S)} /\ nextCursor' = Max(S \ {Max(S)})
     ELSE page' = S /\ nextCursor' = 0
  /\ pc' = "read"

\* orderedIDIndex.PageAfter.
PageAfter ==
  /\ pc = "call"
  /\ \E S \in SUBSET live : IsFirst(S, Later(live), Limit + 1) /\ Selected(S)
  /\ UNCHANGED <<live, cursor, idsOnly, out, todo, cands, always, ever>>

\* selectPageIDsFromRange, for a store that cannot page: every id is visited,
\* in any order, and a heap keeps the smallest.
ScanBegin ==
  /\ pc = "call"
  /\ pc' = "scan" /\ todo' = live /\ cands' = {}
  /\ UNCHANGED <<live, cursor, idsOnly, out, page, nextCursor, always, ever>>

\* Mutant of Keep: the heap's top is not replaced.
KeepFirstCome(S, id, n) == IF Cardinality(S) < n THEN S \cup {id} ELSE S

\* The heap after a visit of id.
Keep(S, id, n) ==
  IF Cardinality(S) < n THEN S \cup {id}
  ELSE IF id < Max(S) THEN (S \ {Max(S)}) \cup {id} ELSE S

ScanOne(id) ==
  /\ pc = "scan"
  /\ id \in todo
  /\ todo' = todo \ {id}
  /\ cands' = IF id \in Later(live) THEN Keep(cands, id, Limit + 1) ELSE cands
  /\ UNCHANGED <<live, pc, cursor, idsOnly, out, page, nextCursor, always, ever>>

ScanDone ==
  /\ pc = "scan"
  /\ todo = {}
  /\ Selected(cands)
  /\ cands' = {}
  /\ UNCHANGED <<live, cursor, idsOnly, out, todo, always, ever>>

\* The payload of the next id is read; an id that cannot be read is left out.
ReadOne ==
  /\ pc = "read"
  /\ page # {}
  /\ page' = page \ {Min(page)}
  /\ \/ /\ idsOnly \/ Min(page) \in live
        /\ out' = Append(out, Min(page))
     \/ /\ ~idsOnly /\ (ReadErrors \/ Min(page) \notin live)
        /\ UNCHANGED out
  /\ UNCHANGED <<live, pc, cursor, idsOnly, todo, cands, nextCursor, always, ever>>

----------------------------------------------------------------------------
(* The client's loop.                                                      *)

ListVectors(only) ==
  /\ pc = "idle"
  /\ pc' = "call" /\ cursor' = 0 /\ idsOnly' = only /\ out' = <<>>
  /\ always' = live /\ ever' = live
  /\ UNCHANGED <<live, todo, cands, page, nextCursor>>

\* Mutant of ReturnPage: the cursor is the last vector that could be read.
ReturnPageLastRead ==
  LET last == IF out = <<>> THEN 0 ELSE out[Len(out)] IN
  /\ pc = "read"
  /\ page = {}
  /\ pc' = CASE nextCursor = 0 -> "done"
             [] nextCursor # 0 /\ last = cursor -> "stuck"
             [] OTHER -> "call"
  /\ cursor' = IF nextCursor = 0 THEN cursor ELSE last
  /\ UNCHANGED <<live, idsOnly, out, todo, cands, page, nextCursor, always, ever>>

\* The client gets the page.  A cursor that does not advance is an error.
ReturnPage ==
  /\ pc = "read"
  /\ page = {}
  /\ pc' = CASE nextCursor = 0 -> "done"
             [] nextCursor # 0 /\ nextCursor = cursor -> "stuck"
             [] OTHER -> "call"
  /\ cursor' = IF nextCursor = 0 THEN cursor ELSE nextCursor
  /\ UNCHANGED <<live, idsOnly, out, todo, cands, page, nextCursor, always, ever>>

\* The listing is returned, or a call failed and the client gives up.
Finish ==
  /\ pc \in {"done", "stuck", "call"}
  /\ pc' = "idle"
  /\ UNCHANGED <<live, cursor, idsOnly, out, todo, cands, page, nextCursor, always, ever>>

\* What the handler does for one call.
ListVectorsPage ==
  \/ PageAfter
  \/ ScanBegin \/ (\E id \in ID : ScanOne(id)) \/ ScanDone
  \/ ReadOne
Step == ListVectorsPage \/ ReturnPage

Next ==
  \/ \E id \in ID : Add(id) \/ Delete(id)
  \/ \E only \in BOOLEAN : ListVectors(only)
  \/ Step
  \/ Finish

Spec == Init /\ [][Next]_vars

\* The server answers and the client goes on; others may do as they like.
FairSpec == Spec /\ WF_vars(Step)

----------------------------------------------------------------------------
ListTypeOK ==
  /\ live \subseteq ID /\ always \subseteq ID /\ ever \subseteq ID
  /\ pc \in {"idle", "call", "scan", "read", "done", "stuck"}
  /\ cursor \in ID \cup {0} /\ nextCursor \in ID \cup {0} /\ idsOnly \in BOOLEAN
  /\ out \in Seq(ID)
  /\ todo \subseteq ID /\ cands \subseteq ID /\ page \subseteq ID

Listed == {out[i] : i \in DOMAIN out}

\* A finished listing holds every vector that was stored all the while, however
\* many others were added and deleted between and within its pages (and unless
\* reads fail, which ListVectorsPage passes over in silence).
ListedComplete == pc = "done" /\ ~ReadErrors => always \subseteq Listed

\* A listing is in the order of the ids and without repetition, across pages,
\* and names only vectors that were stored at some time during the listing.
\* The types are part of it.
ListedOnceInOrder ==
  /\ ListTypeOK
  /\ \A i, j \in DOMAIN out : i < j => out[i] < out[j]
  /\ Listed \subseteq ever

\* The heap selection finds what the ordered index would, in whatever order the
\* ids are visited.
ScanFindsFirst ==
  pc = "scan" /\ todo = {} => IsFirst(cands, Later(live), Limit + 1)

\* The loop ends, in a listing or in the failure of a call, and not because the
\* cursor did not advance: pages may come back empty, never the same.
LoopEnds == pc = "call" ~> pc \in {"done", "idle"}
============================================================================
