--------------------------- MODULE ServiceSearch ---------------------------
(***************************************************************************)
(* Service.Search (internal/core/service.go) beside the writes of module   *)
(* VectorService.  A search takes none of the writers' locks across its    *)
(* steps: it searches the ANN index, looks the internal ids it got up in   *)
(* the resolver one by one, and falls back on a scan of the exact index;   *)
(* adds, deletions, rollbacks and rebuilds fall between these steps.       *)
(*                                                                         *)
(* Searches share nothing but counters, so one is followed at a time.  It  *)
(* takes the pointer to the ANN index and searches it in one step: a       *)
(* replaced index does not change any more, so searching it later gives    *)
(* what searching it just before it was replaced would have given.  What   *)
(* the ANN index answers is what module AnnIndex promises: live nodes,     *)
(* nearest first, at most k, possibly not the nearest ones and possibly    *)
(* none.                                                                   *)
(*                                                                         *)
(* A distance may be no number: a query with a NaN, or an infinity in the  *)
(* query and in the vector at one place.  selectNearest compares with <,   *)
(* so such candidates stay among the others, which are in order.           *)
(***************************************************************************)
EXTENDS VectorService, SequencesExt

CONSTANTS
  Query,      \* query vectors
  QueryDim,   \* the number of components of each query
  Distance,   \* Distance[q][val]: the sum over the components of q
  NaN,        \* a distance that is no number
  Ks          \* the values of k clients ask for

ASSUME SearchAssumption ==
  /\ None \notin Query
  /\ QueryDim \in [Query -> Nat \ {0}]
  /\ NaN \notin Nat
  /\ Distance \in [Query -> [Val -> Nat \cup {NaN}]]
  /\ Ks \subseteq Nat \ {0}

VARIABLES
  spc,          \* where the search is
  query, k,
  cands,        \* the candidates that remain to be looked up: [n, val]
  result,       \* a sequence of [id, val]
  exact,        \* the answer came from the exact index
  seen, steady, \* history: the vectors visible at some time, or stored and not
                \* being written at all times, since the search began
  everBare      \* history: at some time since, no vector of the exact index had
                \* a number as its distance from the query

searchVars == <<spc, query, k, cands, result, exact>>
searchHist == <<seen, steady, everBare>>
allVars == <<vars, searchVars, searchHist>>

NoQuery == None
SearchInit ==
  /\ Init
  /\ spc = "idle" /\ query = NoQuery /\ k = 0 /\ cands = <<>> /\ result = <<>> /\ exact = FALSE
  /\ seen = {} /\ steady = {} /\ everBare = FALSE

----------------------------------------------------------------------------
(* The history.                                                            *)

Entry(id, val) == [id |-> id, val |-> val]
IndexEntries == {Entry(id, index[id]) : id \in Live(index)}
StoreEntries == {Entry(id, store[id]) : id \in Live(store)}
\* The vectors of the request in progress: added, or being deleted.
InFlight ==
  {e \in {batch[i] : i \in DOMAIN batch} : e.val # None}
    \cup (IF saved = None THEN {} ELSE {Entry(batch[1].id, saved)})
Untouched == StoreEntries \ InFlight
HasDistance(q, e) == Distance[q][e.val] # NaN
Bare(q, entries) == \A e \in entries : ~HasDistance(q, e)

Observe ==
  /\ seen' = IF spc = "idle" THEN {} ELSE seen \cup IndexEntries' \cup InFlight'
  /\ steady' = IF spc = "idle" THEN {} ELSE steady \cap Untouched'
  /\ everBare' = (spc # "idle" /\ (everBare \/ Bare(query, IndexEntries')))

----------------------------------------------------------------------------
(* Search.                                                                 *)

Serving == pc \notin {"down", "load", "replay", "restoreSave", "restoreTrunc"}

\* With search.mode "ann", after validateSearchRequest.
SearchBegin(q, n) ==
  /\ spc = "idle" /\ Serving
  /\ spc' = "ann" /\ query' = q /\ k' = n /\ exact' = FALSE
  /\ seen' = IndexEntries \cup InFlight /\ steady' = Untouched /\ everBare' = Bare(q, IndexEntries)
  /\ UNCHANGED <<vars, cands, result>>

Nearer(x, y) == Distance[query][x] <= Distance[query][y]
InOrder(x, y) == HasDistance(query, x) /\ HasDistance(query, y) => Nearer(x.val, y.val)
Ascending(s) == \A i, j \in 1 .. Len(s) : i < j => InOrder(s[i], s[j])

\* The answers of n different members of S, nearest first.
Sorted(S, n) == {s \in [1 .. n -> S] : IsInjective(s) /\ Ascending(s)}
LiveNodes(a) == {[n |-> n, val |-> a.vec[n]] : n \in AnnNodes(a) \ a.dead}

\* annIndex.SearchWithDistancesInto.
SearchANN ==
  /\ spc = "ann"
  /\ QueryDim[query] = ann.dim
  /\ \E n \in 0 .. k : cands' \in Sorted(LiveNodes(ann), n)
  /\ spc' = "resolve"
  /\ UNCHANGED <<vars, query, k, result, exact, searchHist>>

\* It has no vectors yet, or vectors of another dimension.
SearchANNFails ==
  /\ spc = "ann"
  /\ QueryDim[query] # ann.dim
  /\ spc' = "exact"
  /\ UNCHANGED <<vars, query, k, cands, result, exact, searchHist>>

\* Mutant of Lookup: the distance is not looked at.
LookupAnyDistance ==
  LET c == Head(cands)
      ids == {id \in ID : idToInternal[id] = c.n}
  IN
  /\ spc = "resolve" /\ cands # <<>>
  /\ cands' = Tail(cands)
  /\ result' = IF ids = {} THEN result ELSE Append(result, Entry(CHOOSE id \in ids : TRUE, c.val))
  /\ UNCHANGED <<vars, spc, query, k, exact, searchHist>>

\* idResolver.Lookup of one candidate; one that is gone, or whose distance is
\* no number, is skipped.
Lookup ==
  LET c == Head(cands)
      ids == {id \in ID : idToInternal[id] = c.n}
  IN
  /\ spc = "resolve" /\ cands # <<>>
  /\ cands' = Tail(cands)
  /\ result' = IF ids = {} \/ ~HasDistance(query, c) THEN result
               ELSE Append(result, Entry(CHOOSE id \in ids : TRUE, c.val))
  /\ UNCHANGED <<vars, spc, query, k, exact, searchHist>>

\* Mutant of LookupDone: no fallback when nothing is left of the candidates.
LookupDoneEmpty ==
  /\ spc = "resolve" /\ cands = <<>>
  /\ spc' = "done"
  /\ UNCHANGED <<vars, query, k, cands, result, exact, searchHist>>

LookupDone ==
  /\ spc = "resolve" /\ cands = <<>>
  /\ spc' = IF result = <<>> THEN "exact" ELSE "done"
  /\ UNCHANGED <<vars, query, k, cands, result, exact, searchHist>>

\* SquaredEuclideanDistance32SameLen reads as many components of the vector
\* as the query has: a longer query is out of range, and the call panics.
OutOfRange == \E e \in IndexEntries : QueryDim[query] > Dim[e.val]

\* What topKAccumulator keeps of the vectors S (module BatchSearch).
IsTopK(S) ==
  /\ result' \in Sorted(S, IF Cardinality(S) < k THEN Cardinality(S) ELSE k)
  /\ \A e \in S \ Range(result') : result' # <<>> => Nearer(Last(result').val, e.val)

\* searchExact: RangeVectors32 holds the index's read lock for the whole scan.
\* A distance that is no number is not added.
SearchExact ==
  /\ spc = "exact"
  /\ ~OutOfRange
  /\ IsTopK({e \in IndexEntries : HasDistance(query, e)})
  /\ spc' = "done" /\ exact' = TRUE
  /\ UNCHANGED <<vars, query, k, cands, searchHist>>

SearchPanics ==
  /\ spc = "exact"
  /\ OutOfRange
  /\ spc' = "panicked"
  /\ UNCHANGED <<vars, query, k, cands, result, exact, searchHist>>

\* Search returns, or net/http recovers from the panic (under gRPC the process
\* dies, which ends the search too).
SearchReturns ==
  /\ spc \in {"done", "panicked"}
  /\ spc' = "idle" /\ query' = NoQuery /\ k' = 0 /\ result' = <<>> /\ exact' = FALSE
  /\ seen' = {} /\ steady' = {} /\ everBare' = FALSE
  /\ UNCHANGED <<vars, cands>>

----------------------------------------------------------------------------
ServiceStep ==
  \/ \E b \in Batches : AddVectors(b)
  \/ \E id \in ID : DeleteVector(id)
  \/ Add \/ Delete \/ Log \/ MaybeSnapshot \/ Restart \/ RestoreState

SearchNext ==
  \/ ServiceStep /\ Observe /\ UNCHANGED searchVars
  \/ \E q \in Query, n \in Ks : SearchBegin(q, n)
  \/ SearchANN \/ SearchANNFails \/ Lookup \/ LookupDone \/ SearchExact \/ SearchPanics
  \/ SearchReturns

SearchSpec == SearchInit /\ [][SearchNext]_allVars

----------------------------------------------------------------------------
SearchTypeOK ==
  /\ spc \in {"idle", "ann", "resolve", "exact", "done", "panicked"}
  /\ query \in Query \cup {NoQuery} /\ k \in Ks \cup {0}
  /\ \A c \in Range(cands) : c.n \in 1 .. nextInternal /\ c.val \in Val
  /\ Range(result) \subseteq [id : ID, val : Val]
  /\ exact \in BOOLEAN /\ everBare \in BOOLEAN

\* Every result names a vector that was in the service while the search ran:
\* stored, or part of a write in progress.  No result pairs an id with the
\* distance of another vector or of an earlier, deleted or rolled back one,
\* although the ids are looked up after the ANN search, with writes between.
\* No vector comes twice, every distance is a number, and the nearest come first.
\* The types are part of it.
SearchSound ==
  /\ SearchTypeOK
  /\ spc = "done" =>
       /\ Range(result) \subseteq seen
       /\ Len(result) <= k /\ Cardinality({e.id : e \in Range(result)}) = Len(result)
       /\ \A e \in Range(result) : HasDistance(query, e)
       /\ Ascending(result)

\* An answer of the exact index misses no vector that was stored all the time,
\* untouched by any request in progress, and is nearer than one it returns; it
\* is short only when no other vector with a distance was there all the time.
SteadyFound ==
  spc = "done" /\ exact =>
    \A e \in steady \ Range(result) :
      HasDistance(query, e) => Len(result) = k /\ Nearer(Last(result).val, e.val)

\* A search that finds nothing, whatever the ANN index missed and whatever was
\* deleted under its candidates, met a service without a vector whose distance
\* from the query is a number: an empty one, unless infinities or NaN meet.
EmptyOnlyIfBare == spc = "done" /\ result = <<>> => everBare

\* searchExact calls SquaredEuclideanDistance32SameLen, whose callers "must
\* ensure both slices have the same length".
SameLength == spc = "exact" => \A e \in IndexEntries : Dim[e.val] = QueryDim[query]
============================================================================
