------------------------ MODULE ServiceSearchProofs ------------------------
(***************************************************************************)
(* Proofs about ServiceSearch, for every set of vectors and queries: a     *)
(* search beside any writes, failures of the log and compactions misses no *)
(* vector that stayed, answers nothing only to an empty service and, as    *)
(* long as every append to the log is all or nothing, answers with vectors *)
(* that were there while it ran, each once, the nearest first.             *)
(***************************************************************************)
EXTENDS ServiceSearch, VectorServiceProofs

USE DEF diskVars, memVars, reqVars, histVars

----------------------------------------------------------------------------
(* The search leaves the service alone.                                    *)

LEMMA SearchStep ==
  ASSUME [SearchNext]_allVars
  PROVE  \/ ServiceStep /\ Observe /\ UNCHANGED searchVars
         \/ (\E q \in Query, n \in Ks : SearchBegin(q, n)) /\ UNCHANGED vars
         \/ SearchANN /\ UNCHANGED <<vars, searchHist>>
         \/ SearchANNFails /\ UNCHANGED <<vars, searchHist>>
         \/ Lookup /\ UNCHANGED <<vars, searchHist>>
         \/ LookupDone /\ UNCHANGED <<vars, searchHist>>
         \/ SearchExact /\ UNCHANGED <<vars, searchHist>>
         \/ SearchPanics /\ UNCHANGED <<vars, searchHist>>
         \/ SearchReturns /\ UNCHANGED vars
         \/ UNCHANGED <<vars, searchVars, searchHist>>
BY DEF SearchNext, allVars, SearchBegin, SearchANN, SearchANNFails, Lookup, LookupDone,
       SearchExact, SearchPanics, SearchReturns, searchHist

LEMMA SearchNextIsNext ==
  ASSUME [SearchNext]_allVars PROVE [Next]_vars
BY SearchStep DEF ServiceStep, Next

LEMMA SearchIsService == SearchSpec => Spec
<1>1. SearchInit => Init
  BY DEF SearchInit
<1>2. [SearchNext]_allVars => [Next]_vars
  BY SearchNextIsNext
<1> QED BY <1>1, <1>2, PTL DEF SearchSpec, Spec

\* A service that serves goes on serving: in this module no process dies.
LEMMA ServingStays ==
  ASSUME Serving, pc \in PCs, ServiceStep PROVE Serving'
<1>1. ~RestoreState /\ ~Restart
  BY DEF Serving, RestoreState, Restart, LoadSnapshotOK, LoadSnapshotFails, LoadSnapshotUnreadable,
         ReplayLine, ReplayStops, ReplayUnreadable, ReplayDone, RestoreSave, RestoreTruncate
<1>2. CASE (\E b \in Batches : AddVectors(b)) \/ \E id \in ID : DeleteVector(id)
  BY <1>2 DEF AddVectors, DeleteVector, Serving
<1>3. CASE Add
  BY <1>3 DEF Add, AddToIndex, RefuseVector, UpsertVectors, AddToANN, RefuseByANN, RollbackOne,
              RollbackDone, ReturnError, Return, Serving
<1>4. CASE Delete
  BY <1>4 DEF Delete, DeleteFromIndex, DeleteFromStore, DeleteFromANN, Serving
<1>5. CASE Log
  BY <1>5 DEF Log, LogOK, LogFailsAdd, LogFailsDelete, Return, Serving
<1>6. CASE MaybeSnapshot
  BY <1>6 DEF MaybeSnapshot, SnapshotNotDue, SnapshotDue, SyncStep, SaveStep, TruncateStep,
              ReturnOK, ReturnError, Return, Serving
<1> QED BY <1>1, <1>2, <1>3, <1>4, <1>5, <1>6 DEF ServiceStep

----------------------------------------------------------------------------
(* What is in the store and not in the index is being written.             *)

WriteInv ==
  /\ pc = "rollback" => \A id \in Live(store) : index[id] = store[id]
  /\ pc \in {"delIndex", "delStore"} => saved = store[batch[1].id]

LEMMA RollbackWrites ==
  ASSUME IInv, WriteInv, RefuseVector \/ RefuseByANN \/ RollbackOne \/ LogFailsAdd
  PROVE  WriteInv'
<1>1. index \in [ID -> Stored] /\ store \in [ID -> Stored] /\ StoredInv
  BY DEF IInv, StoredInv
<1>2. CASE RefuseVector
  <2>1. Indexed(cur - 1) /\ UNCHANGED <<index, store>> /\ pc' = "rollback"
    BY <1>2 DEF RefuseVector, IInv, AtIndex
  <2>2. \A id \in Live(store) : index[id] = store[id]
    BY <2>1 DEF Indexed, Outside, Live
  <2> QED BY <2>1, <2>2 DEF WriteInv, Live
<1>3. CASE RefuseByANN
  <2>1. index = store /\ index' = Drop(index, batch[cur].id) /\ store' = Drop(store, batch[cur].id)
        /\ pc' = "rollback"
    BY <1>3 DEF RefuseByANN, IInv, AtAnn, Applied
  <2> QED BY <2>1 DEF WriteInv
<1>4. CASE RollbackOne
  <2>1. /\ \A id \in Live(store) : index[id] = store[id]
        /\ index' = Drop(index, batch[cur].id) /\ store' = Drop(store, batch[cur].id)
        /\ pc' = "rollback"
    BY <1>4 DEF RollbackOne, WriteInv
  <2>2. \A id \in Live(store') : index'[id] = store'[id]
    BY <1>1, <2>1 DEF Live, Drop
  <2> QED BY <2>1, <2>2 DEF WriteInv, Live
<1>5. CASE LogFailsAdd
  <2>1. index = store /\ UNCHANGED <<index, store>> /\ pc' = "rollback"
    BY <1>5 DEF LogFailsAdd, IInv, AtWal, Applied
  <2> QED BY <2>1 DEF WriteInv
<1> QED BY <1>2, <1>3, <1>4, <1>5

\* Only these steps lead to the three places WriteInv speaks of.
LEMMA WritingSteps ==
  ASSUME [Next]_vars, pc' \in {"rollback", "delIndex", "delStore"}
  PROVE  \/ RefuseVector \/ RefuseByANN \/ RollbackOne \/ LogFailsAdd
         \/ (\E id \in ID : DeleteVector(id)) /\ pc' = "delIndex"
         \/ DeleteFromIndex /\ pc' = "delStore"
         \/ UNCHANGED vars
<1>1. ~\E b \in Batches : AddVectors(b)
  BY DEF AddVectors
<1>2. ~(AddToIndex \/ UpsertVectors \/ AddToANN \/ RollbackDone)
  BY DEF AddToIndex, UpsertVectors, AddToANN, RollbackDone, ReturnError, Return
<1>3. ~(DeleteFromStore \/ DeleteFromANN \/ LogOK \/ LogFailsDelete)
  BY DEF DeleteFromStore, DeleteFromANN, LogOK, LogFailsDelete, Return
<1>4. ~MaybeSnapshot
  BY DEF MaybeSnapshot, SnapshotNotDue, SnapshotDue, SyncStep, SaveStep, TruncateStep,
         ReturnOK, ReturnError, Return
<1>5. ~(Crash \/ CrashWhileLogging \/ Restart)
  BY DEF Crash, CrashWhileLogging, LoseMemory, Restart
<1>6. ~RestoreState
  BY DEF RestoreState, LoadSnapshotOK, LoadSnapshotFails, LoadSnapshotUnreadable,
         ReplayLine, ReplayStops, ReplayUnreadable, ReplayDone, RestoreSave, RestoreTruncate, ReturnError, Return
<1>7. /\ (\E id \in ID : DeleteVector(id)) => pc' = "delIndex"
      /\ DeleteFromIndex => pc' = "delStore"
  BY DEF DeleteVector, DeleteFromIndex
<1> QED BY <1>1, <1>2, <1>3, <1>4, <1>5, <1>6, <1>7 DEF Next, Add, Delete, Log

LEMMA NextWrites ==
  ASSUME IInv, WriteInv, [Next]_vars PROVE WriteInv'
<1>1. CASE pc' \notin {"rollback", "delIndex", "delStore"}
  BY <1>1 DEF WriteInv
<1>2. CASE RefuseVector \/ RefuseByANN \/ RollbackOne \/ LogFailsAdd
  BY <1>2, RollbackWrites
<1>3. CASE (\E id \in ID : DeleteVector(id)) /\ pc' = "delIndex"
  <2>1. PICK id \in ID : DeleteVector(id)
    BY <1>3
  <2>2. batch' = <<[id |-> id, val |-> None]>> /\ saved' = store[id] /\ store' = store
    BY <2>1 DEF DeleteVector
  <2>3. batch'[1].id = id
    BY <2>2
  <2> QED BY <1>3, <2>2, <2>3 DEF WriteInv
<1>4. CASE DeleteFromIndex /\ pc' = "delStore"
  BY <1>4 DEF DeleteFromIndex, WriteInv
<1>5. CASE UNCHANGED vars
  BY <1>5 DEF vars, WriteInv, Live
<1> QED BY <1>1, <1>2, <1>3, <1>4, <1>5, WritingSteps

\* A stored vector that no request in progress writes is in the index.
LEMMA UntouchedIsIndexed ==
  ASSUME IInv, WriteInv, Serving PROVE Untouched \subseteq IndexEntries
<1>1. StoredInv /\ pc \in PCs
  BY DEF IInv, StoredInv
<1>2. SUFFICES ASSUME NEW id \in ID, store[id] # None, Entry(id, store[id]) \notin InFlight
               PROVE  index[id] = store[id]
  <2>1. \A id \in ID : store[id] # None /\ Entry(id, store[id]) \notin InFlight => index[id] = store[id]
    BY <1>2
  <2> QED BY <2>1 DEF Untouched, StoreEntries, IndexEntries, Live
<1>3. CASE pc = "idle"
  BY <1>3 DEF IInv, AtIdle
<1>4. CASE pc = "delIndex"
  BY <1>4 DEF IInv, AtDelIndex, AtIdle
<1>5. CASE pc = "index"
  BY <1>2, <1>5 DEF IInv, AtIndex, Indexed, Outside
<1>6. CASE pc = "upsert"
  BY <1>2, <1>6 DEF IInv, AtUpsert, Indexed, Outside
<1>7. CASE pc \in {"ann", "wal", "snap", "sync", "save", "trunc"}
  BY <1>7 DEF IInv, AtAnn, AtWal, AtLogged, AtTrunc, Applied
<1>8. CASE pc = "rollback"
  BY <1>2, <1>8 DEF WriteInv, Live
<1>9. CASE pc = "delStore"
  <2>1. saved = store[batch[1].id] /\ saved # None /\ \A x \in ID \ {batch[1].id} : index[x] = store[x]
    BY <1>9 DEF IInv, WriteInv, AtDelStore, Restorable
  <2>2. Entry(batch[1].id, saved) \in InFlight
    BY <2>1 DEF InFlight
  <2> QED BY <1>2, <2>1, <2>2
<1>10. CASE pc = "delAnn"
  BY <1>10 DEF IInv, AtDelAnn
<1> QED BY <1>1, <1>3, <1>4, <1>5, <1>6, <1>7, <1>8, <1>9, <1>10 DEF Serving, PCs

----------------------------------------------------------------------------
(* What the search has witnessed so far, and the exact index's answer.     *)

WatchInv ==
  /\ spc \in {"idle", "ann", "resolve", "exact", "done", "panicked"}
  /\ spc # "idle" => /\ Serving /\ query \in Query /\ k \in Ks
                     /\ IndexEntries \cup InFlight \subseteq seen
                     /\ steady \subseteq Untouched
                     /\ Bare(query, IndexEntries) => everBare
  /\ spc \in {"ann", "resolve", "exact"} => exact = FALSE

LEMMA SameEntries ==
  ASSUME UNCHANGED vars
  PROVE  /\ IndexEntries' = IndexEntries /\ InFlight' = InFlight /\ Untouched' = Untouched
         /\ Serving' = Serving
BY DEF vars, IndexEntries, InFlight, Untouched, StoreEntries, Live, Serving

LEMMA NextWatch ==
  ASSUME IInv, WatchInv, [SearchNext]_allVars PROVE WatchInv'
<1>1. CASE ServiceStep /\ Observe /\ UNCHANGED searchVars
  <2>1. UNCHANGED <<spc, query, k, exact>>
    BY <1>1 DEF searchVars
  <2>2. CASE spc = "idle"
    BY <2>1, <2>2 DEF WatchInv
  <2>3. CASE spc # "idle"
    <3>1. Serving'
      BY <1>1, <2>3, ServingStays DEF WatchInv, IInv, StoredInv
    <3>2. (IndexEntries \cup InFlight)' \subseteq seen' /\ steady' \subseteq Untouched'
      BY <1>1, <2>3 DEF Observe
    <3>3. Bare(query, IndexEntries') => everBare'
      BY <1>1, <2>3 DEF Observe
    <3> QED BY <2>1, <2>3, <3>1, <3>2, <3>3 DEF WatchInv, Bare
  <2> QED BY <2>2, <2>3
<1>2. CASE (\E q \in Query, n \in Ks : SearchBegin(q, n)) /\ UNCHANGED vars
  <2>1. PICK q \in Query, n \in Ks : SearchBegin(q, n)
    BY <1>2
  <2>2. /\ spc' = "ann" /\ query' = q /\ k' = n /\ exact' = FALSE /\ Serving
        /\ seen' = IndexEntries \cup InFlight /\ steady' = Untouched /\ everBare' = Bare(q, IndexEntries)
    BY <2>1 DEF SearchBegin
  <2>3. (IndexEntries \cup InFlight)' \subseteq seen' /\ steady' \subseteq Untouched' /\ Serving'
    BY <1>2, <2>2, SameEntries
  <2>4. Bare(query', IndexEntries') => everBare'
    BY <1>2, <2>2, SameEntries
  <2> QED BY <2>2, <2>3, <2>4 DEF WatchInv, Bare
<1>3. ASSUME UNCHANGED <<vars, searchHist>>, spc # "idle", query' = query, k' = k,
             spc' \in {"ann", "resolve", "exact", "done", "panicked"},
             spc' \in {"ann", "resolve", "exact"} => exact' = FALSE
      PROVE  WatchInv'
  <2>1. (IndexEntries \cup InFlight)' \subseteq seen' /\ steady' \subseteq Untouched' /\ Serving'
    BY <1>3, SameEntries DEF WatchInv, searchHist
  <2>2. Bare(query', IndexEntries') => everBare'
    BY <1>3, SameEntries DEF WatchInv, searchHist
  <2> QED BY <1>3, <2>1, <2>2 DEF WatchInv, Bare
<1>4. CASE SearchANN /\ UNCHANGED <<vars, searchHist>>
  BY <1>3, <1>4 DEF SearchANN, WatchInv
<1>5. CASE SearchANNFails /\ UNCHANGED <<vars, searchHist>>
  BY <1>3, <1>5 DEF SearchANNFails, WatchInv
<1>6. CASE Lookup /\ UNCHANGED <<vars, searchHist>>
  BY <1>3, <1>6 DEF Lookup, WatchInv
<1>7. CASE LookupDone /\ UNCHANGED <<vars, searchHist>>
  BY <1>3, <1>7 DEF LookupDone, WatchInv
<1>8. CASE SearchExact /\ UNCHANGED <<vars, searchHist>>
  BY <1>3, <1>8 DEF SearchExact, WatchInv
<1>9. CASE SearchPanics /\ UNCHANGED <<vars, searchHist>>
  BY <1>3, <1>9 DEF SearchPanics, WatchInv
<1>10. CASE SearchReturns
  BY <1>10 DEF SearchReturns, WatchInv
<1>11. CASE UNCHANGED <<vars, searchVars, searchHist>>
  <2>1. CASE spc = "idle"
    BY <1>11, <2>1 DEF WatchInv, searchVars
  <2>2. CASE spc # "idle"
    BY <1>3, <1>11, <2>2 DEF WatchInv, searchVars
  <2> QED BY <2>1, <2>2
<1> QED BY <1>1, <1>2, <1>4, <1>5, <1>6, <1>7, <1>8, <1>9, <1>10, <1>11, SearchStep

\* The answer of the accumulator: all of S, or k vectors of S that no other
\* vector of S is nearer than.
LEMMA TopKIs ==
  ASSUME NEW S, IsFiniteSet(S), k \in Nat \ {0}, IsTopK(S)
  PROVE  /\ result' \in Seq(S) /\ Len(result') <= k /\ IsInjective(result') /\ Ascending(result')
         /\ \A e \in S \ Range(result') : Len(result') = k /\ Nearer(Last(result').val, e.val)
         /\ result' = <<>> => S = {}
<1>1. PICK c \in Nat : c = Cardinality(S)
  BY FS_CardinalityType
<1>2. PICK n \in Nat : n = IF Cardinality(S) < k THEN Cardinality(S) ELSE k
  BY <1>1
<1>3. PICK s : s = result'
  OBVIOUS
<1>4. /\ s \in Sorted(S, n)
      /\ \A e \in S \ Range(s) : s # <<>> => Nearer(Last(s).val, e.val)
  BY <1>2, <1>3 DEF IsTopK
<1>5. s \in [1 .. n -> S] /\ IsInjective(s) /\ Ascending(s)
  BY <1>4 DEF Sorted
<1>6. s \in Seq(S) /\ Len(s) = n
  <2>1. s \in Seq(S)
    BY <1>5, SeqDef
  <2> QED BY <1>5, <2>1, LenProperties
<1>7. n <= k /\ (n = 0 => c = 0) /\ (n # k => n = c)
  BY <1>1, <1>2
<1>8. s = <<>> => S = {}
  BY <1>1, <1>6, <1>7, FS_EmptySet, EmptySeq
<1>9. ASSUME NEW e \in S \ Range(s) PROVE Len(s) = k /\ Nearer(Last(s).val, e.val)
  <2>1. n = k
    <3>1. SUFFICES ASSUME n = c PROVE FALSE
      BY <1>7
    <3>2. s \in Injection(1 .. n, S)
      BY <1>5 DEF Injection
    <3>3. Cardinality(1 .. n) = Cardinality(S)
      BY <1>1, <3>1, FS_Interval
    <3>4. s \in Surjection(1 .. n, S)
      BY <3>2, <3>3, FS_Injection
    <3>5. \E i \in 1 .. n : s[i] = e
      BY <3>4 DEF Surjection
    <3>6. DOMAIN s = 1 .. n
      BY <1>5
    <3> QED BY <3>5, <3>6, <1>9 DEF Range
  <2>2. s # <<>>
    BY <1>6, <2>1, EmptySeq
  <2> QED BY <1>4, <1>6, <2>1, <2>2
<1> QED BY <1>3, <1>5, <1>6, <1>7, <1>8, <1>9

LEMMA IndexEntriesFinite == IsFiniteSet(IndexEntries)
<1> DEFINE f == [id \in Live(index) |-> Entry(id, index[id])]
<1>1. IsFiniteSet(Live(index))
  <2>1. Live(index) \in SUBSET ID
    BY DEF Live
  <2> QED BY <2>1, ServiceAssumption, FS_Subset
<1>2. f \in Surjection(Live(index), IndexEntries)
  BY DEF Surjection, IndexEntries
<1> HIDE DEF f
<1> QED BY <1>1, <1>2, FS_Surjection

\* The vectors with a distance from the query.
Measured == {e \in IndexEntries : HasDistance(query, e)}

LEMMA SearchExactAnswer ==
  ASSUME WatchInv, SearchExact
  PROVE  /\ result' \in Seq(Measured) /\ Len(result') <= k /\ IsInjective(result') /\ Ascending(result')
         /\ \A e \in Measured \ Range(result') : Len(result') = k /\ Nearer(Last(result').val, e.val)
         /\ result' = <<>> => Measured = {}
<1>1. PICK S : S = Measured
  OBVIOUS
<1>2. k \in Nat \ {0} /\ IsTopK(S) /\ IsFiniteSet(S)
  <2>1. Measured \in SUBSET IndexEntries
    BY DEF Measured
  <2>2. IsFiniteSet(S)
    BY <1>1, <2>1, IndexEntriesFinite, FS_Subset
  <2> QED BY <1>1, <2>2, SearchAssumption DEF SearchExact, WatchInv, Measured
<1>3. /\ result' \in Seq(S) /\ Len(result') <= k /\ IsInjective(result') /\ Ascending(result')
      /\ \A e \in S \ Range(result') : Len(result') = k /\ Nearer(Last(result').val, e.val)
      /\ result' = <<>> => S = {}
  BY <1>2, TopKIs
<1> QED BY <1>1, <1>3

\* The parts of the answer that hold whatever fails.
FoundInv == WatchInv /\ SteadyFound /\ EmptyOnlyIfBare

LEMMA NextFound ==
  ASSUME IInv, WriteInv, FoundInv, [SearchNext]_allVars PROVE FoundInv'
<1>1. WatchInv /\ WatchInv'
  BY NextWatch DEF FoundInv
<1>2. SUFFICES SteadyFound' /\ EmptyOnlyIfBare'
  BY <1>1 DEF FoundInv
<1>3. CASE spc' # "done"
  BY <1>3 DEF SteadyFound, EmptyOnlyIfBare
<1>4. CASE UNCHANGED searchVars /\ spc = "done" /\ steady' \subseteq steady /\ (everBare => everBare')
  <2>1. UNCHANGED <<spc, query, k, result, exact>>
    BY <1>4 DEF searchVars
  <2>2. SteadyFound'
    BY <1>4, <2>1 DEF FoundInv, SteadyFound, Nearer, HasDistance
  <2>3. EmptyOnlyIfBare'
    BY <1>4, <2>1 DEF FoundInv, EmptyOnlyIfBare
  <2> QED BY <2>2, <2>3
<1>5. CASE ServiceStep /\ Observe /\ UNCHANGED searchVars
  <2>1. CASE spc = "done"
    <3>1. steady' \subseteq steady /\ (everBare => everBare')
      BY <1>5, <2>1 DEF Observe
    <3> QED BY <1>4, <1>5, <2>1, <3>1
  <2> QED BY <1>3, <1>5, <2>1 DEF searchVars
<1>6. CASE LookupDone
  <2>1. exact = FALSE /\ exact' = exact /\ result' = result /\ (spc' = "done" => result # <<>>)
    BY <1>1, <1>6 DEF LookupDone, WatchInv
  <2> QED BY <2>1 DEF SteadyFound, EmptyOnlyIfBare
<1>7. CASE SearchExact /\ UNCHANGED <<vars, searchHist>>
  <2>1. UNCHANGED <<query, k, steady, everBare>>
    BY <1>7 DEF SearchExact, searchHist
  <2>2. steady \subseteq IndexEntries /\ (Bare(query, IndexEntries) => everBare)
    BY <1>1, <1>7, UntouchedIsIndexed DEF WatchInv, SearchExact
  <2>3. /\ \A e \in Measured \ Range(result') : Len(result') = k /\ Nearer(Last(result').val, e.val)
        /\ result' = <<>> => Measured = {}
    BY <1>1, <1>7, SearchExactAnswer
  <2>4. SteadyFound'
    BY <2>1, <2>2, <2>3 DEF SteadyFound, Nearer, Measured, HasDistance
  <2>5. Measured = {} => Bare(query, IndexEntries)
    BY DEF Measured, Bare
  <2> QED BY <2>1, <2>2, <2>3, <2>4, <2>5 DEF EmptyOnlyIfBare
<1>8. CASE UNCHANGED <<vars, searchVars, searchHist>>
  <2>1. CASE spc = "done"
    BY <1>4, <1>8, <2>1 DEF searchHist
  <2> QED BY <1>3, <1>8, <2>1 DEF searchVars
<1>9. CASE \/ \E q \in Query, n \in Ks : SearchBegin(q, n)
           \/ SearchANN \/ SearchANNFails \/ Lookup \/ SearchPanics \/ SearchReturns
  BY <1>3, <1>9 DEF SearchBegin, SearchANN, SearchANNFails, Lookup, SearchPanics, SearchReturns
<1> QED BY <1>5, <1>6, <1>7, <1>8, <1>9, SearchStep

LEMMA FoundInvHolds == SearchSpec => [](IInv /\ WriteInv /\ FoundInv)
<1>1. SearchInit => WriteInv /\ FoundInv
  BY DEF SearchInit, Init, WriteInv, FoundInv, WatchInv, SteadyFound, EmptyOnlyIfBare
<1>2. IInv /\ WriteInv /\ [Next]_vars => WriteInv'
  BY NextWrites
<1>3. [SearchNext]_allVars => [Next]_vars
  BY SearchNextIsNext
<1>4. IInv /\ WriteInv /\ FoundInv /\ [SearchNext]_allVars => FoundInv'
  BY NextFound
<1> QED BY <1>1, <1>2, <1>3, <1>4, SearchIsService, IInvHolds, PTL DEF SearchSpec

\* Whatever fails and whatever is written meanwhile, an answer of the exact
\* index leaves out no vector that was stored all the time, untouched by any
\* request, and is nearer than one it returns (service.go searchExact).
THEOREM SteadyVectorsAreFound == SearchSpec => []SteadyFound
<1>1. FoundInv => SteadyFound
  BY DEF FoundInv
<1> QED BY <1>1, FoundInvHolds, PTL

\* Whatever fails, a search that finds nothing met a service in which no vector
\* had a number as its distance from the query: the exact index stands in for
\* whatever the ANN index missed or lost under the search, and leaves out only
\* the distances that are no number (service.go Search, searchExact).
THEOREM EmptyMeansBare == SearchSpec => []EmptyOnlyIfBare
<1>1. FoundInv => EmptyOnlyIfBare
  BY DEF FoundInv
<1> QED BY <1>1, FoundInvHolds, PTL

----------------------------------------------------------------------------
(* The nodes the ANN index can answer with.                                *)

\* While the writes of a request are undone the ANN index still holds some of
\* its vectors, and otherwise vectors of the store.
RollbackAnn ==
  pc = "rollback" =>
    \A n \in AnnNodes(ann) \ ann.dead : \E id \in ID :
      /\ idToInternal[id] = n /\ n # 0 /\ ann.vec[n] # None
      /\ \/ \E i \in 1 .. Len(batch) : batch[i].id = id /\ batch[i].val = ann.vec[n]
         \/ Outside(batch, Len(batch), id) /\ store[id] = ann.vec[n]

LEMMA RefuseVectorLeaves ==
  ASSUME IInv, QuietInv, RefuseVector PROVE RollbackAnn'
<1>1. StoredInv /\ Indexed(cur - 1) /\ cur \in 1 .. Len(batch) /\ Len(batch) \in Nat
  BY BatchElem DEF IInv, RefuseVector, AtIndex
<1>2. AnnIs(ann, idToInternal, store)
  BY DEF RefuseVector, QuietInv, AnnOK, Settled
<1>3. batch' = SubSeq(batch, 1, cur - 1) /\ UNCHANGED <<store, ann, idToInternal>>
  BY DEF RefuseVector
<1>4. Len(batch') = cur - 1 /\ \A i \in 1 .. cur - 1 : batch'[i] = batch[i]
  <2>1. PICK m \in 0 .. Len(batch) : m = cur - 1
    BY <1>1
  <2>2. /\ Len(SubSeq(batch, 1, m)) = m /\ \A i \in 1 .. m : SubSeq(batch, 1, m)[i] = batch[i]
    BY <1>1, PrefixIs DEF StoredInv
  <2> QED BY <1>3, <2>1, <2>2
<1>5. ASSUME NEW n \in AnnNodes(ann) \ ann.dead
      PROVE  \E id \in ID : /\ idToInternal[id] = n /\ n # 0 /\ ann.vec[n] # None
                            /\ Outside(batch', Len(batch'), id) /\ store[id] = ann.vec[n]
  <2>1. PICK id \in Live(store) : idToInternal[id] = n
    BY <1>2 DEF AnnIs
  <2>2. n # 0 /\ ann.vec[n] = store[id] /\ id \in ID /\ store[id] # None
    BY <1>2, <2>1 DEF AnnIs, Live
  <2>3. Outside(batch', Len(batch'), id)
    BY <1>1, <1>4, <2>2 DEF Outside, Indexed
  <2> QED BY <2>1, <2>2, <2>3
<1> QED BY <1>3, <1>5 DEF RollbackAnn, AnnNodes

LEMMA AppliedLeaves ==
  ASSUME IInv, ResolverInv, QuietInv, RefuseByANN \/ LogFailsAdd PROVE RollbackAnn'
<1>1. StoredInv /\ Len(batch) \in Nat /\ Applied /\ UNCHANGED <<batch, ann>>
  BY BatchElem DEF IInv, RefuseByANN, LogFailsAdd, AtAnn, AtWal
<1>2. ASSUME NEW id \in ID, store[id] # None, store[id] = store'[id]
      PROVE  \/ \E i \in 1 .. Len(batch) : batch[i].id = id /\ batch[i].val = store[id]
             \/ Outside(batch, Len(batch), id) /\ store'[id] = store[id]
  BY <1>1, <1>2 DEF Applied, Outside
<1>3. ASSUME NEW n \in AnnNodes(ann) \ ann.dead
      PROVE  \E id \in ID : /\ idToInternal'[id] = n /\ n # 0 /\ ann.vec[n] # None
                            /\ store[id] = ann.vec[n] /\ store'[id] = store[id]
  <2>1. CASE RefuseByANN
    <3>1. /\ cur \in 1 .. Len(batch) /\ AssignID(batch[cur].id) /\ batch[cur].id \in ID
          /\ store' = Drop(store, batch[cur].id) /\ AnnIs(ann, idToInternal, Without(cur))
      BY <1>1, <2>1 DEF RefuseByANN, IInv, AtAnn, Applied, Good, QuietInv, AnnOK
    <3>2. PICK id \in Live(Without(cur)) : idToInternal[id] = n
      BY <3>1 DEF AnnIs
    <3>3. n # 0 /\ ann.vec[n] = Without(cur)[id] /\ id \in ID /\ Without(cur)[id] # None
      BY <3>1, <3>2 DEF AnnIs, Live
    <3>4. Without(cur)[id] = store[id] /\ batch[cur].id # id
      BY <1>1, <3>1, <3>3 DEF Without
    <3>5. idToInternal'[id] = idToInternal[id]
      BY <3>1, <3>3, <3>4, AssignIDIs DEF ResolverInv
    <3>6. store'[id] = store[id]
      BY <1>1, <3>1, <3>3, <3>4 DEF StoredInv, Drop
    <3> QED BY <3>2, <3>3, <3>4, <3>5, <3>6
  <2>2. CASE LogFailsAdd
    <3>1. UNCHANGED <<store, idToInternal>> /\ AnnIs(ann, idToInternal, store)
      BY <2>2 DEF LogFailsAdd, QuietInv, AnnOK
    <3>2. PICK id \in Live(store) : idToInternal[id] = n
      BY <3>1 DEF AnnIs
    <3>3. n # 0 /\ ann.vec[n] = store[id] /\ id \in ID /\ store[id] # None
      BY <3>1, <3>2 DEF AnnIs, Live
    <3> QED BY <3>1, <3>2, <3>3
  <2> QED BY <2>1, <2>2
<1>4. ASSUME NEW n \in AnnNodes(ann) \ ann.dead
      PROVE  \E id \in ID :
               /\ idToInternal'[id] = n /\ n # 0 /\ ann.vec[n] # None
               /\ \/ \E i \in 1 .. Len(batch) : batch[i].id = id /\ batch[i].val = ann.vec[n]
                  \/ Outside(batch, Len(batch), id) /\ store'[id] = ann.vec[n]
  <2>1. PICK id \in ID : /\ idToInternal'[id] = n /\ n # 0 /\ ann.vec[n] # None
                         /\ store[id] = ann.vec[n] /\ store'[id] = store[id]
    BY <1>3
  <2>2. \/ \E i \in 1 .. Len(batch) : batch[i].id = id /\ batch[i].val = store[id]
        \/ Outside(batch, Len(batch), id) /\ store'[id] = store[id]
    BY <1>2, <2>1
  <2> QED BY <2>1, <2>2
<1> QED BY <1>1, <1>4 DEF RollbackAnn, AnnNodes, Outside

LEMMA NextRollbackAnn ==
  ASSUME IInv, ResolverInv, QuietInv, RollbackAnn, [Next]_vars PROVE RollbackAnn'
<1>1. SUFFICES ASSUME pc' = "rollback" PROVE RollbackAnn'
  BY DEF RollbackAnn
<1>2. CASE RollbackOne
  <2>1. StoredInv /\ Len(batch) \in Nat /\ cur \in 1 .. Len(batch) /\ pc = "rollback"
        /\ store' = Drop(store, batch[cur].id) /\ UNCHANGED <<batch, ann, idToInternal>>
    BY <1>2, BatchElem DEF IInv, RollbackOne, AtRollback, StoredInv
  <2>2. \A id \in ID : Outside(batch, Len(batch), id) => store'[id] = store[id]
    BY <2>1 DEF Outside, Drop, StoredInv
  <2> QED BY <2>1, <2>2 DEF RollbackAnn, AnnNodes, Outside
<1>3. CASE UNCHANGED vars
  BY <1>3 DEF vars, RollbackAnn, AnnNodes, Outside
<1> QED BY <1>1, <1>2, <1>3, WritingSteps, RefuseVectorLeaves, AppliedLeaves

\* The vectors of the store, without or with those of the request, that the
\* index does not hold are part of the request.
LEMMA LiveNodesServed ==
  ASSUME IInv, ResolverInv, QuietInv, RollbackAnn, Serving
  PROVE  \A n \in AnnNodes(ann) \ ann.dead : \E id \in ID :
           /\ idToInternal[id] = n /\ n \in 1 .. nextInternal /\ ann.vec[n] \in Val
           /\ Entry(id, ann.vec[n]) \in IndexEntries \cup InFlight
<1>1. StoredInv /\ pc \in PCs /\ index \in [ID -> Stored] /\ store \in [ID -> Stored]
  BY DEF IInv, StoredInv
<1>2. /\ Len(batch) \in Nat /\ DOMAIN batch = 1 .. Len(batch)
      /\ \A i \in 1 .. Len(batch) : batch[i] \in ReqVector
  BY <1>1, BatchElem
<1>3. \A i \in 1 .. Len(batch) : batch[i].val # None => Entry(batch[i].id, batch[i].val) \in InFlight
  BY <1>2 DEF InFlight, Entry, ReqVector
<1>4. saved # None => Entry(batch[1].id, saved) \in InFlight
  BY DEF InFlight
<1>5. \A id \in ID : index[id] # None => Entry(id, index[id]) \in IndexEntries
  BY DEF IndexEntries, Live
<1>6. ASSUME NEW id \in ID, NEW n, idToInternal[id] = n, n # 0, ann.vec[n] # None,
             Entry(id, ann.vec[n]) \in IndexEntries \cup InFlight
      PROVE  n \in 1 .. nextInternal /\ ann.vec[n] \in Val
  <2>1. n \in 1 .. nextInternal
    BY <1>6 DEF ResolverInv, ResolverOK
  <2>2. \A e \in IndexEntries \cup InFlight : e.val \in Val \cup {None}
    <3>1. \A e \in IndexEntries : e.val \in Val \cup {None}
      BY <1>1 DEF IndexEntries, Entry, Stored, Live
    <3>2. \A e \in InFlight : e.val \in Val \cup {None}
      BY <1>1, <1>2 DEF InFlight, Entry, ReqVector, StoredInv
    <3> QED BY <3>1, <3>2
  <2>3. Entry(id, ann.vec[n]).val \in Val \cup {None}
    BY <1>6, <2>2
  <2> QED BY <1>6, <2>1, <2>3 DEF Entry
<1>7. ASSUME NEW m, AnnIs(ann, idToInternal, m),
             \A id \in ID : m[id] # None => Entry(id, m[id]) \in IndexEntries \cup InFlight,
             NEW n \in AnnNodes(ann) \ ann.dead
      PROVE  \E id \in ID : /\ idToInternal[id] = n /\ n # 0 /\ ann.vec[n] # None
                            /\ Entry(id, ann.vec[n]) \in IndexEntries \cup InFlight
  <2>1. PICK id \in Live(m) : idToInternal[id] = n
    BY <1>7 DEF AnnIs
  <2>2. n # 0 /\ ann.vec[n] = m[id] /\ id \in ID /\ m[id] # None
    BY <1>7, <2>1 DEF AnnIs, Live
  <2> QED BY <1>7, <2>1, <2>2
<1>8. SUFFICES ASSUME NEW n \in AnnNodes(ann) \ ann.dead
               PROVE  \E id \in ID : /\ idToInternal[id] = n /\ n # 0 /\ ann.vec[n] # None
                                     /\ Entry(id, ann.vec[n]) \in IndexEntries \cup InFlight
  BY <1>6
<1>9. CASE pc \in {"idle", "delIndex", "snap", "sync", "save", "trunc", "wal"}
  <2>1. index = store /\ AnnIs(ann, idToInternal, store)
    BY <1>9 DEF IInv, AtIdle, AtDelIndex, AtLogged, AtTrunc, AtWal, Applied, QuietInv, AnnOK, Settled
  <2>2. PICK m : m = store
    OBVIOUS
  <2>3. \A id \in ID : m[id] # None => Entry(id, m[id]) \in IndexEntries \cup InFlight
    BY <1>5, <2>1, <2>2
  <2>4. AnnIs(ann, idToInternal, m)
    BY <2>1, <2>2
  <2> QED BY <1>7, <2>3, <2>4
<1>10. CASE pc \in {"index", "upsert"}
  <2>1. AnnIs(ann, idToInternal, store) /\ \A id \in ID : store[id] # None => index[id] = store[id]
    BY <1>10 DEF IInv, AtIndex, AtUpsert, Indexed, Outside, QuietInv, AnnOK, Settled
  <2>2. PICK m : m = store
    OBVIOUS
  <2>3. \A id \in ID : m[id] # None => Entry(id, m[id]) \in IndexEntries \cup InFlight
    BY <1>5, <2>1, <2>2
  <2>4. AnnIs(ann, idToInternal, m)
    BY <2>1, <2>2
  <2> QED BY <1>7, <2>3, <2>4
<1>11. CASE pc = "ann"
  <2>1. index = store /\ AnnIs(ann, idToInternal, Without(cur))
    BY <1>11 DEF IInv, AtAnn, Applied, QuietInv, AnnOK
  <2>2. \A id \in ID : Without(cur)[id] # None => Without(cur)[id] = store[id]
    BY DEF Without
  <2>3. PICK m : m = Without(cur)
    OBVIOUS
  <2>4. \A id \in ID : m[id] # None => Entry(id, m[id]) \in IndexEntries \cup InFlight
    BY <1>5, <2>1, <2>2, <2>3
  <2>5. AnnIs(ann, idToInternal, m)
    BY <2>1, <2>3
  <2> QED BY <1>7, <2>4, <2>5
<1>12. CASE pc = "delStore"
  <2>1. /\ AnnIs(ann, idToInternal, store) /\ saved = store[batch[1].id]
        /\ \A id \in ID \ {batch[1].id} : index[id] = store[id]
    BY <1>12 DEF IInv, AtDelStore, QuietInv, AnnOK, MatchOK, Settled
  <2>2. PICK m : m = store
    OBVIOUS
  <2>3. \A id \in ID : m[id] # None => Entry(id, m[id]) \in IndexEntries \cup InFlight
    BY <1>4, <1>5, <2>1, <2>2
  <2>4. AnnIs(ann, idToInternal, m)
    BY <2>1, <2>2
  <2> QED BY <1>7, <2>3, <2>4
<1>13. CASE pc = "delAnn"
  <2>1. index = store /\ AnnIs(ann, idToInternal, Undeleted)
    BY <1>13 DEF IInv, AtDelAnn, QuietInv, AnnOK
  <2>2. \A id \in ID : \/ id = batch[1].id /\ Undeleted[id] = saved
                       \/ Undeleted[id] = store[id]
    BY <1>1 DEF Undeleted, Put
  <2>3. PICK m : m = Undeleted
    OBVIOUS
  <2>4. \A id \in ID : m[id] # None => Entry(id, m[id]) \in IndexEntries \cup InFlight
    BY <1>4, <1>5, <2>1, <2>2, <2>3
  <2>5. AnnIs(ann, idToInternal, m)
    BY <2>1, <2>3
  <2> QED BY <1>7, <2>4, <2>5
<1>14. CASE pc = "rollback"
  <2>1. PICK id \in ID :
          /\ idToInternal[id] = n /\ n # 0 /\ ann.vec[n] # None
          /\ \/ \E i \in 1 .. Len(batch) : batch[i].id = id /\ batch[i].val = ann.vec[n]
             \/ Outside(batch, Len(batch), id) /\ store[id] = ann.vec[n]
    BY <1>14 DEF RollbackAnn
  <2>2. Outside(batch, Len(batch), id) => index[id] = store[id]
    BY <1>14 DEF IInv, AtRollback
  <2> QED BY <1>3, <1>5, <2>1, <2>2
<1> QED BY <1>1, <1>9, <1>10, <1>11, <1>12, <1>13, <1>14 DEF Serving, PCs

----------------------------------------------------------------------------
(* The search between the ANN index and its answer.                        *)

Candidate == [n : Nat, val : Val]
Result == [id : ID, val : Val]

AnswerTypes ==
  /\ cands \in Seq(Candidate) /\ result \in Seq(Result)
  /\ query \in Query \cup {NoQuery} /\ k \in Ks \cup {0}
  /\ exact \in BOOLEAN /\ everBare \in BOOLEAN
  /\ spc # "resolve" => cands = <<>>
  /\ spc \in {"idle", "ann", "exact"} => result = <<>>

\* The answer so far, and with what is left of the candidates.
AnswerOK ==
  /\ \A i \in 1 .. Len(result) : result[i] \in seen
  /\ \A i, j \in 1 .. Len(result) : result[i].id = result[j].id => i = j
  /\ Ascending(result)
  /\ Len(result) + Len(cands) <= k
  /\ \A i \in 1 .. Len(result) : HasDistance(query, result[i])
  /\ \A i \in 1 .. Len(result) : \A j \in 1 .. Len(cands) : InOrder(result[i], cands[j])

\* Whichever id a candidate is looked up to, now or later, its vector was seen
\* and is not in the answer yet.
CandidatesOK ==
  /\ Ascending(cands)
  /\ \A i, j \in 1 .. Len(cands) : cands[i].n = cands[j].n => i = j
  /\ \A i \in 1 .. Len(cands) :
       /\ cands[i].n \in 1 .. nextInternal
       /\ \A id \in ID : idToInternal[id] = cands[i].n => Entry(id, cands[i].val) \in seen
       /\ \A j \in 1 .. Len(result) : idToInternal[result[j].id] # cands[i].n

SearchInv == AnswerTypes /\ (spc \in {"resolve", "done"} => AnswerOK /\ CandidatesOK)

LEMMA EmptyOK ==
  /\ <<>> \in Seq(Candidate) /\ <<>> \in Seq(Result) /\ Len(<<>>) = 0
  /\ Ascending(<<>>) /\ Ascending(<<>>)'
<1>1. <<>> \in Seq(Candidate)
  BY EmptySeq
<1>2. <<>> \in Seq(Result) /\ Len(<<>>) = 0
  BY EmptySeq
<1>3. 1 .. Len(<<>>) = {}
  BY <1>2
<1> QED BY <1>1, <1>2, <1>3 DEF Ascending

\* Writes beside the search: an internal id that is lost or given anew is none
\* of a candidate's.
LEMMA ServiceKeepsAnswer ==
  ASSUME IInv, ResolverInv, WatchInv, SearchInv, ServiceStep, Observe, UNCHANGED searchVars
  PROVE  SearchInv'
<1>1. UNCHANGED <<spc, query, k, cands, result, exact>>
  BY DEF searchVars
<1>2. everBare' \in BOOLEAN
  BY DEF Observe
<1>3. AnswerTypes'
  BY <1>1, <1>2 DEF SearchInv, AnswerTypes
<1>4. SUFFICES ASSUME spc \in {"resolve", "done"} PROVE AnswerOK' /\ CandidatesOK'
  BY <1>1, <1>3 DEF SearchInv
<1>5. seen \subseteq seen' /\ AnswerOK /\ CandidatesOK
  BY <1>4 DEF Observe, SearchInv
<1>6. Kept(idToInternal, nextInternal) /\ nextInternal \in Nat /\ nextInternal' \in Nat
      /\ idToInternal \in [ID -> Nat] /\ idToInternal' \in [ID -> Nat]
  <2>1. Serving /\ Serving'
    BY <1>4, ServingStays DEF WatchInv, IInv, StoredInv
  <2>2. pc' # "down" /\ [Next]_vars
    BY <2>1 DEF Serving, ServiceStep, Next
  <2>3. ResolverInv' /\ Kept(idToInternal, nextInternal)
    BY <2>2, NextResolver
  <2> QED BY <2>3 DEF ResolverInv, ResolverOK
<1>7. AnswerOK'
  BY <1>1, <1>5 DEF AnswerOK, Ascending, InOrder, HasDistance, Nearer
<1>8. ASSUME NEW m \in 1 .. nextInternal, NEW id \in ID, idToInternal'[id] = m
      PROVE  idToInternal[id] = m
  BY <1>6, <1>8 DEF Kept
<1>9. result \in Seq(Result) /\ \A j \in 1 .. Len(result) : result[j].id \in ID
  <2>1. result \in Seq(Result)
    BY DEF SearchInv, AnswerTypes
  <2>2. \A j \in 1 .. Len(result) : result[j] \in Result
    BY <2>1, ElementOfSeq
  <2> QED BY <2>1, <2>2 DEF Result
<1>10. ASSUME NEW i \in 1 .. Len(cands)
       PROVE  /\ cands[i].n \in 1 .. nextInternal'
              /\ \A id \in ID : idToInternal'[id] = cands[i].n => Entry(id, cands[i].val) \in seen'
              /\ \A j \in 1 .. Len(result) : idToInternal'[result[j].id] # cands[i].n
  <2>1. PICK m \in 1 .. nextInternal : m = cands[i].n
    BY <1>5 DEF CandidatesOK
  <2>2. cands[i].n \in 1 .. nextInternal'
    BY <1>6, <2>1 DEF Kept
  <2>3. \A id \in ID : idToInternal'[id] = cands[i].n => Entry(id, cands[i].val) \in seen'
    BY <1>5, <1>8, <2>1 DEF CandidatesOK
  <2>4. \A j \in 1 .. Len(result) : idToInternal'[result[j].id] # cands[i].n
    BY <1>5, <1>8, <1>9, <2>1 DEF CandidatesOK
  <2> QED BY <2>2, <2>3, <2>4
<1>11. CandidatesOK'
  <2>1. Ascending(cands)'
    BY <1>1, <1>5 DEF CandidatesOK, Ascending, InOrder, HasDistance, Nearer
  <2>2. \A i, j \in 1 .. Len(cands) : cands[i].n = cands[j].n => i = j
    BY <1>5 DEF CandidatesOK
  <2> QED BY <1>1, <1>10, <2>1, <2>2 DEF CandidatesOK
<1> QED BY <1>7, <1>11

LEMMA SearchANNAnswer ==
  ASSUME IInv, ResolverInv, QuietInv, RollbackAnn, WatchInv, SearchInv,
         SearchANN, UNCHANGED <<vars, searchHist>>
  PROVE  SearchInv'
<1>1. /\ spc = "ann" /\ spc' = "resolve" /\ UNCHANGED <<query, k, result, exact>>
      /\ UNCHANGED <<seen, everBare, idToInternal, nextInternal>> /\ result = <<>>
  BY DEF SearchANN, searchHist, vars, SearchInv, AnswerTypes
<1>2. PICK m \in 0 .. k : cands' \in Sorted(LiveNodes(ann), m)
  BY DEF SearchANN
<1>3. PICK s : s = cands'
  OBVIOUS
<1>4. s \in [1 .. m -> LiveNodes(ann)] /\ IsInjective(s) /\ Ascending(s)
  BY <1>2, <1>3 DEF Sorted
<1>5. k \in Nat /\ m \in Nat /\ m <= k
  <2>1. k \in Ks
    BY <1>1 DEF WatchInv
  <2>2. k \in Nat
    BY <2>1, SearchAssumption
  <2> QED BY <1>2, <2>2
<1>6. ASSUME NEW i \in 1 .. m
      PROVE  \E id \in ID : /\ s[i].n \in Nat /\ s[i] = [n |-> s[i].n, val |-> ann.vec[s[i].n]]
                            /\ idToInternal[id] = s[i].n /\ s[i].n \in 1 .. nextInternal
                            /\ s[i].val \in Val /\ Entry(id, s[i].val) \in seen
  <2>1. PICK n \in AnnNodes(ann) \ ann.dead : s[i] = [n |-> n, val |-> ann.vec[n]]
    BY <1>4 DEF LiveNodes
  <2>2. Serving /\ IndexEntries \cup InFlight \subseteq seen
    BY <1>1 DEF WatchInv
  <2>3. PICK id \in ID :
          /\ idToInternal[id] = n /\ n \in 1 .. nextInternal /\ ann.vec[n] \in Val
          /\ Entry(id, ann.vec[n]) \in IndexEntries \cup InFlight
    BY <2>2, LiveNodesServed
  <2>4. n \in Nat
    BY <2>3
  <2> QED BY <2>1, <2>2, <2>3, <2>4
<1>7. s \in Seq(Candidate) /\ Len(s) = m
  <2>1. ASSUME NEW i \in 1 .. m PROVE s[i] \in Candidate
    <3>1. s[i].n \in Nat /\ s[i].val \in Val /\ s[i] = [n |-> s[i].n, val |-> ann.vec[s[i].n]]
      BY <1>6
    <3>2. ann.vec[s[i].n] \in Val
      BY <3>1
    <3> QED BY <3>1, <3>2 DEF Candidate
  <2>2. s \in [1 .. m -> Candidate]
    BY <1>4, <2>1
  <2>3. s \in Seq(Candidate)
    BY <1>5, <2>2, SeqDef
  <2> QED BY <1>5, <2>2, <2>3, LenProperties
<1>8. AnswerTypes'
  BY <1>1, <1>3, <1>7 DEF SearchInv, AnswerTypes
<1>9. AnswerOK'
  BY <1>1, <1>3, <1>5, <1>7, EmptyOK DEF AnswerOK
<1>10. CandidatesOK'
  <2>1. Ascending(cands)'
    BY <1>1, <1>3, <1>4 DEF Ascending, InOrder, HasDistance, Nearer
  <2>2. ASSUME NEW i \in 1 .. m, NEW j \in 1 .. m, s[i].n = s[j].n PROVE i = j
    <3>1. s[i] = s[j]
      BY <1>6, <2>2
    <3>2. DOMAIN s = 1 .. m
      BY <1>4
    <3> QED BY <1>4, <3>1, <3>2 DEF IsInjective
  <2>3. ASSUME NEW i \in 1 .. m, NEW id \in ID, idToInternal[id] = s[i].n
        PROVE  Entry(id, s[i].val) \in seen
    <3>1. PICK x \in ID : /\ idToInternal[x] = s[i].n /\ s[i].n \in 1 .. nextInternal
                          /\ Entry(x, s[i].val) \in seen
      BY <1>6
    <3>2. s[i].n # 0
      BY <3>1
    <3>3. x = id
      BY <2>3, <3>1, <3>2 DEF ResolverInv, ResolverOK
    <3> QED BY <3>1, <3>3
  <2>4. \A i \in 1 .. m : s[i].n \in 1 .. nextInternal
    BY <1>6
  <2>5. 1 .. Len(result') = {}
    BY <1>1, EmptyOK
  <2> QED BY <1>1, <1>3, <1>7, <2>1, <2>2, <2>3, <2>4, <2>5 DEF CandidatesOK
<1> QED BY <1>8, <1>9, <1>10 DEF SearchInv

\* The candidate is looked up, and skipped if its id is gone.
LEMMA LookupAnswer ==
  ASSUME ResolverInv, SearchInv, k \in Nat, query \in Query, Lookup, UNCHANGED <<vars, searchHist>>
  PROVE  SearchInv'
<1>1. /\ spc = "resolve" /\ spc' = "resolve" /\ UNCHANGED <<query, k, exact>> /\ cands # <<>>
      /\ UNCHANGED <<seen, everBare, idToInternal, nextInternal>> /\ cands' = Tail(cands)
  BY DEF Lookup, searchHist, vars
<1>2. cands \in Seq(Candidate) /\ result \in Seq(Result) /\ AnswerOK /\ CandidatesOK
  BY <1>1 DEF SearchInv, AnswerTypes
<1>3. PICK m, p \in Nat : m = Len(cands) /\ p = Len(result)
  BY <1>2, LenProperties
<1>4. PICK c, t : c = cands[1] /\ t = Tail(cands)
  OBVIOUS
<1>5. /\ m >= 1 /\ Head(cands) = c /\ c \in Candidate /\ t \in Seq(Candidate) /\ Len(t) = m - 1
      /\ \A i \in 1 .. m - 1 : t[i] = cands[i + 1]
  <2>1. m >= 1
    BY <1>1, <1>2, <1>3, EmptySeq
  <2>2. c \in Candidate
    BY <1>2, <1>3, <1>4, <2>1, ElementOfSeq
  <2> QED BY <1>1, <1>2, <1>3, <1>4, <2>1, <2>2, HeadTailProperties
<1>6. /\ \A i \in 1 .. m : cands[i] \in Candidate /\ cands[i].val \in Val
      /\ \A i \in 1 .. p : result[i] \in Result /\ result[i].val \in Val
  <2>1. \A i \in 1 .. m : cands[i] \in Candidate
    BY <1>2, <1>3, ElementOfSeq
  <2>2. \A i \in 1 .. p : result[i] \in Result
    BY <1>2, <1>3, ElementOfSeq
  <2> QED BY <2>1, <2>2 DEF Candidate, Result
<1>8. \A i, j \in 1 .. m : i < j => InOrder(cands[i], cands[j])
  BY <1>2, <1>3 DEF CandidatesOK, Ascending
<1>9. Ascending(t)
  <2>1. ASSUME NEW i \in 1 .. m - 1, NEW j \in 1 .. m - 1, i < j PROVE InOrder(t[i], t[j])
    <3>1. i + 1 \in 1 .. m /\ j + 1 \in 1 .. m /\ i + 1 < j + 1
      BY <1>3, <2>1
    <3> QED BY <1>5, <1>8, <3>1
  <2> QED BY <1>5, <2>1 DEF Ascending
<1>10. ASSUME NEW j \in 1 .. m - 1
       PROVE  /\ InOrder(c, t[j])
              /\ \A i \in 1 .. p : InOrder(result[i], t[j])
  <2>1. 1 \in 1 .. m /\ j + 1 \in 1 .. m /\ 1 < j + 1 /\ t[j] = cands[j + 1]
    BY <1>3, <1>5
  <2>2. \A i \in 1 .. p : InOrder(result[i], cands[j + 1])
    BY <1>2, <1>3, <2>1 DEF AnswerOK
  <2> QED BY <1>4, <1>8, <2>1, <2>2
<1>11. /\ \A i, j \in 1 .. m - 1 : t[i].n = t[j].n => i = j
       /\ \A i \in 1 .. m - 1 : t[i].n # c.n
  BY <1>2, <1>3, <1>4, <1>5 DEF CandidatesOK
<1>12. \A i \in 1 .. m - 1 :
         /\ t[i].n \in 1 .. nextInternal
         /\ \A id \in ID : idToInternal[id] = t[i].n => Entry(id, t[i].val) \in seen
         /\ \A j \in 1 .. p : idToInternal[result[j].id] # t[i].n
  BY <1>2, <1>3, <1>5 DEF CandidatesOK
<1> DEFINE ids == {id \in ID : idToInternal[id] = c.n}
<1>13. CASE ids = {} \/ ~HasDistance(query, c)
  <2>1. result' = result
    BY <1>5, <1>13 DEF Lookup
  <2>2. AnswerTypes'
    BY <1>1, <1>2, <1>4, <1>5, <2>1 DEF SearchInv, AnswerTypes
  <2>3. AnswerOK'
    <3>1. /\ \A i \in 1 .. p : result[i] \in seen
          /\ \A i, j \in 1 .. p : result[i].id = result[j].id => i = j
          /\ \A i \in 1 .. p : HasDistance(query, result[i])
          /\ Ascending(result) /\ p + m <= k
      BY <1>2, <1>3 DEF AnswerOK
    <3>3. Ascending(result)'
      BY <1>1, <2>1, <3>1 DEF Ascending, InOrder, HasDistance, Nearer
    <3> QED BY <1>1, <1>3, <1>4, <1>5, <1>10, <2>1, <3>1, <3>3 DEF AnswerOK, InOrder, HasDistance, Nearer
  <2>4. CandidatesOK'
    <3>1. Ascending(cands)'
      BY <1>1, <1>4, <1>9 DEF Ascending, InOrder, HasDistance, Nearer
    <3> QED BY <1>1, <1>3, <1>4, <1>5, <1>11, <1>12, <2>1, <3>1 DEF CandidatesOK
  <2> QED BY <2>2, <2>3, <2>4 DEF SearchInv
<1>14. CASE ids # {} /\ HasDistance(query, c)
  <2>1. PICK x \in ID : x = (CHOOSE id \in ids : TRUE) /\ idToInternal[x] = c.n
    BY <1>14
  <2>2. PICK e : e = Entry(x, c.val)
    OBVIOUS
  <2>3. result' = Append(result, e)
    BY <1>5, <1>14, <2>1, <2>2 DEF Lookup
  <2> HIDE DEF ids
  <2>4. e \in Result /\ e.id = x /\ e.val = c.val
    BY <1>5, <2>2 DEF Entry, Result, Candidate
  <2>5. PICK r : r = Append(result, e)
    OBVIOUS
  <2>6. /\ r \in Seq(Result) /\ r # <<>> /\ Len(r) = p + 1 /\ r[p + 1] = e
        /\ \A i \in 1 .. p : r[i] = result[i]
    BY <1>2, <1>3, <2>4, <2>5, AppendProperties
  <2>7. AnswerTypes'
    BY <1>1, <1>2, <1>4, <1>5, <2>3, <2>5, <2>6 DEF SearchInv, AnswerTypes
  <2>8. e \in seen /\ \A j \in 1 .. p : result[j].id # x
    <3>1. 1 \in 1 .. Len(cands)
      BY <1>3, <1>5
    <3>2. /\ \A id \in ID : idToInternal[id] = cands[1].n => Entry(id, cands[1].val) \in seen
          /\ \A j \in 1 .. Len(result) : idToInternal[result[j].id] # cands[1].n
      BY <1>2, <3>1 DEF CandidatesOK
    <3> QED BY <1>3, <1>4, <2>1, <2>2, <3>2
  <2>9. AnswerOK'
    <3>1. /\ \A i \in 1 .. p : result[i] \in seen
          /\ \A i, j \in 1 .. p : result[i].id = result[j].id => i = j
          /\ \A i, j \in 1 .. p : i < j => InOrder(result[i], result[j])
          /\ \A i \in 1 .. p : HasDistance(query, result[i])
          /\ p + m <= k
      BY <1>2, <1>3 DEF AnswerOK, Ascending
    <3>2. \A i \in 1 .. p + 1 : r[i] \in seen
      BY <1>3, <2>6, <2>8, <3>1
    <3>3. \A i, j \in 1 .. p + 1 : r[i].id = r[j].id => i = j
      BY <1>3, <2>4, <2>6, <2>8, <3>1
    <3>4. HasDistance(query, e) /\ \A x1 : (InOrder(e, x1) <=> InOrder(c, x1)) /\ (InOrder(x1, e) <=> InOrder(x1, c))
      BY <1>14, <2>4 DEF HasDistance, InOrder
    <3>9. \A i \in 1 .. p : InOrder(result[i], c)
      <4>1. 1 \in 1 .. Len(cands)
        BY <1>3, <1>5
      <4> QED BY <1>2, <1>3, <1>4, <4>1 DEF AnswerOK
    <3>5. ASSUME NEW i \in 1 .. p + 1, NEW j \in 1 .. p + 1, i < j PROVE InOrder(r[i], r[j])
      <4>1. i \in 1 .. p
        BY <1>3, <3>5
      <4>2. CASE j = p + 1
        BY <2>6, <3>4, <3>9, <4>1, <4>2
      <4>3. CASE j # p + 1
        <5>1. j \in 1 .. p
          BY <1>3, <4>3
        <5> QED BY <2>6, <3>1, <3>5, <4>1, <5>1
      <4> QED BY <4>2, <4>3
    <3>6. Ascending(result)'
      BY <1>1, <1>3, <2>3, <2>5, <2>6, <3>5 DEF Ascending, InOrder, HasDistance, Nearer
    <3>7. ASSUME NEW i \in 1 .. p + 1
          PROVE  HasDistance(query, r[i]) /\ \A j \in 1 .. m - 1 : InOrder(r[i], t[j])
      <4>1. CASE i = p + 1
        BY <1>10, <2>6, <3>4, <4>1
      <4>2. CASE i # p + 1
        <5>1. i \in 1 .. p
          BY <1>3, <4>2
        <5> QED BY <1>10, <2>6, <3>1, <5>1
      <4> QED BY <4>1, <4>2
    <3>8. Len(r) + Len(t) <= k
      BY <1>3, <1>5, <2>6, <3>1
    <3> QED BY <1>1, <1>4, <1>5, <2>3, <2>5, <2>6, <3>2, <3>3, <3>6, <3>7, <3>8
            DEF AnswerOK, InOrder, HasDistance, Nearer
  <2>10. CandidatesOK'
    <3>1. Ascending(cands)'
      BY <1>1, <1>4, <1>9 DEF Ascending, InOrder, HasDistance, Nearer
    <3>2. \A i \in 1 .. m - 1 : \A j \in 1 .. p + 1 : idToInternal[r[j].id] # t[i].n
      <4> TAKE i \in 1 .. m - 1
      <4> TAKE j \in 1 .. p + 1
      <4>1. CASE j = p + 1
        BY <1>11, <2>1, <2>4, <2>6, <4>1
      <4>2. CASE j # p + 1
        <5>1. j \in 1 .. p
          BY <1>3, <4>2
        <5> QED BY <1>12, <2>6, <5>1
      <4> QED BY <4>1, <4>2
    <3> QED BY <1>1, <1>3, <1>4, <1>5, <1>11, <1>12, <2>3, <2>5, <2>6, <3>1, <3>2 DEF CandidatesOK
  <2> QED BY <2>7, <2>9, <2>10 DEF SearchInv
<1> QED BY <1>13, <1>14

LEMMA SearchExactKeeps ==
  ASSUME IInv, WatchInv, SearchInv, SearchExact, UNCHANGED <<vars, searchHist>>
  PROVE  SearchInv'
<1>1. /\ spc = "exact" /\ spc' = "done" /\ UNCHANGED <<query, k, cands>> /\ cands = <<>>
      /\ UNCHANGED <<seen, everBare, idToInternal, nextInternal>> /\ exact' = TRUE
  BY DEF SearchExact, searchHist, vars, SearchInv, AnswerTypes
<1>2. PICK r : r = result'
  OBVIOUS
<1>3. r \in Seq(Measured) /\ Len(r) <= k /\ IsInjective(r) /\ Ascending(r)
  BY <1>2, SearchExactAnswer
<1>4. /\ Len(r) \in Nat /\ DOMAIN r = 1 .. Len(r)
      /\ \A i \in 1 .. Len(r) : r[i] \in IndexEntries /\ HasDistance(query, r[i])
  <2>1. Len(r) \in Nat /\ DOMAIN r = 1 .. Len(r) /\ \A i \in 1 .. Len(r) : r[i] \in Measured
    BY <1>3, LenProperties, ElementOfSeq
  <2> QED BY <2>1 DEF Measured
<1>5. IndexEntries \subseteq Result /\ IndexEntries \subseteq seen
  <2>1. index \in [ID -> Stored]
    BY DEF IInv, StoredInv
  <2>2. IndexEntries \subseteq Result
    BY <2>1 DEF IndexEntries, Entry, Result, Live, Stored
  <2> QED BY <1>1, <2>2 DEF WatchInv
<1>6. \A e, f \in IndexEntries : e.id = f.id => e = f
  BY DEF IndexEntries, Entry
<1>7. AnswerTypes'
  <2>1. r \in Seq(Result)
    <3>1. Measured \subseteq Result
      BY <1>5 DEF Measured
    <3> QED BY <1>3, <3>1, SeqMonotonic
  <2> QED BY <1>1, <1>2, <2>1 DEF SearchInv, AnswerTypes
<1>8. AnswerOK'
  <2>1. \A i, j \in 1 .. Len(r) : r[i].id = r[j].id => i = j
    BY <1>3, <1>4, <1>6 DEF IsInjective
  <2>2. Ascending(result)'
    BY <1>1, <1>2, <1>3 DEF Ascending, InOrder, HasDistance, Nearer
  <2>3. Len(r) + Len(cands) <= k
    <3>1. k \in Ks
      BY <1>1 DEF WatchInv
    <3>2. k \in Nat
      BY <3>1, SearchAssumption
    <3> QED BY <1>1, <1>3, <1>4, <3>2, EmptyOK
  <2>4. 1 .. Len(cands') = {}
    BY <1>1, EmptyOK
  <2> QED BY <1>1, <1>2, <1>4, <1>5, <2>1, <2>2, <2>3, <2>4 DEF AnswerOK, HasDistance
<1>9. CandidatesOK'
  <2>1. 1 .. Len(cands') = {}
    BY <1>1, EmptyOK
  <2> QED BY <1>1, <2>1, EmptyOK DEF CandidatesOK
<1> QED BY <1>7, <1>8, <1>9 DEF SearchInv

LEMMA NextSearch ==
  ASSUME IInv, ResolverInv, QuietInv, RollbackAnn, WatchInv, SearchInv, [SearchNext]_allVars
  PROVE  SearchInv'
<1>1. CASE ServiceStep /\ Observe /\ UNCHANGED searchVars
  BY <1>1, ServiceKeepsAnswer
<1>2. CASE \E q \in Query, n \in Ks : SearchBegin(q, n)
  BY <1>2 DEF SearchBegin, SearchInv, AnswerTypes, Bare
<1>3. CASE SearchANN /\ UNCHANGED <<vars, searchHist>>
  BY <1>3, SearchANNAnswer
<1>4. CASE SearchANNFails /\ UNCHANGED <<vars, searchHist>>
  BY <1>4 DEF SearchANNFails, SearchInv, AnswerTypes, searchHist
<1>5. CASE Lookup /\ UNCHANGED <<vars, searchHist>>
  <2>1. k \in Ks /\ query \in Query
    BY <1>5 DEF Lookup, WatchInv
  <2>2. k \in Nat
    BY <2>1, SearchAssumption
  <2> QED BY <1>5, <2>1, <2>2, LookupAnswer
<1>6. CASE LookupDone /\ UNCHANGED <<vars, searchHist>>
  <2>1. /\ spc = "resolve" /\ spc' \in {"exact", "done"} /\ UNCHANGED <<query, k, cands, result, exact>>
        /\ cands = <<>> /\ (spc' = "exact" => result = <<>>)
        /\ UNCHANGED <<seen, everBare, idToInternal, nextInternal>>
    BY <1>6 DEF LookupDone, searchHist, vars
  <2>2. AnswerTypes'
    BY <2>1 DEF SearchInv, AnswerTypes
  <2>3. AnswerOK' /\ CandidatesOK'
    BY <2>1 DEF SearchInv, AnswerOK, CandidatesOK, Ascending, InOrder, HasDistance, Nearer
  <2> QED BY <2>2, <2>3 DEF SearchInv
<1>7. CASE SearchExact /\ UNCHANGED <<vars, searchHist>>
  BY <1>7, SearchExactKeeps
<1>8. CASE SearchPanics /\ UNCHANGED <<vars, searchHist>>
  BY <1>8 DEF SearchPanics, SearchInv, AnswerTypes, searchHist
<1>9. CASE SearchReturns
  <2>1. cands = <<>>
    BY <1>9 DEF SearchReturns, SearchInv, AnswerTypes
  <2> QED BY <1>9, <2>1, EmptyOK DEF SearchReturns, SearchInv, AnswerTypes
<1>10. CASE UNCHANGED <<vars, searchVars, searchHist>>
  <2>1. UNCHANGED <<spc, query, k, cands, result, exact, seen, everBare, idToInternal, nextInternal>>
    BY <1>10 DEF vars, searchVars, searchHist
  <2>2. AnswerTypes'
    BY <2>1 DEF SearchInv, AnswerTypes
  <2>3. AnswerOK => AnswerOK'
    BY <2>1 DEF AnswerOK, Ascending, InOrder, HasDistance, Nearer
  <2>4. CandidatesOK => CandidatesOK'
    BY <2>1 DEF CandidatesOK, Ascending, InOrder, HasDistance, Nearer
  <2> QED BY <2>1, <2>2, <2>3, <2>4 DEF SearchInv
<1> QED BY <1>1, <1>2, <1>3, <1>4, <1>5, <1>6, <1>7, <1>8, <1>9, <1>10, SearchStep

\* As many ids as results, when no two results have the same id.
LEMMA CountIDs ==
  ASSUME NEW s \in Seq(Result), \A i, j \in 1 .. Len(s) : s[i].id = s[j].id => i = j
  PROVE  Cardinality({e.id : e \in Range(s)}) = Len(s)
<1>1. PICK n \in Nat : n = Len(s) /\ DOMAIN s = 1 .. n
  BY LenProperties
<1>2. PICK f : f = [i \in 1 .. n |-> s[i].id]
  OBVIOUS
<1>3. PICK T : T = {e.id : e \in Range(s)}
  OBVIOUS
<1>4. f \in Bijection(1 .. n, T)
  <2>1. f \in [1 .. n -> T] /\ \A x \in T : \E i \in 1 .. n : f[i] = x
    BY <1>1, <1>2, <1>3 DEF Range
  <2>2. IsInjective(f)
    BY <1>1, <1>2 DEF IsInjective
  <2> QED BY <2>1, <2>2 DEF Bijection, Injection, Surjection
<1>5. IsFiniteSet(1 .. n) /\ Cardinality(1 .. n) = n
  <2>1. 1 \in Int /\ n \in Int
    OBVIOUS
  <2>2. /\ IsFiniteSet(1 .. n)
        /\ Cardinality(1 .. n) = IF 1 > n THEN 0 ELSE n - 1 + 1
    BY <2>1, FS_Interval
  <2> QED BY <2>2
<1>6. ExistsBijection(1 .. n, T)
  BY <1>4 DEF ExistsBijection
<1>7. Cardinality(T) = Cardinality(1 .. n)
  BY <1>5, <1>6, FS_Bijection
<1> QED BY <1>1, <1>3, <1>5, <1>7

LEMMA SearchInvSound ==
  ASSUME WatchInv, SearchInv, ResolverInv PROVE SearchSound
<1>1. cands \in Seq(Candidate) /\ result \in Seq(Result)
  BY DEF SearchInv, AnswerTypes
<1>2. Range(result) \subseteq Result /\ Range(result) = {result[i] : i \in 1 .. Len(result)}
  BY <1>1, RangeOfSeq, RangeEquality
<1>3. \A c \in Range(cands) : c.n \in 1 .. nextInternal /\ c.val \in Val
  <2>1. Range(cands) \subseteq Candidate /\ Range(cands) = {cands[i] : i \in 1 .. Len(cands)}
    BY <1>1, RangeOfSeq, RangeEquality
  <2>2. CASE spc = "resolve"
    BY <2>1, <2>2 DEF SearchInv, CandidatesOK, Candidate
  <2>3. CASE spc # "resolve"
    <3>1. 1 .. Len(cands) = {}
      BY <2>3, EmptyOK DEF SearchInv, AnswerTypes
    <3> QED BY <2>1, <3>1
  <2> QED BY <2>2, <2>3
<1>4. SearchTypeOK
  BY <1>2, <1>3 DEF SearchTypeOK, SearchInv, AnswerTypes, WatchInv, Result
<1>5. ASSUME spc = "done"
      PROVE  /\ Range(result) \subseteq seen
             /\ Len(result) <= k /\ Cardinality({e.id : e \in Range(result)}) = Len(result)
             /\ \A e \in Range(result) : HasDistance(query, e)
             /\ Ascending(result)
  <2>1. AnswerOK /\ cands = <<>>
    BY <1>5 DEF SearchInv, AnswerTypes
  <2>2. Cardinality({e.id : e \in Range(result)}) = Len(result)
    <3>1. PICK s : s = result
      OBVIOUS
    <3>2. s \in Seq(Result) /\ \A i, j \in 1 .. Len(s) : s[i].id = s[j].id => i = j
      BY <1>1, <2>1, <3>1 DEF AnswerOK
    <3> QED BY <3>1, <3>2, CountIDs
  <2>3. Len(result) <= k
    <3>1. Len(result) \in Nat
      BY <1>1, LenProperties
    <3> QED BY <2>1, <3>1, EmptyOK DEF AnswerOK
  <2> QED BY <1>2, <2>1, <2>2, <2>3 DEF AnswerOK
<1> QED BY <1>4, <1>5 DEF SearchSound

\* As long as every append to the log is all or nothing and the files can be
\* read, every result of a search names a vector that was in the service while
\* the search ran, none comes twice, every distance is a number and the nearest
\* come first, although the search takes no lock of the writers and looks the
\* internal ids up after the ANN index answered (service.go Search,
\* id_resolver.go Lookup).
THEOREM AnswersAreSound ==
  ASSUME Legible PROVE SearchSpec => []SearchSound
<1>1. SearchInit => ResolverInv /\ RollbackAnn /\ SearchInv
  BY UnassignedOK, EmptyOK
     DEF SearchInit, Init, ResolverInv, RollbackAnn, SearchInv, AnswerTypes
<1>2. IInv /\ ResolverInv /\ [Next]_vars => ResolverInv'
  BY NextResolver
<1>3. IInv /\ ResolverInv /\ QuietInv /\ RollbackAnn /\ [Next]_vars => RollbackAnn'
  BY NextRollbackAnn
<1>4. [SearchNext]_allVars => [Next]_vars
  BY SearchNextIsNext
<1>5. IInv /\ ResolverInv /\ QuietInv /\ RollbackAnn /\ FoundInv /\ SearchInv /\ [SearchNext]_allVars
        => SearchInv'
  BY NextSearch DEF FoundInv
<1>6. FoundInv /\ SearchInv /\ ResolverInv => SearchSound
  BY SearchInvSound DEF FoundInv
<1> QED BY <1>1, <1>2, <1>3, <1>4, <1>5, <1>6, FoundInvHolds, SearchIsService, LegibleQuietInv, PTL
        DEF SearchSpec

============================================================================
