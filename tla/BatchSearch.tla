---------------------------- MODULE BatchSearch ----------------------------
(***************************************************************************)
(* Service.SearchBatch (internal/core/service.go).  In exact mode the      *)
(* queries are cut into chunks and a goroutine per chunk scans the index   *)
(* for all its queries at once; in ANN mode a pool of workers takes the    *)
(* queries from an unbuffered channel and calls Search for each.  Both     *)
(* wait for their goroutines and return the answers in the order of the    *)
(* queries.  The counters of Search are atomic and shared.                 *)
(*                                                                         *)
(* Batches are prefixes of one sequence of queries.  The vectors do not    *)
(* change here (module ServiceSearch has the writers).  A call that        *)
(* validateSearchRequest refuses is no step; and since each query passed   *)
(* it before the workers start, the Search they call returns no error.     *)
(* It may panic: SquaredEuclideanDistance32SameLen does when the query is  *)
(* longer than a vector.                                                   *)
(***************************************************************************)
EXTENDS DistHeap, FiniteSets, FiniteSetsExt

CONSTANTS
  Queries,      \* a sequence of [q, k]
  Stored,       \* the ids in the exact index
  QueryDim,     \* QueryDim[q], VectorDim[id]: the number of components
  VectorDim,
  Distance,     \* Distance[q][id], for vectors of the query's length
  NaN,          \* a distance that is no number (Inf - Inf, say)
  Width,        \* exactBatchDistanceWidth
  GoMaxProcs,   \* the possible values of GOMAXPROCS
  MaxRequests   \* bound: searches counted

ASSUME BatchAssumption ==
  /\ Width \in Nat \ {0} /\ MaxRequests \in Nat
  /\ GoMaxProcs \subseteq Nat \ {0} /\ IsFiniteSet(GoMaxProcs)
  /\ NaN \in Int \ Nat /\ IsFiniteSet(Stored) /\ VectorDim \in [Stored -> Nat]
  /\ Queries \in Seq(Range(Queries))
  /\ \A i \in DOMAIN Queries : /\ Queries[i].k \in Nat \ {0} /\ QueryDim[Queries[i].q] \in Nat
                               /\ Distance[Queries[i].q] \in [Stored -> Nat \cup {NaN}]

VARIABLES
  mode, procs,  \* search.mode and GOMAXPROCS, which stay what they are
  main,         \* where the call is
  n,            \* the queries of the call: Queries[1..n]
  acc,          \* prepared[i].acc
  next,         \* the next job for the channel
  work,         \* the goroutines: workers of the pool, or scans of a chunk
  results,
  stats         \* the service's counters

batchVars == <<mode, procs, main, n, acc, next, work, results, stats>>
batchCall == <<n, acc, next, work, results>>
static == <<mode, procs>>

NoResult == [q |-> "", k |-> 0]
Counters == {"requests", "exact", "annSearches", "hits", "fallbacks", "errors", "samples"}

BatchInit ==
  /\ mode \in {"ann", "exact"} /\ procs \in GoMaxProcs
  /\ main = "idle" /\ n = 0 /\ acc = <<>> /\ next = 0 /\ work = <<>> /\ results = <<>>
  /\ stats = [c \in Counters |-> 0]

SameLen(i, x) == QueryDim[Queries[i].q] = VectorDim[x]

Count(cs) == stats' = [c \in Counters |-> IF c \in cs THEN stats[c] + 1 ELSE stats[c]]

----------------------------------------------------------------------------
(* topKAccumulator.                                                        *)

\* Every comparison with a distance that is no number is false, and the heap's
\* order is lost: what such an accumulator holds later is not followed.
Spoiled == << [id |-> NaN, distance |-> NaN] >>

AccAdd(h, limit, x) ==
  IF h = Spoiled \/ x.distance = NaN THEN Spoiled
  ELSE IF Len(h) < limit THEN Push(-1, h, x)
  ELSE IF x.distance >= h[1].distance THEN h ELSE ReplaceTop(-1, h, x)

\* topKAccumulator.Results: sort.Slice, which leaves the order of equal
\* distances open.
IsSortOf(s, h) ==
  /\ Len(s) = Len(h) /\ Range(s) = Range(h)
  /\ \A i \in 1 .. Len(s) - 1 : s[i].distance <= s[i + 1].distance
SortOf(h) == CHOOSE s \in [DOMAIN h -> Range(h)] : IsSortOf(s, h)

----------------------------------------------------------------------------
(* Exact mode.                                                             *)

\* searchBatchExactParallel; the condition of SearchBatch comes first.
Workers(size) == IF size >= 2 * Width /\ procs > 1 THEN Min({procs, size \div Width}) ELSE 1

RoundUp(x) == IF x % Width = 0 THEN x ELSE x + Width - (x % Width)
ChunkSize(size) ==
  IF Workers(size) <= 1 THEN size
  ELSE RoundUp((size + Workers(size) - 1) \div Workers(size))

\* The chunks, by the position before their first query and that of their last.
Chunks(size) ==
  LET len == ChunkSize(size)
  IN  [c \in 1 .. ((size + len - 1) \div len) |->
         [at |-> "scan", lo |-> (c - 1) * len, hi |-> Min({c * len, size}), todo |-> Stored]]

\* Mutant of Scanned: the queries after the last whole block are left out.
ScannedBlocks(len) == {i + j : i \in {Width * m : m \in 0 .. (len \div Width) - 1}, j \in 1 .. Width}

\* The positions scanExactBatch serves in a chunk of len queries: whole
\* blocks of Width, then the rest one by one.
Scanned(len) ==
  {i + j : i \in {Width * m : m \in 0 .. (len \div Width) - 1}, j \in 1 .. Width}
    \cup (len - (len % Width) + 1) .. len

StartExact(size) ==
  /\ mode = "exact" /\ main = "idle"
  /\ main' = "wait" /\ n' = size /\ next' = 0
  /\ acc' = [i \in 1 .. size |-> <<>>] /\ results' = <<>>
  /\ work' = Chunks(size)
  /\ UNCHANGED <<static, stats>>

\* Query i is in a whole block of chunk w and every query of the block has the
\* length of x: SquaredEuclideanDistance32x4SameLen serves the block at once,
\* and its distances are added as they are.
AtOnce(w, i, x) ==
  LET len == w.hi - w.lo
      block == (i - w.lo - 1) \div Width
  IN  /\ i - w.lo <= len - (len % Width)
      /\ \A j \in 1 .. Width : SameLen(w.lo + Width * block + j, x)

\* One call of the function RangeVectors32 is given: a vector, offered to each
\* query of the chunk whose length it has.
Visit(g, x) ==
  LET dist(i) == Distance[Queries[i].q][x]
      offered == {work[g].lo + p : p \in Scanned(work[g].hi - work[g].lo)}
  IN
  /\ work[g].at = "scan" /\ x \in work[g].todo
  /\ acc' = [i \in 1 .. n |->
               IF i \in offered /\ SameLen(i, x) /\ (dist(i) # NaN \/ AtOnce(work[g], i, x))
               THEN AccAdd(acc[i], Queries[i].k, [id |-> x, distance |-> dist(i)])
               ELSE acc[i]]
  /\ work' = [work EXCEPT ![g].todo = @ \ {x}]
  /\ UNCHANGED <<static, main, n, next, results, stats>>

ScanDone(g) ==
  /\ work[g].at = "scan" /\ work[g].todo = {}
  /\ work' = [work EXCEPT ![g].at = "exit"]
  /\ UNCHANGED <<static, main, n, acc, next, results, stats>>

\* wg.Wait and batchResultsFromPrepared.
CollectExact ==
  /\ mode = "exact" /\ main = "wait"
  /\ \A g \in DOMAIN work : work[g].at = "exit"
  /\ main' = "done" /\ results' = [i \in 1 .. n |-> SortOf(acc[i])]
  /\ UNCHANGED <<static, n, acc, next, work, stats>>

----------------------------------------------------------------------------
(* ANN mode: searchBatchANN.                                               *)

StartANN(size) ==
  /\ mode = "ann" /\ main = "idle" /\ stats.requests + size <= MaxRequests
  /\ main' = "feed" /\ n' = size /\ next' = 1 /\ acc' = <<>>
  /\ results' = [i \in 1 .. size |-> NoResult]
  /\ work' = [g \in 1 .. Min({size, procs}) |-> [at |-> "recv", job |-> 0]]
  /\ UNCHANGED <<static, stats>>

\* The send of a job meets the receive of a worker.
SendJob(g) ==
  /\ main = "feed" /\ next <= n /\ work[g].at = "recv"
  /\ work' = [work EXCEPT ![g] = [at |-> "search", job |-> next]]
  /\ next' = next + 1
  /\ UNCHANGED <<static, main, n, acc, results, stats>>

\* Mutant of CloseJobs: the channel is not closed.
CloseJobsNever ==
  /\ main = "feed" /\ next > n
  /\ main' = "wait"
  /\ UNCHANGED <<static, batchCall, stats>>

\* close(jobs): the workers that wait for a job leave their loop, the others
\* when they come back to it.
CloseJobs ==
  /\ main = "feed" /\ next > n
  /\ main' = "closed"
  /\ UNCHANGED <<static, batchCall, stats>>

Leave(g) ==
  /\ main = "closed" /\ work[g].at = "recv"
  /\ work' = [work EXCEPT ![g].at = "exit"]
  /\ UNCHANGED <<static, main, n, acc, next, results, stats>>

Goto(g, at) == work' = [work EXCEPT ![g].at = at]
\* Mutant of Deliver: the answer goes to the last job sent.
DeliverToLast(g) ==
  /\ results' = [results EXCEPT ![next - 1] = Queries[work[g].job]]
  /\ Goto(g, "recv")

\* The answer of Search for a query, put in the query's place.
Deliver(g) ==
  /\ results' = [results EXCEPT ![work[g].job] = Queries[work[g].job]]
  /\ Goto(g, "recv")

\* A worker that counts something and goes on.
CountAndGo(g, from, cs, to) ==
  /\ work[g].at = from
  /\ Count(cs) /\ Goto(g, to)
  /\ UNCHANGED <<static, main, n, acc, next, results>>

SearchCounted(g) == CountAndGo(g, "search", {"requests"}, "ann")
SearchANN(g) == CountAndGo(g, "ann", {"annSearches"}, "asked")

\* The ANN index answers: an error, no candidates that can be used, or a hit.
ANNAnswers(g) ==
  \/ CountAndGo(g, "asked", {"errors"}, "fallback")
  \/ CountAndGo(g, "asked", {}, "fallback")
  \/ CountAndGo(g, "asked", {"hits"}, "hit")

\* maybeEvaluateANN: some of the hits are searched exactly too.
SampleHit(g) == CountAndGo(g, "hit", {}, "sample")
AnswerHit(g) ==
  /\ work[g].at = "hit"
  /\ Deliver(g)
  /\ UNCHANGED <<static, main, n, acc, next, stats>>

\* Mutant of Fallback: the exact search is not counted.
FallbackUncounted(g) == CountAndGo(g, "fallback", {"fallbacks"}, "exact")

Fallback(g) == CountAndGo(g, "fallback", {"fallbacks"}, "count")
CountExact(g) == CountAndGo(g, "count", {"exact"}, "exact")

\* searchExact for the query of a worker, whose distances run over the
\* components of the query.
TooLong(i) == \E x \in Stored : QueryDim[Queries[i].q] > VectorDim[x]

SearchExact(g) ==
  /\ work[g].at \in {"exact", "sample"} /\ ~TooLong(work[g].job)
  /\ Count(IF work[g].at = "sample" THEN {"samples"} ELSE {})
  /\ Deliver(g)
  /\ UNCHANGED <<static, main, n, acc, next>>

EndCall == n' = 0 /\ acc' = <<>> /\ next' = 0 /\ work' = <<>> /\ results' = <<>>

\* It panics.  Nothing recovers a panic in a worker: the process ends, and its
\* counters are gone.  A pool of one is the calling goroutine, where net/http
\* recovers it and ends the request, and the gRPC server does not.
Panic(g) ==
  /\ work[g].at \in {"exact", "sample"} /\ TooLong(work[g].job)
  /\ EndCall
  /\ \/ main' = "dead" /\ stats' = [c \in Counters |-> 0]
     \/ Len(work) = 1 /\ main' = "idle" /\ UNCHANGED stats
  /\ UNCHANGED static

\* wg.Wait.
CollectANN ==
  /\ main = "closed"
  /\ \A g \in DOMAIN work : work[g].at = "exit"
  /\ main' = "done"
  /\ UNCHANGED <<static, batchCall, stats>>

BatchReturn ==
  /\ main = "done"
  /\ main' = "idle" /\ EndCall
  /\ UNCHANGED <<static, stats>>

----------------------------------------------------------------------------
Calls == \E size \in 1 .. Len(Queries) : StartExact(size) \/ StartANN(size)
Goroutine(g) ==
  \/ \E x \in Stored : Visit(g, x)
  \/ ScanDone(g) \/ Leave(g)
  \/ SearchCounted(g) \/ SearchANN(g) \/ ANNAnswers(g) \/ SampleHit(g) \/ AnswerHit(g)
  \/ Fallback(g) \/ CountExact(g) \/ SearchExact(g) \/ Panic(g)
Main == (\E g \in DOMAIN work : SendJob(g)) \/ CloseJobs \/ CollectANN \/ CollectExact \/ BatchReturn

BatchNext == Calls \/ Main \/ \E g \in DOMAIN work : Goroutine(g)

\* The Go scheduler runs every goroutine that can run.
BatchSpec ==
  /\ BatchInit /\ [][BatchNext]_batchVars
  /\ WF_batchVars(Main)
  /\ \A g \in 1 .. Max(GoMaxProcs) : WF_batchVars(g \in DOMAIN work /\ Goroutine(g))

----------------------------------------------------------------------------
BatchTypeOK ==
  /\ main \in {"idle", "feed", "closed", "wait", "done", "dead"} /\ n \in 0 .. Len(Queries)
  /\ next \in 0 .. n + 1
  /\ Len(acc) \in {0, n} /\ \A i \in DOMAIN acc : Len(acc[i]) <= Queries[i].k
  /\ \A g \in DOMAIN work :
       work[g].at \in {"scan", "recv", "search", "ann", "asked", "hit", "sample",
                      "fallback", "count", "exact", "exit"}
  /\ Len(work) <= Max(GoMaxProcs)

\* Each query of an exact batch is answered with its k nearest vectors among
\* those of its length, nearest first, each once: whatever the number of
\* queries, their position in a chunk or in a block of Width, and the orders
\* in which the goroutines meet the vectors.  A query that has a distance that
\* is no number is excepted, the others of its block are not: for it the answer
\* depends on its place, since only the queries served one by one check for it.
Numbers(i) == \A x \in Stored : SameLen(i, x) => Distance[Queries[i].q][x] # NaN
BatchAnswersExact ==
  mode = "exact" /\ main = "done" =>
    /\ Len(results) = n
    /\ \A i \in {j \in 1 .. n : Numbers(j)} :
         LET d == Distance[Queries[i].q]
             r == results[i]
             same == {x \in Stored : SameLen(i, x)}
             got == {r[j].id : j \in DOMAIN r}
         IN  /\ Len(r) = Min({Queries[i].k, Cardinality(same)})
             /\ got \subseteq same /\ Cardinality(got) = Len(r)
             /\ \A j \in DOMAIN r : r[j].distance = d[r[j].id]
             /\ \A j \in 1 .. Len(r) - 1 : r[j].distance <= r[j + 1].distance
             /\ \A x \in same \ got : d[x] >= r[Len(r)].distance

\* Each query of an ANN batch is answered, in its own place, whichever worker
\* took it and in whichever order they finished.
\* The types are part of it.
BatchAnswersInPlace ==
  /\ BatchTypeOK
  /\ mode = "ann" /\ main = "done" => results = SubSeq(Queries, 1, n)

\* Every search that was counted ends as one hit or one exact search, every
\* ANN search as a hit or a fallback; what is missing is in progress, at any
\* moment between two of the counters' atomic additions.
Busy(ats) == Cardinality({g \in DOMAIN work : work[g].at \in ats})
StatsBalanced ==
  /\ stats.requests = stats.hits + stats.exact + Busy({"ann", "asked", "fallback", "count"})
  /\ stats.annSearches = stats.hits + stats.fallbacks + Busy({"asked", "fallback"})
  /\ stats.errors <= stats.fallbacks + Busy({"fallback"})
  /\ stats.samples <= stats.hits

\* SearchBatch returns: no worker waits for a job, and the call for no worker,
\* for ever.  In ANN mode a batch with a query longer than a stored vector is
\* excepted, whose exact search ends the process.
BatchReturns ==
  (main \notin {"idle", "dead"} /\ (mode = "exact" \/ \A i \in 1 .. n : ~TooLong(i))) ~> (main = "idle")
============================================================================
