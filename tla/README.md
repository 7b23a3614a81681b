# LumenVec: TLA+ models and proofs

LumenVec is a single-process vector database in Go: vectors are added, deleted,
fetched by id, listed in pages and searched, exactly or through an approximate
(ANN) index, over HTTP or gRPC. This directory holds TLA+ models of its core,
the TLC configurations that check them and TLAPS proofs of the main results.

## The system

| Component | State | Operations | Talks to |
|---|---|---|---|
| core service (`internal/core/service.go`) | `persistOps`, `persistMu`, the current ANN index | `AddVectors`, `DeleteVector`, `GetVector`, searches, `restoreState`, `maybeSnapshot` | all below; one write at a time under `persistMu`, readers without it |
| snapshot + WAL backend (`persistence.go`) | two files, `pendingOps` | `AppendWALBatch`, `ReplayWAL`, `SaveSnapshot`, `LoadSnapshot`, `TruncateWAL`, `Sync` | called by the service, memory mode only |
| memory vector store, exact index (`vector_store.go`, `index.go`) | maps | upsert, delete, read | called by the service |
| ID resolver (`id_resolver.go`) | id to internal id, a counter | `Assign`, `Lookup`, `Remove` | names the nodes of the ANN index |
| ANN index (`ann/ann_index.go`) | dimension, graph, tombstones | `AddVector`, `DeleteVector`, searches | replaced as a whole by a rebuild |
| file vector store (`file_vector_store.go`) | `vectors.dat`, offsets, counters, hot cache | upsert, delete, two reads, compaction, `Close` | payload store of disk mode |
| cached vector store (`cached_vector_store.go`) | LRU entries, byte count | decorator of either store | backend calls without its mutex held |
| listing (`list_vectors.go`, `ordered_id_index.go`) | ordered ids | pages after a cursor | store, then payload by payload |
| servers, middleware (`internal/api`) | token buckets by client address, running requests | handlers, authentication, shutdown with a grace period | the service |
| configuration, entry point (`config.go`, `main.go`) | the settings, a signal context | load, build, run, exit | the servers |
| clients, tools | none that lives on | | |

What is hard in this code: a write updates four structures and a file and can
fail after each; a crash can fall between any two of those steps; the errors of
recovery are dropped; readers take an offset, a handle, an ANN index or a
payload under a lock and use it after releasing it; compaction replaces the
file that readers hold; payloads change class on their way (float64 to float32,
JSON, a scanner with a line limit). `PROJECT.json` lists the hazards with the
line where each one bites and the properties aimed at it.

What makes each component correct:

- **service and backend**: an acknowledged write is served, also after any
  number of crashes; a refused or failed one leaves no trace in index, store or
  ANN index; a snapshot, a truncation or a recovery never changes the contents.
- **cache**: exact accounting, limits kept, every call returns, no payload older
  than the backend's.
- **file store**: the in-memory index is what a rebuild would give; compaction
  never changes the contents; a read returns what the vector was during the call.
- **listing**: a listing that spans pages holds every vector that was stored
  throughout, once and in order, and ends.
- **rate limiter**: a client gets no more through than a burst and the rate, and
  is refused nothing less.
- **ANN index**: the graph stays bounded in degree and connected enough to be
  walked; a search that can see every node returns the nearest; a deleted vector
  is never returned.
- **searches**: an answer names vectors that were there, beside any writer; a
  batch answers each query in its place, and returns.
- **server**: no request without the key in production; settings in range; the
  code of an answer tells what happened; a signal ends the process, and a clean
  exit has cut off nothing.

## Modules

| Module | Models |
|---|---|
| `Persistence` | the files of memory mode, one action per backend call and outcome |
| `VectorService` | the service in memory mode, composed with `Persistence` by `EXTENDS` |
| `VectorMap` | abstract specification: a durable map whose contents change by whole requests, until a recovery gives up |
| `VectorServiceProofs` | the inductive invariant of `VectorService`; then the resolver, the ANN index, recovery, the refinement of `VectorMap` |
| `ServiceSearchProofs` | `SearchSound`, `SteadyFound`, `EmptyOnlyIfBare`; extends `ServiceSearch` and `VectorServiceProofs` |
| `CachedVectorStore` | the LRU decorator, between a writer and readers |
| `CachedVectorStoreProofs` | its accounts and its freshness |
| `FileVectorStore` | the payload file of disk mode, with readers |
| `FileVectorStoreProofs` | its offsets and counters against the file, and its readers |
| `ListVectors` | pages, the reads behind them and the loop of the client, against other writers |
| `ListVectorsProofs` | what a listing owes to its client, at each of its steps |
| `RateLimiter` | the token buckets, between concurrent requests |
| `RateLimiterProofs` | the account of a bucket, and what follows from it |
| `DistHeap` | the binary heaps of the ANN search and of `topKAccumulator`, as the code sifts them |
| `AnnIndex` | the proximity graph: adds with their search, links and pruning, deletes, searches |
| `ServiceSearch` | `Service.Search` beside the writers, composed with `VectorService` by `EXTENDS` |
| `BatchSearch` | `Service.SearchBatch`: chunks in exact mode, the worker pool in ANN mode |
| `SearchProofs` | the heaps of `DistHeap`, then the two searches built on them: extends `AnnIndex` and `BatchSearch` |
| `Configuration` | where the settings come from: defaults, file, environment, profiles (operators only) |
| `Server` | the process, the serving goroutine, the requests, shutdown; uses `Configuration` |
| `ServerProofs` | settings, authentication, answers and shutdown, for any file and environment |
| `MCVectorService`, `MCCachedVectorStore`, `MCFileVectorStore`, `MCAnnIndex`, `MCServiceSearch`, `MCBatchSearch`, `MCServer` | instances for TLC |

### Persistence and VectorService

The data is abstracted to a set `Val` of payloads with a dimension `Dim`, and
three classes that the encodings tell apart: `NaNVal` (no JSON encoding),
`HugeVal` (finite as float64, infinite as float32), `LongVal` (a log line the
scanner refuses). The log is a sequence of lines; `Garbled` is a line that does
not decode; `tornTail` says that the last line has no newline, so that the next
append is glued to it.

`persistMu` admits one write, so one program counter `pc` follows it. Each
update that others can see, or that a crash can separate, is an action:
`AddVectors` (start), `AddToIndex` or `RefuseVector` per vector,
`UpsertVectors`, `AddToANN` or `RefuseByANN` per vector, `LogOK` /
`LogFailsAdd`, then `maybeSnapshot` as `SnapshotNotDue`, or `SnapshotDue`,
`SyncStep`, `SaveStep`, `TruncateStep`; `RollbackOne` and `RollbackDone` are
`rollbackAddedVectors`. Deletes go through `DeleteFromIndex`,
`DeleteFromStore`, `DeleteFromANN` and the same log. `Restart`,
`LoadSnapshotOK/Fails/Unreadable`, `ReplayLine`, `ReplayStops`,
`ReplayUnreadable`, `ReplayDone`, `RestoreSave`, `RestoreTruncate` are
`NewServiceWithDeps` and `restoreState`. A recovery can give up for four reasons,
and `NewServiceWithDeps` drops the error of each and serves what was read so far:
`LoadSnapshot` cannot read or unmarshal its file, the snapshot holds two
dimensions, `ReplayWAL` cannot open or read the log, or a line of it does not
decode.
The order in which Go ranges over a map is a nondeterministic choice.

`Faults` names the I/O failures a run lets happen: `"open"` and `"torn"` of an
append, `"sync"` (`Sync` fails under `"open"` too, as it opens the log again),
`"save"`, `"trunc"`, and `"read"` of either file by a recovery. Three history
variables carry the specification: `allowed[id]` is the set of states a client
may believe the id to be in (the last acknowledged write, and writes after it
that ended in an error or a crash once they could have reached the log);
`aborted` records that a recovery gave up, and `unread` that one gave up because
it could not read a file. `VectorMap` has the first as `lost`: `GiveUp` still
leaves the map alone, and after it nothing is promised, because the next
snapshot of a service that came up with half its data overwrites the whole.

### CachedVectorStore

Two goroutines, one of which writes. A look-up, the backend read and the fill
are separate steps, because no lock is held between them, and the read may fail;
a fill and its eviction rounds are steps of the holder of `mu`, so that the
loop's termination is a question TLC can answer. `excused` is history: the ids
whose cached payload may be stale, because a write overtook a reader that had
fetched it or because the backend failed after applying a write.

### FileVectorStore

The file is a sequence of records and an offset is a place in it; `Torn` is a
record cut short. Reading on behind a `Torn` record is taken to fail: the case
that the misread lengths fit by coincidence is left out. A request is one `pc`;
`booting` marks the one of the constructor, whose errors are panics; the fault
`"reopen"` is a failing open, there and in a later request. Compaction
is split at every point where it can fail or the process can die. A reader
looks its offset up in `ReadBegin`, while no writer holds the lock, and uses it
in later steps; `attached` says that its handle has not been closed since.

### ListVectors

A page is selected in one step from the ordered index (`PageAfter`), or, for a
store that cannot page, id by id in any order (`ScanBegin`, `ScanOne`,
`ScanDone`) while the lock keeps writers out; either way one id more than the
page holds, for `nextCursor`. The payloads are read afterwards, one by one
(`ReadOne`), between the writes of others, and an id that cannot be read is left
out. `ReturnPage` is one round of the gRPC client's loop. An id is a number, as
only the order of the strings matters; the base64 of a cursor is injective and
is left out. `always` and `ever` are history: what was stored all the while and
at some time. `ReadErrors` is off in the run: with it on, a read that fails
(a compaction that closes the handle, for example) drops a stored vector from
the listing in silence, which the code accepts.

### RateLimiter

A request takes its time stamp in `Ask` and reaches the bucket later, in
`AllowNew`, `Allow` or `Refuse`; others may overtake it in between. Tokens are
counted in units of 1/`Window`, so that the refill of a tick is an integer; the
code's float64 is taken to be exact. `adm` is history: when each request that
was let through asked, and when it was let through. `RateBounded` is measured
from when the first of the requests asked: a request that waits for the mutex
with an old time stamp is charged to the time at which it asked, so that in wall
time, between two decisions, a client can exceed the limit by as much as its
requests waited.

### AnnIndex and DistHeap

A vector is a tuple of integers, so that distances are exact; a slot is a
position in `nodes`. One call runs at a time, because adds hold the lock and
searches share only the pool of workspaces; `Expand` is one round of the search
loop, `Link` the end of an add, `Answer` the end of a search. The workspace `ws`
is what earlier calls left in the pool: marks, and an epoch with `Epochs` values
(2^32 in the code). `DistHeap` writes the sifting of `upMin`, `downMin`, `upMax`
and `downMax` once, with a sign, and the same operators serve the top-k heap of
the service. `VectorService` abstracts this index to its nodes and tombstones,
and `ServiceSearch` to what `AnswerExact` and `TombstonesBounded` leave of an
answer: live nodes, nearest first, at most k, possibly none.

### ServiceSearch

One search at a time beside the actions of `VectorService`, which are used as
they are: `SearchBegin`, `SearchANN` or `SearchANNFails`, a `Lookup` per
candidate, `LookupDone`, `SearchExact`. Writers, rollbacks and rebuilds fall
between any two of these. There is no crash in it: a crash ends the search.
`seen`, `steady` and `everBare` are history, of what was visible at some time
and at all times since the search began. A distance may be `NaN`: a query with a
NaN, which gRPC can carry, or an infinity met by an infinity (1e39 becomes one
as float32). Such a vector is left out of every answer, and a search that finds
no other answers with nothing from a service that is not empty; `everBare` is
that no indexed vector had a number as its distance. `SearchPanics` is the
out-of-range read of a query that is longer than a stored vector.

### BatchSearch

The vectors stand still and the batches are prefixes of `Queries`. In exact mode
`Chunks` cuts the batch, each chunk is a goroutine and `Visit` is one vector of
its scan; blocks of `Width` and the rest are as in `scanExactBatch`. Where all
queries of a block have the vector's length their distances are added as they
are (`AtOnce`), elsewhere one that is `NaN` is left out: a `NaN` that gets into
an accumulator makes every comparison false, and what it holds then is not
followed (`Spoiled`). So a query with such a distance gets an answer that
depends on its place in the batch; `BatchAnswersExact` is about the other
queries, those of the same block included. In ANN mode `SendJob` is a rendezvous
on the unbuffered channel, and each addition to a counter is a step of its own.
A query longer than a stored vector panics in the exact search of a fallback or
of a sample (`Panic`): in a worker nothing recovers it and the process is
`"dead"`. With one processor the code searches serially: the pool with one
worker gives the same steps in the same order, and net/http may recover its
panic.

### Configuration and Server

A configuration is a function of setting names; `Unset` is a blank value and
`Junk` one that does not parse. `Load` is `config.Load` and `ServerOptions` what
`buildServer`, `applyDefaults` and `NewServerWithOptions` make of it. `Server`
starts from a file and an environment of `Files` and `Envs`; `main` follows the
main goroutine from `LoadFails` or `BuildServer` through `StartServing`, the
select, `BeginShutdown`, `ShutdownReturns` or `GraceEnds`, `TakeResult`, `Close`
and `Exit`; `serving` the goroutine that serves. net/http and grpc are external
and modelled by what the code relies on: that `Shutdown` and `GracefulStop` wait
for the requests, that `Stop` closes connections, which error `Serve` returns
when. A request is accepted, refused or let in, handled with one of the outcomes
of its operation, and answered. A call that writes goes through the places of
`WritePlaces`, one at a time under `persistMu`: the append to the log or the
write of the file store, with the fsync that may be due and may fail, then
`maybeSnapshot` (`SyncLog`, `SaveSnapshot`, `TruncateWAL`), or, with the file
store, the removal of a vector that the ANN index refused (`Undo`). At most of
them it holds the mutex that `Close` takes (`Locked`). `pending` counts what no
fsync has covered, after failed writes and failed fsyncs too, and has no upper
limit when they go on failing. `HandlerPanics` is the out-of-range read of a
long query, which ends the request or the process.

A file mode is a text until it is parsed; `Octal` is `strconv.ParseUint(text, 8,
32)` on the texts of an instance, and 0 is replaced afterwards, as in
`normalizeStorageSecurityOptions`.

What the model shows of the configuration, beside its properties: a key in
`security.auth.api_key` of the file wins over one in `VECTOR_DB_API_KEY`, since
the two set different fields and the first is preferred; `grpc.enabled` has no
effect, the protocol decides; production makes the file modes private only where
nothing or the very text "0755" or "0644" is configured: "755" stays 0755, and
"0" or a text that does not parse ends as 0755 or 0644; a vector of another
dimension than the stored ones is the client's mistake and is answered with 500
or Internal, as a failing disk is; an empty id is an invalid argument over gRPC
and not found over HTTP, where the path then names no vector; gRPC has no rate
limiter; a request refused with 401 or 429 is not counted by the metrics, which
sit behind both; and an exact batch is not counted as search requests.

## Runs

| Run | Checks | Shows |
|---|---|---|
| `ServiceCrash` | `RecoveryCompletes`, `IndexMatchesStore`, `ANNMatchesStore`, `InternalIDsNotReused`, `ImplementsVectorMap` | crashes anywhere, failing opens, saves, truncations and reads, payloads of two dimensions and an empty one: recovery completes unless it cannot read a file, the structures agree, the service refines `VectorMap` |
| `ServiceFaults` | `TypeOK`, `AckedWritesServed`, `CrashSafe` | appends cut short, not encodable, not synced |
| `Cache` | `CacheAccounted`, `StaleOnlyByRace`, `CallsReturn`, `NewestSurvives` | accounting with an entry larger than the cache, staleness, termination, LRU |
| `FileStore` | `IndexMatchesFile`, `OnlyWritesChangeContents` | bookkeeping and compaction with torn crashes, failing fsyncs, temporary files, closes, renames and openings; no failing write and no failing read-back, see below |
| `FileReads` | `ReadIsLinearizable` | a reader against writers, compactions, failures |
| `List` | `ListedComplete`, `ListedOnceInOrder`, `ScanFindsFirst`, `LoopEnds` | listings under concurrent inserts and deletes |
| `RateLimit` | `RateTypeOK`, `RateBounded`, `RefusedOnlyOverLimit` | buckets under requests that overtake each other |
| `AnnIndex` | `DegreeBounded`, `NoDeadEnd`, `CandidatesAreNearest`, `AnswerExact`, `TombstonesBounded` | the graph through adds, replacements and deletes; searches in a reused workspace |
| `Search` | `SearchSound`, `SteadyFound`, `EmptyOnlyIfBare`, `LogCompacted` | a search against adds, deletes, rollbacks and rebuilds; the log compacted on time |
| `BatchSearch` | `BatchAnswersExact`, `BatchAnswersInPlace`, `StatsBalanced`, `BatchReturns` | chunks and worker pool, on one and two processors, with a long query and distances that are no numbers |
| `Server` | `KeyProtects`, `SettingsInRange`, `AnswerTellsOutcome`, `CleanExitLosesNothing`, `ShutdownCompletes` | the process from configuration to exit, with writes to a log and to a file store |

Each module has one type invariant. Where it is not listed it is a conjunct of a
safety invariant of the run (`CacheAccounted`, `ReadIsLinearizable`,
`ListedOnceInOrder`, `DegreeBounded`, `SearchSound`, `BatchAnswersInPlace`,
`CleanExitLosesNothing`).

`ServiceLongLine` ends in a violation of `AckedWritesRestored`: an acknowledged
vector whose log line the scanner cannot read is lost by a restart, with all that
follows it. `AckedWritesServed` and `CrashSafe` exclude it through `aborted` and
`AllReadable`: they say that a recovery that gives up is the only way to lose a
write; and `RecoveryCompletes` that with whole appends a recovery gives up only
when it cannot read a file.

### Further configurations

Four more configurations end in a violation, each of one property:

| Configuration | Module | Property | What happens |
|---|---|---|---|
| `CacheStaleRead.cfg` | `MCCachedVectorStore` | `DeletedNotServed` | A reader misses, reads the backend (`cached_vector_store.go:109`) and caches what it got (113-115) after a `DeleteVector` ran to its end: the deleted vector is served until it expires. `service_test.go:163` expects `ErrVectorNotFound` after a delete. |
| `FileHotRead.cfg` | `MCFileVectorStore` | `HotReadIsLinearizable` | `GetVectorReadOnly32` fills the hot cache after it released the lock (`file_vector_store.go:225`), over the payload of a write that came in between: later reads return the replaced payload. |
| `FileTornTail.cfg` | `MCFileVectorStore` | `StoreOpens` | A process that dies inside a write leaves a cut record, on which the index rebuild fails (`file_vector_store.go:681`) and the constructor panics, at this and every later start. |
| `SearchLengths.cfg` | `MCServiceSearch` | `SameLength` | `searchExact` calls `SquaredEuclideanDistance32SameLen` with a query of another length, although "Callers must ensure both slices have the same length" (`distance.go:57`): a longer query panics (net/http recovers, a gRPC server dies), a shorter one is compared with a prefix. |

Other constants lead to the same violations along other paths, and are worth
knowing although no run is kept for them. With `Faults = {"torn"}`, an append
that fails part way leaves a line without a newline, the next acknowledged
append is glued to it, and a restart stops there and loses that write and the
later ones (`AckedWritesRestored`). With `Faults = {"sync"}` and payloads of two
dimensions, an append whose fsync failed stays in the log after its rollback; a
vector of the other dimension is then accepted, both are recovered and saved in
one snapshot, and the next `loadSnapshot` stops at the second before the log is
replayed (`AckedWritesRestored`). With three ids, batches of three and a payload
in `NaNVal`, a batch that `json.Marshal` rejects leaves a cut line without any
I/O failure (`AckedWritesRestored`). With a payload in `HugeVal` every snapshot
fails and the log grows (`LogCompacted`). With `"read"`, a recovery that could
not read the snapshot or the log serves an empty or half-filled service, and its
next snapshot makes that the durable state (`AckedWritesRestored`). With
`"read"` in `Faults` of the file store, a compaction drops the record it cannot
read, and with `"write"` the records of a failed batch are found by a restart
(`OnlyWritesChangeContents`). And a delete makes two records of that file dead,
the payload's and its own, but counts one (`RebuiltStale` counts the same on a
start): n adds and n - 1 deletes count n - 1 stale of 2n - 1 records, short of
the half at which compaction is due.

Bounds. Two ids suffice for an id inside and one outside a batch, for a
duplicate in a batch and for two live vectors of different dimensions; batches
of two have a first and a last element and fail between them. The ids are
interchangeable in the service, search and ANN runs, and a symmetry set of their
permutations is used there (no liveness is checked in these runs).
`SnapshotEvery` is 2 or 3 so that snapshots fall between writes and after every
other one, and a write begins while the log is shorter than `MaxWAL`, so that
the last batch makes it one line longer: three lines, with a snapshot due and
failing in between. `MaxInternal` allows a deleted id to come back under a new
internal id. `RebuildMin` is 1 where the code has 1024
(`annDeleteRebuildMinDeleted`): the rebuild then happens on small instances; the
quarter rule is kept. In `Cache`, payload sizes 1, 2, 2 and 4 under limits of 3
bytes and one item make entries that fit together in bytes and not in number,
and one that exceeds the cache by itself. In the file store, `MaxFile` exceeds
the length at which compaction becomes due; `HotMax` is 1, so that an eviction
is possible with two ids. Four ids and pages of two give a listing a first, a
middle and a last page, full, short and empty ones, and a candidate that the
heap must replace. A limit of 2 in a window of 3 ticks makes every refill a
fraction of a token, and the run is a window long. In `AnnIndex` `M` is 2, so
that the third neighbour is pruned; `EfConstruction` is less and `EfSearch` no
less than the nodes most searches reach, so that both a cut and a complete
candidate list occur; `Epochs` is 2, so that the epoch wraps at every call after
the first, and `MaxChanges` bounds deletes and replacements. In `Search` two
ids, two payloads and k of 1 and 2 let a candidate disappear beside one that
stays, and `MaxInternal` lets a deleted id come back; `SnapshotEvery` is 2. In
`BatchSearch` `Width` is 2 where the code has 4 (and 1 would have no rest), six
queries fill three blocks and a batch of five leaves one over; one query is
longer than a vector and two have a distance that is no number, in whole blocks
and in the rest; `MaxRequests` bounds the counters. In `Server` two requests
overlap, and the files and environments set each of the four places of a key,
each flag, and numbers of every class: missing, unparsable, negative, zero, over
the limit; file modes are missing, the default's text, another text for it,
zero.

Fairness is assumed in `BatchSearch`: the Go scheduler runs a goroutine that can
run (`WF` of the call and of each worker). In `Server`: the main and the serving
goroutine and the one of `GracefulStop` go on and the timer of the grace period
fires; nothing is assumed of a handler, of the disk, of clients or of a signal.
`ShutdownCompletes` covers a handler that never returns, unless it does so in a
call of the disk: `Close` needs the mutex that it holds there, and the property
assumes that this mutex is free again and again (`[]<>(~Locked)`). `Server` may
stop: its process ends. In `List`: the server answers and the client's loop goes
on (`WF` of their steps); the others may write for ever. And in `Cache`: a
goroutine that can run does (`WF` of its unlocked or lock-holding steps), and
one that waits for a `sync.Mutex` gets it in the end (`SF`; the mutex hands
itself to a waiter that was starved for a millisecond). Nothing is assumed of
the clients.

## Proofs

`VectorServiceProofs` proves, for all sets of ids and payloads, all dimensions,
faults and bounds allowed by `PersistenceAssumption` and `ServiceAssumption`:

- `IInvHolds`: `IInv` is an invariant;
- `AckedWritesAreServed`, `FilesAreCrashSafe`, `IndexAndStoreAgree`,
  `TypesHold`: the properties of the runs with these meanings follow from it.

`AckedWritesServed` speaks of idle states only and is far from inductive: a
restart must know what the files say, a truncation that the snapshot says the
same, a rollback which vectors of the batch are in which structure. `IInv`
therefore has a part for the stored data (everything stored passed the checks
of `AddVectors`, which is why replay skips nothing), a part for the files
(`FilesInv`) and one part for each place of `pc`. All rest on `Says(w, s, n, id,
x)`: snapshot `s` and the first `n` lines of log `w` say `x` of `id`. It is
stated without recursion, so that appending a line, glueing one to a torn tail,
truncating and replaying one line are each a lemma about `Says`. During a
replay the store is what the first `cur - 1` lines say; when the log ends, that
is what `FilesInv` says is allowed.

Its second part goes on from `IInv`. `InternalIDsAreNotReused` holds under every
fault: `ResolverInv` says that no internal id is beyond the counter and none
belongs to two vectors, and `Kept` that a step leaves an id's internal id, takes
it away or gives one above the counter. The other theorems have a hypothesis
that TLC shows to be needed (`ServiceFaults` reaches recoveries that give up,
and an ANN index that lacks vectors after one): `Quiet`, every append to the log
is all or nothing, that is no torn or unsynced append and no payload that cannot
be encoded or read back. Opens, saves, truncations and the reads of a recovery
may fail, and the process may die between any two steps. Then:

- `RecoveryAlwaysCompletes`, `ANNAndStoreAgree`: a recovery gives up only when
  it cannot read a file, and until one does, between writes the live nodes of
  the ANN index are the vectors of the store;
- `ServiceImplementsMap`: `Spec => ImplementsVectorMap`. `LogOK` is the step
  that inserts or removes, the steps into and out of `idle` are `Serve` and
  `Interrupt`, a recovery that cannot read a file is `GiveUp`, all others
  stutter;
- `LogIsCompacted`, when recoveries can read the files (`Legible`) and no save,
  truncation or `Sync` fails either (`Steady`: with `SyncEvery = 1` nothing is
  left for `Sync` to do, so that a failing open does not touch it).

They rest on `QuietInv`, which holds until a recovery cannot read a file
(`QuietInvHolds`: `unread \/ QuietInv`). `CleanFiles` keeps the files readable
and of one dimension, so that loading and replaying cannot stop. `MatchOK` says
what the files recover at each place of a request: the store without the batch
until an add is logged, the store with the deleted payload until a delete is,
then the store. `AnnOK` says which map the ANN index holds at each place, by
`AnnIs`; an index with a vector gives the dimension that every other must have,
which is why what is logged stays of one dimension. `RecoveredMap` ties
`Recovered` to `Says`.

`ServiceSearchProofs` composes these with the search: `SearchSpec => Spec`, so
every invariant above holds beside it. `SteadyVectorsAreFound` and
`EmptyMeansBare` hold under every fault, and for vectors whose distances are no
numbers too. `WatchInv` says what the history has recorded at any time;
`UntouchedIsIndexed` that a stored vector missing from the index belongs to the
request in progress (for which `WriteInv` adds to `IInv` what a rollback leaves
in the two structures); `TopKIs` that the accumulator leaves out a vector only
when it holds `k` others, by counting. `AnswersAreSound` assumes `Legible`, since its argument goes through `QuietInv`:
a service whose start gave up may hold old payloads of ids in its ANN index that
have new ones. (`ServiceSearch` starts from empty files and has no crash, so that
TLC finds the property to hold with `"read"` in `Faults` too.) It needs `LiveNodesServed`, that at every place of every request, the
middle of a rollback included (`RollbackAnn`), a live node is a vector of the
index or of the request, and `CandidatesOK`, that whichever id a candidate is
looked up to later, its vector was seen and is not in the answer yet. That part
is kept by the writers because an id never gets an internal id that a candidate
has (`Kept`).

`RateLimiterProofs` proves, for all limits, windows, clients and numbers of
requests in flight (`RateAssumption`):

- `RateIsBounded`, `RefusalsAreJustified`, `RateTypesHold`: the three properties
  of the run.

`RateBounded` says nothing of the tokens, so the invariant keeps the account of
a bucket: counted from any request it let through, what it gave since and what
it holds are at most the burst and the refill since (`Bound`); counted from the
last request that found it full, at least that (`Used`). A refill adds the same
to both sides, because the bucket's time only moves forward; a token given moves
from one term to the other; a full bucket opens a new account. The steps with a
product of two unknowns are lemmas about integers (`AccountKept` and its kin).

`CachedVectorStoreProofs` proves for any number of goroutines, of which one
writes, and all limits and sizes (`CacheAssumption`): `CacheIsAccounted`,
`CacheIsFresh`, `NewestIsKept`. The bytes are a sum over a finite set of entries;
that adding, replacing and removing one entry changes it by that entry is a set
of lemmas about `Sum`. `HolderOK` ties the mutex to the goroutine in `putLocked`
or `evictLocked`; `NewestOK` that this goroutine's payload is at the front;
`FreshOK` that whoever has a payload in hand has the backend's, or its id is
excused.

`FileVectorStoreProofs` proves `ReadsAreLinearizable` for every combination of
faults (`FileAssumption`): an attached reader's record is still where its offset
says, because a file that is open is only appended to and compaction closes the
handle before it renames. `IndexIsExact` and `OnlyWritesChange` assume `Healthy`,
no failing `write` or `read`: after a partial write the file has more records
than the index knows, and a compaction skips a record it cannot read, as the
code does. The argument is what a rebuild computes from `file \o records`, and
that the compacted file computes the same map (`Compacted`).

`ListVectorsProofs` proves `ListingIsComplete`, `ListingIsInOrder`,
`ScanIsExact` and `CursorAdvances` for every finite set of ids and every page
size. `Covered` says that what was stored all the while and is not yet received
is on the page or behind its cursor; `KeepIsFirst` that the scan, whatever the
order of visits, holds the first ids of those visited.

`ServerProofs` proves `KeyIsRequired`, `SettingsAreInRange`, `CodesTellOutcome`
and `CleanExit` for every set of files and environments whose values have the
types of the settings (`ConfigAssumption`, `ServerAssumption`) and any number of
requests. `SettingsAre` is the chain from defaults, file and environment to the
server's settings, for every `Octal` that reads the four texts of the code as it
does; `ShutdownOK` follows main goroutine, serving goroutine and requests to the
exit.

`SearchProofs` begins with the heaps, of any size and in either order. `Rising`
and `Sinking` are the loop invariants of the sifting: the heap order holds
everywhere but around the moving item, whose children are in order with its
parent too. `UpSorts` and `DownSorts` conclude that the loops end within as many
rounds as there are items, in a heap, and lose no item; `PushIs`,
`ReplaceTopIs`, `PopRestIs` and `PopAllIs` say what the operations do, the last
that popping everything sorts. `KBest(I, d, h, k, V)`, heap `h` holds the `k`
best of `V` by distance `d`, is the idea both searches share; `KBestAdd` is the
step "push while there is room, else replace the top if nearer".

For `AnnIndex` it proves, for any finite set of ids, any vectors, `M`,
`EfConstruction`, `EfSearch`, `Ks`, `Epochs` and `MaxChanges` (`AnnAssumption`),
`DegreeBoundedHolds`, `NoDeadEndHolds`, `CandidatesAreNearestHolds`,
`AnswerExactHolds` and `TombstonesBoundedHolds`, from `AnnInv`:

- `IndexAt`: vectors of one length, links to other nodes and each once, at most
  `M` of them and, with two nodes or more, at least one. A node that is being
  added is left out of the last two, and no other has a link to it. A way out
  survives pruning because pruning starts only above `M >= 1` and keeps `M`, and
  the new node finds one because the list of candidates is never empty and,
  without links to it, never names it;
- `TombsAt`: `deletedCount` is the number of tombstones, so that
  `liveCandidates` may skip its filter when it is 0;
- `GoodWs`: no mark is of a later epoch than the workspace's, which is why the
  next epoch, or epoch 1 after a wrap that clears, has no marks yet;
- `LoopAt`, for every round: `maxQ` is the `KBest` of the marked nodes, `minQ`
  is a heap of marked nodes, every marked node can be reached from the entry
  point and, if `ef` is enough for all that can, each marked node waits in
  `minQ` or has had its neighbours marked.

`AnswerExact` and `TombstonesBounded` are part of it as they stand: they are
established by `Answer` and kept until `Return`. For the first, when the loop
ends and `ef` is enough, `minQ` is empty or the list is full: in both cases the
marked nodes are all that can be reached (`AllReached`). For the second,
`TombstonesCost` counts.

For `BatchSearch` it proves, for any queries, finitely many vectors, any block
width and numbers of processors (`BatchAssumption`), `AnswersInPlace`,
`AnswersExact` and `CountersBalance`, from `BatchInv`. In ANN mode `PoolOK` says
that a job that was sent is answered in its place or in the hands of a worker,
and that a closed channel was given all of them. In exact mode `ScansOK` says
that each query of a chunk whose distances are numbers has the `KBest` of the
vectors its scan has met; that the chunks are disjoint and cover the batch is
arithmetic about the rounding of their size (`ChunksDisjoint`, `ChunksCover`).
`StatsOK` adds to `StatsBalanced` that a hit that may still be sampled has been
counted (`samples` and the workers between a hit and its answer are together at
most `hits`).

What a recursive function or a sum over data computes is proved, where it is
needed, by a smallest counterexample (`WFMin` with `NatLessThanWellFounded` or
`FS_StrictSubsetOrderingWellFounded`), because the induction rules with an
operator parameter are out of the installed provers' reach. For the loops of the
heaps and of the ANN index this is done once, in `Rounds`, `Iteration` and
`RunIn`.

Every safety invariant, action property and refinement that a passing run checks
is also proved. Only model-checked are the liveness properties `CallsReturn`,
`LoopEnds`, `BatchReturns` and `ShutdownCompletes`, which are outside the proof
system's reach; and `Quiet`, `Steady` and `Healthy` are needed where the theorems about
`VectorService` and `FileVectorStore` assume them, which TLC shows with the
constants named above.

## Not modelled

- **Power failures** that lose the page cache: the snapshot is renamed without an
  fsync (`persistence.go:66`) and `sync_every` above 1 leaves acknowledged lines
  in the cache. The models let processes die, not machines.
- **Disk mode as a whole**: the file store and the cache are modelled by
  themselves, against any client; the start that reads the store into the index
  (`loadVectorStoreState`) is not, and in this mode no log is written.
- **Floating-point rounding**: distances are integers or no number (`NaN`; not in
  `AnnIndex`, whose vectors are integers), and the tokens of the limiter exact.
- **Buffer pools** of the service's queries and results: each call has its own.
- **Request bodies, JSON, metrics, access log**: they observe or encode. The
  access log names the client by `X-Forwarded-For` even if it is not trusted,
  unlike the limiter. Rate-limit buckets are never removed (`middleware.go:67`).
- **Generated code, benchmarks, tools, examples**, and `api/http`, which the
  server does not use.

Shutdown leaves four things to know. A handler that hangs in a write or an fsync
keeps `Close`, and with it the process, from ending, after the grace period too.
After the 10 s of HTTP the handlers that still run go on beside `Close`, and
what they acknowledge then is not synced, although
`docs/cloud-readiness-plan.md:180` says that pending persistence state is synced
before exit. `Run` drops the error of `Close`, so that a failed last fsync ends
in status 0; that is why `CleanExitLosesNothing` speaks of a `Close` that
succeeded. And a signal that comes before the gRPC server began to serve ends in
status 1.

## Plan

What the models could grow by, in the order of what it would say:

1. **Disk mode as a whole**: `loadVectorStoreState`, and the service over
   `FileVectorStore` and `CachedVectorStore` instead of a map.
2. **Power failures**: a file system below `Persistence` that loses what no
   fsync covered.
