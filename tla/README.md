# Verification of the MLDP PVXS driver

TLA+ models of the parts of `mldp-pvxs-driver` whose correctness depends on the order in which
threads, callbacks and shutdowns interleave, the TLC runs that check them on small instances and
TLAPS proofs that hold for every value of the constants. `PROJECT.json` maps each definition to
the lines it models and lists runs, hazards, findings and theorems.

## The system

The driver moves control-system data to stores.

```
 readers ──push()──▶ MLDPPVXSController ──dispatch──▶ writers (each a BaseQueuedWriter)
    │                   queue_, consumer thread         ├─ MLDP ingestion  (gRPC streams, pool)
    │                   ▲                               ├─ HDF5 files      (per source, merged)
    └─▶ channel processors ──push()─┘                   └─ metadata, configuration (annotation service)
                                                query engine: SQL over MLDP, table catalog, spill files
```

| Component | State | Operations | What is hard |
|---|---|---|---|
| Controller (`controller/MLDPPVXSController`) | `queue_`, `running_`, `force_quit_`, `readers_`, `writers_`, `processors_`, route table, threads | `start`, `push`, `consumerLoop`, `dispatchToWriters`, `onReaderCompleted`, `stop`, `forceStop` | two condition variables, shutdown from three places, completions during `start()` |
| Queued writer base (`writer/BaseQueuedWriter`) | channels, `queuedItems_`, `running_`, `forceQuit_` | `push`, `workerLoop`, `stop`, `forceStop` | counter outside the mutexes, notification without the mutex, timeouts |
| Channel processor (`processor/ChannelProcessor`, `InputBuffer`) | slots, fresh flags, `pending_tasks_`, `running_` | `push`, task, `stop`, destructor | drain protocol, trigger bookkeeping, trimming |
| MLDP writer, gRPC pools | per-worker stream, counters, close pool; connections in use | write, rotate, close; acquire, grow, release | rotation limits, write failure, waiting for connections |
| HDF5 writers (`writer/hdf5`) | open files, `tabularBuffers_`, `lastTsBatchSeq_`, flush thread | append, accumulate, rotate, flush, close | rotation in the middle of a batch or against the flush thread, names with one-second resolution, buffers at stop |
| Metadata and configuration writers | none of their own, the server's records | fetch, merge, save | read-modify-write by several workers, a fetch that fails |
| Archiver reader | cycle window, PV queue, watermarks, open batch per thread | tail cycles, fetch, parse, split, complete, stop | window handed between threads, duplicate boundary samples, broken streams |
| Calendar reader | seen events, pending activations | fetch a window, merge, carry over, rescan | events across windows, a window that fails |
| EPICS DS metadata reader | bounded result queue, consumers | RPC, sweep, publish, drain | stop while the queue is full, completion after the last table |
| PVXS, channel access, HDF5 BSAS readers | subscriptions, poll loops | poll, convert, push, complete | completion against registration |
| Query scans (`query/executor`, `query/impl/mldp`) | windows, slices, shards in flight, pooled connections | open, pull, hand over, cancel, drain | order over parallel shards, connections all taken, bounds in seconds and nanoseconds |
| Table catalog, spill files | files of a shared directory | create, drop, find; spill, read, clean up | crash between two renames, owners of a path |
| SQL parser, binder, planner, operators | values of one statement | transform | sequential |
| Configuration, metrics, CLI, utilities | YAML trees, counters | parse, print, count | I/O, no concurrency of their own that decides anything |

They interact through calls and queues only: readers and processors call the controller's
`push()`, its consumer thread calls each writer's `push()` on a fan-out pool and waits for all of
them, readers report completion through `IReaderLifecycle`, `main` calls `start()` and `stop()`
and its signal handler `forceStop()`.

What makes each part correct: the bus loses, duplicates and reorders nothing and is bounded; an
ordered shutdown drains bus and writers before it stops them and always returns; the driver
closes by itself exactly when all one-shot readers are done; a queued writer processes every item
it has accepted, once, and keeps the order of a routing key; a processor fires when its trigger
says so, on the newest samples, and never after it was stopped; a file writer puts every row in
one file beside its own timestamp; a record keeps what every item said of it; a reader delivers
each sample, event or table once before it reports completion; a scan returns each sample once and
in order without hanging; a table that exists is whole, whatever died when.

## Modules

| Module | Models | State and actions |
|---|---|---|
| `EventBus` | the promise of `IDataBus`, abstract | `pending`, `delivered`, ...; `Accept`, `Offer`, `Deliver`, `Retire`, `ForceStop`, `Discard` |
| `Controller` | `MLDPPVXSController`, the reader life cycle of `IReader.h`, main's calls | one variable per member (comments name them); one action per critical section or atomic store |
| `QueuedWriter` | `BaseQueuedWriter` | same |
| `ChannelProcessor` | `ChannelProcessor`, `InputBuffer` | same; slots are sequences of sample numbers |
| `MLDPWriter` | `MLDPWriter` on top of the worker loop, `MLDPGrpcIngestionPool` | one variable per member of `StreamState`, the tasks of `closePool_`, `in_use` of each pooled connection; one action per outcome of a step of `processItem()`, `ensureStream()`, `closeStream()` and its task |
| `HDF5Writer` | `HDF5WriterBase`, `HDF5WriterPerSource`, `HDF5WriterMerge`, `HDF5FilePool` | disk (path to contents), open files, tabular buffer, the worker's place in its batch, flush thread; an action for each outcome of acquire, rotate, append, accumulate, flush, close |
| `AnnotationWriters` | `MLDPPVMetadataWriter`, `MLDPConfigurationWriter` | the service's records, each worker's item and the record it fetched; `FetchExisting`, `Save`, `SaveActivation` |
| `ArchiverReader` | `EpicsArchiverReader` | cycle window, PV queue, per-thread watermark and open batch; an action per step of `runWorker()`, of a parsed sample, of `stopWorkers()` |
| `CalendarReader` | `SlacCalendarReader` | seen, pending, pushed; `Window` fetches, parses, merges and carries over as one pass of the loop does |
| `DSMetadataReader` | `EpicsDSMetadataReader` and its `RpcResultQueue` | scanning thread, queue, consumers, destructor |
| `QueryScan` | `WindowBackendScanRecordBatchStream`, `ParallelSeriesRecordBatchStream`, `fetchTimeSeriesWindows`, `MLDPGrpcQueryPool` | slice, one task per shard, caller of `next()`, cancellation |
| `TableCatalog` | `QueryTableCatalog` | files, the statement of each process; an action per file operation, failures and crashes |
| `SpillFiles` | `SpillManager`, `SpillWriter`, `SpillReader` | directory, files, artifacts, outstanding paths |
| `QueuedWriterProofs`, `EventBusProofs`, `ControllerProofs`, `MLDPWriterProofs`, `ChannelProcessorProofs` | theorems about the module of that name | |
| `WriterProofs` | theorems about `AnnotationWriters` and `HDF5Writer` | |
| `ReaderProofs` | theorems about `DSMetadataReader`, `ArchiverReader` and `CalendarReader` | |
| `QueryProofs` | theorems about `TableCatalog`, `SpillFiles` and `QueryScan` | |
| `MC*` | instances for TLC; `MCComponents` runs one of nine components per behaviour | the components it extends rest in an initial state while another runs |

`Controller` uses a writer only through the call of its `push()`; the environment assumption
`QueuedWriter` makes about its owner (`QuiescentStop`: `stop()` is called when no `push()` is in
progress) is what `Controller` proves and checks as `WritersOutliveConsumer`, unless a `stop()`
overtakes `start()` (see *Stops that overtake start()*). A processor is to
the controller one more producer thread; its own protocol is `ChannelProcessor`. The HDF5 and
annotation writers sit behind the queue of `QueuedWriter`, of which they use what is proved there
(each item once, per worker in order); the readers push to the bus of `Controller`, to which they
are the actors that complete.

A wait on a condition variable is three steps (test, block, wake), because members the predicate
reads are changed, and the variable notified, by threads that do not hold its mutex. Spurious
wakeups are allowed and never relied on. Operators headed "Defect" are the mutated forms the
mutants of `PROJECT.json` use; no specification refers to them.

### What is abstracted

Batches are pairs of a producer and a number; routing is a function from producers to sets of
writers; enrichment, filtering by prefix, metrics and logging are left out. A writer's `push()`
called by the consumer may accept or refuse: the model records that it was given the batch.
Readers are threads that push, may complete, and are joined by their destructor. A writer, processor
or reader that cannot be created makes `start()` throw (`StartFails`), and so does a route table that names
a reader which has already completed and left `readers_` (`BuildRoutes`): main then destroys the
controller and ends. `route_table_`
(assigned in `start()` while readers already push) and `writers_` (walked by `forceStop()` while
`stop()` clears it) are data races of the code; the models give these members their final value
and do not model the undefined outcomes.

In `MLDPWriter` the channels are plain sequences, `QueuedWriter` being about how they are filled
and drained, and the choice of a channel is free. A frame is its place in its batch and the size
of its request; a frame from which nothing can be sent (no timestamps, no columns) stays in the
item as a placeholder that is skipped. Time is one fact per stream, that it has reached
`stream-max-age-ms`. The server may refuse a provider, a stream, a write or a whole stream at
`Finish()`. Sent, ingested and failed frames are history variables: the code keeps counters.

In `HDF5Writer` a value is the batch and row it came from, two sources stand for ordinary and
tabular ones, and file sizes are counted in values. An ordinary batch is one frame, two frames that
share a row (a split one), or two frames with a timestamp each, as the archiver reader pushes them. A
group of a file is marked torn where the code itself breaks its rows: an HDF5 error between two
columns, a rotation between two frames of one batch, or a frame whose timestamp the code skips because
its batch has written one (`Untimed`). `RowsAligned` says nothing of torn groups; `hdf5_promises` shows
the last of the three. A behaviour ends when the flush thread uses
a null `mergeFile_`. `AnnotationWriters` gives a field the number of the item that set it. The
readers' streams are sequences of ticks, events or table numbers; HTTP, protobuf, JSON and
NTTable decoding are left out, but for its failing: a table on which `parseNTTable()` throws is dropped
by the consumer that holds it, or, with one thread, together with the sweep of its scan. A window of
the calendar may fail in the middle, after the configurations of some of its events. `QueryScan` has a sample at every tick, so that each lost or repeated
one shows, keeps the rounding of bounds to whole seconds, and pages by buckets of equal length: the
backend answers with every bucket that overlaps the seconds asked for. Its windows end no earlier than
they begin (others are refused) and a series scan has one (`ScanAssumption`). In `TableCatalog` statements of two
processes do not overlap, because they would share the `.partial` paths and the code promises
nothing then; their sessions and crashes do. In `SpillFiles` a label is a constant of the operator that
spills and every manager counts from zero, so that statements that overlap may meet on one path: they do,
in the run and in the theorem, and the properties speak of paths that only one statement has used.

## Runs

| Run | Instance | Shows |
|---|---|---|
| `writer_one_pusher` | one caller, two workers, capacity 2, four items, `forceStop()` any time | no item lost, `stop()` drains, counter exact, every item reaches a worker, `stop()` returns |
| `writer_two_pushers` | two callers (one keyed), two workers, capacity 1, timed push | no duplication, order per key, dropped items are reported, every `push()` returns |
| `writer_lost_wakeup` (violation) | one caller, no timeout | `push()` can sleep for ever: `backpressureCv_` is notified without its mutex |
| `bus` | a continuous reader and a processor, two writers with different routes, capacity 2, two batches each, `forceStop()` any time | nothing lost, writers outlive the consumer, order, cleared queue stays empty, refinement of `EventBus`, every `push()` returns |
| `bus_stop` | two one-shot readers that complete at any time, also during `start()`, capacity 1, `forceStop()` any time | `stop()` returns and has drained the bus; a completion is never missed; the controller closes by itself when both are done, and not before |
| `bus_early_close` (violation) | a one-shot reader, then a continuous one | the completion of the first, while `start()` has not created the second, closes the controller with a reader that never completes and a batch left in `queue_` |
| `ingestion` | two workers, up to two connections, two items of small, large and unsendable frames, streams of two requests or two bytes, every step may fail, `forceStop()` any time | connections neither leaked nor shared, stream limits, every frame in exactly one place, `stop()` flushes and returns, aged streams are closed |
| `ingestion_starved` (violation) | two workers, one connection | `stop()` never returns: a worker that has left keeps the connection another one waits for |
| `components` | nine components, one per behaviour: see below | their fourteen safety properties, under faults, crashes and a stop at any moment |
| `hdf5_promises` (violation) | both HDF5 writers, no failing operation | a value without a timestamp in its row, and a file replaced by a later rotation, in one behaviour |
| `processor_destroy` (violation) | one configuration | a processor can be destroyed before its last task has notified `drain_cv_` |
| `metadata_lost_update` (violation) | metadata writer, two workers, two items of one PV | the second save removes the field the first one set |

**`components`.** These components share no state, so a behaviour picks one and runs it alone: TLC
explores the sum of their state spaces and not the product. Each property names its component.

| Part | Instance | Properties |
|---|---|---|
| processor | two sources, one of which changes its columns, seven configurations, three samples each | `AllUpdatedIsFresh` and `NoMissedFiring` (the trigger is exact), `SlotIsNewest`, `QuietAfterStop` |
| hdf5 | both writers, three batches of one or two frames, sharing a row or each with its own, files of two values or two seconds, one fault | `RowsAccounted`: every value is in one place, and losses have the causes they are named for; `FilesSound`: rows stay beside their timestamps and stop seals the files |
| scan | window, wide and series scans, five sets of windows, two slice lengths and bucket sizes, one to three connections, three shards, one fault, cancellation | `ScanExact`, `ScanNeverStarves` |
| catalog | two processes, four creates, two faults, two crashes | `PersistentTablesSound` |
| spill | two statements, two labels, two and one artifacts of up to two batches, one fault | `SpillsSound` |
| archiver | one tail thread or one and two historical ones, two PVs, three batch sizes, late cycles, one broken stream | `ArchiveExact` |
| annotation | two configuration workers, or one metadata worker, two records of two fields, three items, one failed call | `RecordsMerged` |
| calendar | no event, and every choice of three out of eight shapes, three windows, two scans, one bad window | `ActivationsExact` |
| directory | one to three threads, queue of one, four scans, one failed RPC, one table that cannot be parsed, both modes | `TablesPublished` |

**Bounds.** Capacities of 1 and 2 make full queues, blocked callers and swaps of more than one
batch happen; two producers are the least that can overtake each other and two writers the least
that can be routed differently; one batch (item) more than the capacity makes a caller block, and
two per producer show order. `MaxBatches`, `MaxItems`, `MaxSamples`, `MaxQueued`, `MaxFrame(s)`,
`MaxOutputs` are bounds of the instances, none of the theorems fixes them. `CounterModulus` is
256 instead of 2^64: any modulus larger than the items and threads wraps at the same moments.
For a stream of at most two requests and two bytes, frames of one and three bytes meet every
rotation: by number, by bytes, and the request that is larger than a stream. In `components` three
batches are the least with a split batch before and after a rotation and a tabular round that is
flushed by the next; one fault per behaviour leaves the recovery from it to be seen, and two
creates after a crash show what it left behind; three events meet each way two can touch and a
third that bridges them or is cross-posted; two statements, of which one spills twice, meet on one
path and pass each other on others; a tick of delay makes a cycle late, and lookbacks of
one and two ticks make first windows shorter and as long as the interval. Deadlock is checked in
every run but three that end in a violation: `ingestion_starved`, whose subject it is, `hdf5_promises` and
`metadata_lost_update`. `Finished` in `MCComponents` lists where a component may rest for good, so
that a scan, a drain or a join that waits for ever is an error of `components`.

**Fairness.** Threads are scheduled: weak fairness of each thread's own step. A mutex that others
keep taking and releasing is obtained eventually, as with the futex mutexes the build uses: strong
fairness of the steps that compete for one. In `Controller` these are the producers' and the consumer's;
`start()`, `stop()`, `forceStop()`, the completions and main, which polls `isStopped()`, need weak
fairness only. Writers answer and workers finish an item. Nobody has to
push, complete, stop or force, and no spurious wakeup has to happen. With `push_timeout_ms` set
the timeout of a blocked caller expires (part of the caller's step). The ingestion server answers
`Finish()`: the code sets no deadline, so nothing can be said if it does not. `StopReturns` of the
ingestion writer needs as many connections as workers, which the automatic sizing gives
(`thread-pool` to twice that) and an explicit `max-conn` need not: `ingestion_starved`.

**Stops that overtake start().** A one-shot reader may complete while `start()` still creates readers,
and its completion may then stop the controller: before the consumer thread exists, or because
`readers_` is empty for the moment. The code does not exclude it, so the model does not. Two marks in
the history variable `early` name what happened: `"stopped"`, that a `stop()` began before `start()` had
returned, and `"emptied"`, that a completion emptied `readers_` while `start()` had readers yet to put
into it. `StopDrainsBus` speaks of behaviours without the first (`Unhurried`),
`AutoCloseOnlyWhenAllComplete` of those without the second, and `bus_stop` checks both with completions
at any time; `bus_early_close` shows what each exemption costs. In `bus` the reader never completes, so
its properties need no exemption there. The liveness properties of the controller exempt a `start()` that
threw and a `stop()` that overtook it (`Abandoned`), except `AutoCloses`.

## Proofs

`QueuedWriterProofs` proves, for every number of callers, workers and items and every capacity:
type correctness; `NoItemDuplicated`; `CounterAccounts`; `QueueBound`; and, for an owner that is
quiescent at `stop()`, `NoItemLost` and `StopDrains`. The argument rests on three inductive
invariants. *Places*: the places an item can be in (a channel, a worker's hand, processed) are
disjoint, and items a caller has not taken up yet are nowhere. *Counting*: the counter equals,
modulo its width, queued plus popped minus not yet counted; it needs places, because an item
popped twice would be counted down twice. *Draining*: a worker leaves only when its channel is
shut and empty, and nothing enters a channel after `stop()` began; that is where quiescence is used.
Two more theorems need no such owner: `KeyOrder` and `NoSilentDrop`. Their invariant is that items
of a key are only in the channel and the hands of the worker the key is hashed to (`Pinned`), that a
channel holds a caller's items in ascending order (`InOrder`), that an accepted item is somewhere
until `stop()` clears the channels (`Present`), and that it does so after every worker has left
(`DoneAfterExit`).

`ControllerProofs` proves, for every list of readers, every set of processors and writers, every
route table and capacity, with completions at any time: type correctness, `BusBound`,
`ForcedQueueStaysEmpty`, `StopDrainsBus` and `AutoCloseOnlyWhenAllComplete`; and, as long as no `stop()`
has overtaken `start()` (`Unhurried`), `WritersOutliveConsumer`, `NoBatchLost`, `DeliveryOrder` and that
`Controller` implements `EventBus`.
The types need facts about control: readers `start()` has not reached have no thread (`StartInv`),
at most two detached threads exist per reader (`ReapInv`), a batch is in flight only while the
consumer walks its deque (`FlightInv`), a producer inside `push()` holds a numbered batch
(`NumberInv`), the consumer is created last (`ConsumerInv`). To these come that whoever acts on a
completion has one (`CompletionInv`), that an unhurried `stop()` follows `start()` (`StopInv`), and that
`stop()` takes the writers down last, after a consumer that left an empty queue (`ShutdownInv`). The
automatic close rests on `start()` going through its readers in order and forgetting none
(`RegisteredStep`): a registered reader is in `readers_` or has completed until somebody stops, and a thread
that goes on to `stop()` has seen `readers_` empty after the last was put into it, unless `"emptied"`
(`CloseInv`). The refinement maps `local`
followed by `queue_` to the abstract `pending`; it needs, besides these, that a
producer's accepted batches carry smaller numbers than the one it is pushing (`OrderInv`) and that
`forceStop()` has set `force_quit_` before it clears anything (`ForceInv`). What the abstract bus promises is proved once, in
`EventBusProofs`, and carried over: losing nothing and keeping order are facts about a queue of
five actions, not about twenty actions with condition variables.

`MLDPWriterProofs` proves type correctness, including that the pool never outgrows `max-conn`,
and `ConnectionsOwned` for every number of workers, connections, items and every limit. The
invariant says that a handle and a connection's mark agree (`HandleInv`, `MarkedInv`), that no two
workers, two closing streams or a worker and a closing stream hold the same one (`ExclusiveInv`),
that a marked connection has an owner (`OwnedInv`), and that before `start()` there is nothing
(`NewInv`). Exclusiveness is what makes `release()` safe: clearing a mark would otherwise put a
connection up for `acquire()` while a second stream writes on it. `FramesAccounted` and
`StopFlushes` are proved from it. A frame's places (waiting, in hand, in a stream, closing, ingested,
failed) are pairwise apart (`Apart`) and cover every frame that can be sent of every accepted item
(`Covered`). That is not inductive: two items in the queue, two hands, two open or two closing streams
must share no frame either (`QueueApart`, `HandsApart`, `StreamsApart`, `ClosingApart`), or the step that
moves one of them would leave its frames behind in the other. `StopFlushes` adds that a worker leaves
with an empty channel unless forced (`ExitInv`), and that `stop()` returns after all workers and with
every stream closed and settled (`DoneInv`). `StreamLimits` needs that a worker's counters are those of
its stream, so that the test before a request is a test of what the stream carries (`CountInv`); that
the bytes of a stream are a sum over its requests is an induction over the stream (see below).

`ChannelProcessorProofs` proves, for every set of configurations, sources and batches,
`QuietAfterStop` (`pending_tasks_` counts exactly the tasks that wait or run, and `stop()` returned
only after it was zero with `running_` cleared), `AllUpdatedIsFresh`, and `NoMissedFiring` for
processors that name no source twice. The last two rest on `fresh_` being exactly the sources with
a sample since the last firing (`FreshInv`), which needs that the tasks of a source wait in the order
of their samples (`OrderInv`). The hypothesis is needed: see Findings. `SlotIsNewest` is proved without it: the frames
that the tasks of a source carry are consecutive cuts of its samples, beginning where its slot ends
(`ChainInv`), every layout in a task is one the source has been seen with (`LayoutInv`), and a slot
whose source kept its layout is a run of samples that ends with the last one taken in, as long as
`max_depth` allows (`SlotInv`). What one task accumulates is a fold over its frames, proved by induction
over them.

`ReaderProofs` holds three. `TablesPublished`, for every number of consumers, queue depth and
number of scans, failed RPCs and unreadable tables: an accepted table that can be parsed is in the queue,
in a consumer's hands or published (`WhereInv`) and in one of these only; what is held or published is older than what waits (`HeldInv`, `BusInv`), and
a consumer ends only when the queue is closed and empty, after the last scan (`CloseInv`). `ArchiveExact`, for every list of PVs without repetition, any poll
interval, lookback within it, delay, batch limits, number of historical threads and of broken streams,
and one thread in tail mode (`ExactReader`). The configuration gives the bound on the lookback
(`ArchiverAssumption`). The invariant says where a sample that is due is: pushed, lost with its stream,
in an open stream, or behind a PV that waits in the queue (`CoverInv`). That a dropped boundary sample
was delivered needs a second account, of the samples up to a PV's watermark (`PassedInv`): these are
pushed, lost or held, never still to come, because a stream is read in ascending order and a PV is
either queued or open in one thread (`PlaceInv`). Order follows from what is pushed being before what is
held and that before what is to come (`StreamInv`, `OutInv`), and consecutive windows from the
coordinator's own cycle (`CycleInv`); a historical thread leaves only an empty queue (`RangeInv`), so
the last one to leave reports with everything pushed (`ReportInv`).
`ActivationsExact`, for every finite calendar, range, window length, number of scans and of bad windows.
`CalendarAssumption` asks that windows have a length (the configuration refuses others) and, of the calendar
service, that no event ends before it starts. Between two windows (`AheadInv`) what was pushed ended before the
window to come and before the activation of its name that is held back; there is one such; and an event that
reaches into the window to come belongs to it, so that fetching it again adds nothing to what is out. An
event keeps the name it was first given (`SeenInv`), an activation spans only posted time (`BackedInv`), and every event
fetched has its activation (`EventsCovered`). A window itself is a fold of `pushEvent()` over some order of the answer
(`ParsedAll`), and for each name a sort (`Sorted`, which first needs that a sorted listing exists,
`OrderExists`) and a fold that merges (`RunsMerge`): each is an induction over places, and `RunsSplit`
says what goes out and what is held.

`WriterProofs` holds three. `RecordsMerged`, for every number of records, fields, workers, items
and failing calls, where a record stays on one worker (`Pinned`: items carry a routing key, as
`MLDPConfigurationWriter`'s do, or there is one worker). The invariant says where an item may be
(`WhereInv`), that a worker's backlog is ascending and after the item in its hand (`BacklogInv`), that
items of one worker are tried in order (`OrderInv`), that the record a worker fetched is still the
service's when it saves (`HandInv`), unless its fetch failed (`BlindInv`), and that a field is what the
newest saved item that speaks of it says (`FieldInv`). `metadata_lost_update` shows what happens without `Pinned`.
`FilesSound`, for every limit, every number of batches, rotations and failing file operations, and both
HDF5 writers. An ordinary batch may be half written between two frames, and then it is in the open file
of its source and nowhere else (`PvInv`, `Pending`): that needs what may be left of the batch at each
control point (`WorkInv`), and that a rotation in between, or a second timestamp, tears the group. The tabular buffer holds one
row of one round in columns its schema knows (`BufInv`), so a flush adds one row to every column of a
locked schema (`TableInv`). That the flush thread meets a null file only in or after a rotation, and that
every file is sealed at the end, follow from what `start()`, `stop()` and the two threads can each still
do (`StopInv`) and from every temporary name being that of an open file or of a failed rename (`Sealed`).
`RowsAccounted`, a count over the places of every value, is proved on top of it, for positive limits
(`RotationLimits`: the configuration is refused otherwise). What is invariant is not the count but which
places exclude each other (`Accounts`): a value in hand is nowhere else, one behind the front of the
buffer is not on disk, the front is on disk only in groups that a failing flush tore, two cells hold one
value only where a tabular group is torn. That opening truncates no file that holds values, and that a
rename replaces one only under the one-second names of the ordinary source, needs the names: what was
used before (`Named`), and that the pool counts no bytes of a tabular file, so that it is rotated by age
alone and never to its own name (`TableFile`). The count follows: a value has one place unless a torn
group holds it twice.

`QueryProofs` holds four. `PersistentTablesSound`, for any processes, tables, failures and crashes:
the invariant lists the files each step of `create()` and `drop()` may leave (`WrittenInv`, `DropInv`), and
a `create()` under way implies that no table is acknowledged (`CreateInv`), so none can be overwritten. `ScanNeverStarves`, for any shards, pool of at least one
connection, parallel limit and faults: shards before the current one hold nothing, those not started
wait, and the ones between never exceed the pool (`FlightInv`), so the shard the caller waits for
always gets a connection. `ScanExact`, for any finite set of windows, slice length, bucket size, shards,
connections and faults, after `ScanAssumption`. The windows a scan cuts are disjoint, ascending and not
adjacent, and cover what was asked for (`Normal`): an induction over the fold that joins them, on top of
the existence of their order. Between two steps (`ExactInv`) a slice begins a whole number of lengths after
its window (`SliceInv`); each shard that is read goes on with a bucket of the slice, the rows of the buckets
before it are handed out, and a page that waits is not (`ReadInv`); rows lie at or before the place of the
reader, in order, and the ones of a slice end before the next slice begins (`RowsInv`, `ApartInv`); and each
tick the reader has passed is handed out or after the last bucket its slice asks for (`CompleteInv`). That
a page adds the rows inside the slice is an induction over the page.
`SpillsSound`, for any overlapping statements and labels: every file of the directory is at the path of an
artifact that uses it, and managers know only paths of their own (`PathInv`); a file has one path for ever
(`FileInv`), so what others do to files of other paths cannot reach it; hence an artifact in use whose path
no other statement has used has its file there, with all its batches, and is known to its manager
(`IntactInv`), and a path that a manager knows and does not share has its file (`KnownInv`). That a path,
once shared, stays so makes the exemption stable.

Each of these inductive invariants was first checked by TLC on an instance of its component. The
hypotheses of theorems (`QuiescentStop`, `Unhurried`, `DistinctSources`, `Pinned`, `ExactReader`, positive
numbers of threads, shards and connections) hold of the instances the runs use, except where a run
is about their failing.

## Only model-checked

Liveness (`PushReturns`, `StopReturns`, `ItemsReachWorkers`, `AutoCloses`, `CompletionNoticed`,
`AgedStreamsClose`) is out of the prover's reach, and so is everything that speaks of ENABLED. No safety
invariant of a passing run is left without a theorem.
The induction theorems of the library take an operator as parameter, which the provers here cannot
instantiate; where a proof needed an induction over numbers or the elements of a sequence (`StreamLimits`,
`SlotIsNewest`, `ActivationsExact`, `ScanExact`), it goes through `NatLessThanWellFounded` and a least counterexample (`SetInduction`).
The type invariants and the two capacity bounds are proved and no longer checked by a run.

## Findings

Six runs end in a counterexample, each against statements quoted in `PROJECT.json`: the lost
wakeup of `push()` without a timeout, the processor destroyed before its last task has notified, the
ingestion writer's stop that waits for a connection nobody gives back, the metadata save that undoes
another worker's, and two that break two statements each. `bus_early_close`: the automatic close that runs
while `start()` fills `readers_`, with a reader that never completes, and that leaves a batch in the queue
because there is no consumer thread yet. `hdf5_promises`: the frame of an archiver batch that is written
without its timestamp, so that later rows stand beside wrong ones, and the file that a second rotation
within the second replaces. Each of the two checks that at least one of its statements holds, so a
counterexample breaks both.

What the properties had to leave out, because the code does not do it:

- A `stop()` that overtakes `start()` may also never return: with three readers, `readers_.clear()` holds
  `readers_mutex_` while it joins a reader asleep in `push()` on a full queue that nobody consumes, and
  `start()` waits for that mutex to register the next one (`Abandoned` exempts it).
- Two rotations of a per-source file in one second give both files one name; the rows of the first
  are gone (`lost["overwritten"]`). The merge writer's names are numbered, and lose nothing.
- A rotation between two frames of a split batch leaves timestamps in one file and columns in the
  next. A merge file that cannot be opened is never opened again: later frames are skipped.
- The flush thread tests `mergeFile_` before it locks, and uses a null one when a rotation has closed the file
  in between (`HDF5WriterMerge.cpp:61`), though `docs/writers/hdf5-writer.md:334` says "Writer and flush
  threads never touch the merge file concurrently without holding this mutex." The model takes that step;
  `StopSeals` says only when it can happen. Tabular rows of a round that is not over when the writer stops
  are not written.
- With two or more tail threads a fetch thread may read the next cycle's window and leave a gap
  (`WindowsCovered` holds for one), and `stopWorkers()`, which notifies without the mutex, can miss a
  thread about to wait. A stream that breaks with unlimited batches loses its open chunk. A PV that is
  configured twice is read twice by a historical reader, and its samples are pushed twice.
- A table of the directory service that cannot be parsed is dropped after it was accepted, with one thread
  together with the PV sweep of its scan, and a one-shot reader completes all the same.
- A window of the calendar that fails drops the activations carried over to it, though configurations of
  its events may have gone out.
- A source listed twice in a processor's configuration (`parseSources()` keeps duplicates) makes the
  all-updated trigger never fire: `fresh_` is a set and its size is compared with the length of the list.
  The run's processors name no source twice.
- With two or more directory consumers an older table may be published after a newer one.
- A fetch that fails counts as an absent record, so the save replaces the record; `RecordsMerged` exempts
  it (`blindAt`).
- Samples after the last whole second of a window with sub-second bounds are never asked for
  (`Unasked`), and the serial scan adds those of a bucket that reaches beyond its window (`Overhang`).
- Session tables of two processes with one root directory share their files. So do spill files of
  statements that overlap and spill in the same operator: labels are constants (`GroupedAggregator.cpp:291`,
  `WideTableScan.cpp:140`, `WindowEvaluator.cpp:608`), numbers begin at zero in every manager, and the
  directory is the same by default (`QueryCommand.cpp:1803`), though `SpillManager.h:70` says it "Creates and
  tracks temporary Arrow IPC files for one query." `SpillsSound` exempts exactly the paths two statements used.
- `route_table_` and `writers_` are read while they are assigned or cleared (see above); a `stop()`
  of a processor and a `forceStop()` of a writer can miss a notification as `push()` can.

## Not modelled, and the plan

Not modelled: subscription callbacks of the PVXS and channel access readers, which are external
libraries' threads around one conversion and a push; routing, processor-graph validation and
enrichers, sequential functions of the configuration or of one batch; the SQL parser, binder,
planner and operators over Arrow data, which have no interleavings and whose results are a question
for tests over data; conversions between wire formats; configuration and wizard (parsing and
terminal I/O), metrics (counters nothing decides on), HTTP and logging (I/O), Python scripts.
Vendored code (`ext/`: YAML, thread pool) is used through its interface. Together these are most
of the repository's lines, and few of its decisions.

Worth proving next: properties that relate components (a writer's drained
queue and the frames of its streams, a scan's pool and its query's spill files).
