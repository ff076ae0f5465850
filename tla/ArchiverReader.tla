--------------------------- MODULE ArchiverReader ---------------------------
(***************************************************************************)
(* The EPICS archiver reader: fetch threads that share a queue of PVs.     *)
(*                                                                         *)
(* In "historical" mode every PV is fetched once over a fixed range and    *)
(* the last thread to finish reports completion.  In "tail" mode thread 0  *)
(* coordinates: each cycle it publishes a time window, refills the queue   *)
(* and wakes the other threads, which read the window once and then drain  *)
(* the queue.  A tail window is inclusive at both ends, so consecutive     *)
(* windows share their boundary sample and each thread keeps a watermark   *)
(* per PV to drop it.                                                      *)
(*                                                                         *)
(* Time is counted in ticks and every PV has one sample per tick.  The     *)
(* HTTP stream is a sequence of sample times that may break at any point;  *)
(* URL, escaping, the value's conversion, metadata and metrics are left    *)
(* out.  The PV of a payload header is the PV that was asked for.          *)
(***************************************************************************)
EXTENDS Integers, Sequences, FiniteSets, SequencesExt

CONSTANTS
  PVList,          \* config_.pvNames(), a sequence
  ArchiverConfigs, \* [mode, threads, lookback, perBatch] the reader may run with
  Poll,            \* poll-interval-sec, in ticks
  MaxDelay,        \* how much later than Poll the coordinator may wake up
  MaxSpan,         \* max-batch-span-sec, in ticks
  MaxNow,          \* bound: the last tick at which a cycle starts
  MaxFetchFaults   \* bound: streams that break while the reader runs

\* What EpicsArchiverReaderConfig accepts: PVs to read, at least one thread, and a
\* lookback of at most the poll interval.
ASSUME ArchiverAssumption ==
  /\ PVList # <<>> /\ PVList \in Seq(ToSet(PVList))
  /\ Poll \in Nat \ {0} /\ MaxDelay \in Nat /\ MaxSpan \in Nat /\ MaxNow \in Nat
  /\ MaxFetchFaults \in Nat
  /\ \A c \in ArchiverConfigs : /\ c.mode \in {"tail", "historical"}
                                /\ c.threads \in Nat \ {0}
                                /\ c.lookback \in 1 .. Poll
                                /\ c.perBatch \in Nat

VARIABLES
  conf,            \* the configuration of this reader
  fetching,        \* running_
  stopper,         \* stopWorkers(): "idle", "notify", "join" or "returned"
  now,             \* system_clock, read by the coordinator
  pvQueue,         \* pv_queue_
  cycle,           \* [ready, from, to]: cycle_ready_, cycle_from_, cycle_to_
  prevEnd,         \* previous_iteration_end (-1: none yet)
  fpc,             \* thread -> its control point in runWorker()
  lastSeen,        \* thread -> last_cycle_seen
  window,          \* thread -> [from, to], its copy of the window
  stream,          \* thread -> [pv, rest, chunk, pending]: what is still to come of the
                   \* PV's stream, the samples of the open chunk, the pending batch
  mark,            \* thread -> PV -> the watermark in its WorkerContext (-1: none)
  completions,     \* calls of signalCompleted()
  fetchFaults,     \* streams that broke so far
  published,       \* PV -> the sample times pushed to the bus, in order
  due,             \* history: the ticks the windows so far ask for
  broken           \* history: PV -> samples of broken streams not pushed

\* Groups of variables that most steps leave alone.
control == <<conf, fetching, stopper>>
times   == <<now, prevEnd>>
shared  == <<pvQueue, cycle, due>>
local   == <<lastSeen, window, stream, mark>>
output  == <<completions, fetchFaults, published, broken>>
archiverVars == <<control, times, shared, fpc, local, output>>

PVs      == ToSet(PVList)
Threads  == 0 .. conf.threads - 1
TailMode == conf.mode = "tail"

\* config_.startDate() and endDate() of the historical range.
HistoricalFrom == 0
HistoricalTo   == 2

\* The archiver's answer to from and to (both inclusive).
Samples(from, to) == [k \in 1 .. to - from + 1 |-> from + k - 1]

Stream(pv, rest, chunk, pending) == [pv |-> pv, rest |-> rest, chunk |-> chunk, pending |-> pending]

\* startWorkers(): called by the constructor.
ArchiverInit ==
  /\ conf \in ArchiverConfigs
  /\ fetching = TRUE /\ stopper = "idle"
  /\ now = Poll
  /\ pvQueue = IF TailMode THEN <<>> ELSE PVList
  /\ cycle = [ready |-> 0, from |-> 0, to |-> 0]
  /\ prevEnd = -1
  /\ fpc = [w \in Threads |-> "top"]
  /\ lastSeen = [w \in Threads |-> 0]
  /\ window = [w \in Threads |-> [from |-> HistoricalFrom, to |-> HistoricalTo]]
  /\ stream = [w \in Threads |-> Stream(PVList[1], <<>>, <<>>, <<>>)]
  /\ mark = [w \in Threads |-> [p \in PVs |-> -1]]
  /\ completions = 0 /\ fetchFaults = 0
  /\ published = [p \in PVs |-> <<>>]
  /\ due = IF TailMode THEN {} ELSE HistoricalFrom .. HistoricalTo
  /\ broken = [p \in PVs |-> {}]

Here(w, point) == w \in Threads /\ fpc[w] = point
Goto(w, point) == fpc' = [fpc EXCEPT ![w] = point]

\* notify_all() on cycle_cv_: a thread that waits tests its predicate again.
Notified == [w \in Threads |-> IF fpc[w] = "blocked" THEN "test" ELSE fpc[w]]

-----------------------------------------------------------------------------
(* runWorker(): the cycle                                                  *)

\* The window of the next cycle starts where the last one ended, if windows are
\* contiguous.
WindowStart ==
  IF conf.lookback = Poll /\ prevEnd # -1 THEN prevEnd ELSE now - conf.lookback

\* while (running_): historical threads drain the queue; the coordinator
\* sets the window under cycle_mutex_ (nobody is between test and wait).
Top(w) ==
  /\ Here(w, "top")
  /\ \/ /\ ~fetching \/ ~TailMode \/ w > 0
        /\ Goto(w, IF ~fetching THEN "exit" ELSE IF ~TailMode THEN "loop" ELSE "test")
        /\ UNCHANGED <<cycle, due>>
     \/ /\ fetching /\ TailMode /\ w = 0
        /\ \A v \in Threads : fpc[v] # "park"
        /\ cycle' = [ready |-> cycle.ready, from |-> WindowStart, to |-> now]
        /\ due' = due \cup (WindowStart .. now)
        /\ Goto(w, "populate")
  /\ UNCHANGED <<control, times, local, output, pvQueue>>

\* pv_queue_.populate() replaces what is left in the queue.
Populate(w) ==
  /\ Here(w, "populate")
  /\ pvQueue' = PVList
  /\ prevEnd' = now
  /\ Goto(w, "signal")
  /\ UNCHANGED <<control, local, output, now, cycle, due>>

\* cycle_ready_.fetch_add(1); cycle_cv_.notify_all(), without cycle_mutex_.
Signal(w) ==
  /\ Here(w, "signal")
  /\ cycle' = [ready |-> cycle.ready + 1, from |-> cycle.from, to |-> cycle.to]
  /\ fpc' = [Notified EXCEPT ![w] = "test"]
  /\ UNCHANGED <<control, times, local, output, pvQueue, due>>

\* The predicate of cycle_cv_.wait, evaluated under cycle_mutex_.
Test(w) ==
  /\ Here(w, "test")
  /\ Goto(w, IF ~fetching THEN "exit" ELSE IF cycle.ready > lastSeen[w] THEN "window" ELSE "park")
  /\ lastSeen' = IF fetching THEN [lastSeen EXCEPT ![w] = cycle.ready] ELSE lastSeen
  /\ UNCHANGED <<control, times, shared, output, window, stream, mark>>

\* The wait itself: a notification before this step is not seen.
Park(w) ==
  /\ Here(w, "park")
  /\ Goto(w, "blocked")
  /\ UNCHANGED <<control, times, shared, local, output>>

\* from and to are copied once per cycle, in a second critical section.
ReadWindow(w) ==
  /\ Here(w, "window")
  /\ Goto(w, "loop")
  /\ window' = [window EXCEPT ![w] = [from |-> cycle.from, to |-> cycle.to]]
  /\ UNCHANGED <<control, times, shared, output, lastSeen, stream, mark>>

\* pv_queue_.pop(): the next PV, with the window the thread holds.
Pop(w) ==
  /\ Here(w, "loop") /\ fetching /\ pvQueue # <<>>
  /\ Goto(w, "fetch")
  /\ stream' = [stream EXCEPT ![w] =
                  Stream(Head(pvQueue), Samples(window[w].from, window[w].to), <<>>, <<>>)]
  /\ pvQueue' = Tail(pvQueue)
  /\ UNCHANGED <<control, times, output, cycle, due, lastSeen, window, mark>>

\* The queue is empty, or running_ is cleared.
LeaveLoop(w) ==
  /\ Here(w, "loop") /\ (~fetching \/ pvQueue = <<>>)
  /\ Goto(w, IF ~TailMode THEN "exit" ELSE IF w = 0 THEN "sleep" ELSE "top")
  /\ UNCHANGED <<control, times, shared, local, output>>

\* worker_cv_.wait_for(pollIntervalSec()): the coordinator's pause.
Sleep(w) ==
  /\ Here(w, "sleep")
  /\ \/ ~fetching /\ UNCHANGED now
     \/ \E d \in 0 .. MaxDelay : now + Poll + d <= MaxNow /\ now' = now + Poll + d
  /\ Goto(w, "top")
  /\ UNCHANGED <<control, shared, local, output, prevEnd>>

\* The end of runWorker(): the last thread of a historical read reports.
Leave(w) ==
  /\ Here(w, "exit")
  /\ Goto(w, "done")
  /\ completions' =
       IF /\ \A v \in Threads \ {w} : fpc[v] = "done"
          /\ ~TailMode /\ fetching
       THEN completions + 1 ELSE completions
  /\ UNCHANGED <<control, times, shared, local, fetchFaults, published, broken>>

-----------------------------------------------------------------------------
(* fetchSinglePV(): one stream                                             *)

\* pushBatch(): after running_ is cleared a batch is thrown away.
PushBatch(pv, batch) ==
  published' = IF fetching THEN [published EXCEPT ![pv] = @ \o batch] ELSE published

\* max-batch-span-sec: the pending batch may not span this much with t added.
TooWide(pending, t) == pending # <<>> /\ Head(pending) + MaxSpan <= t

\* Defect: only samples older than the watermark are dropped.
Older(w, t) == TailMode /\ t < mark[w][stream[w].pv]

\* The boundary sample of two tail windows comes twice.  The watermark belongs
\* to the thread, not to the reader.
Duplicate(w, t) == TailMode /\ t <= mark[w][stream[w].pv]

\* parsePbHttpLineIntoState(): one sample of the stream is dropped as a duplicate,
\* added to the open chunk when batches are unlimited, or else to the pending
\* batch, which goes out before it gets too wide and when it is full.
Parse(w) ==
  LET self == stream[w]
      t    == Head(self.rest)
      wide == TooWide(self.pending, t)
      kept == IF wide THEN <<t>> ELSE Append(self.pending, t)
      out  == IF wide THEN self.pending ELSE <<>>
      full == Len(kept) >= conf.perBatch
  IN  /\ Here(w, "fetch") /\ self.rest # <<>>
      /\ \/ /\ Duplicate(w, t)
            /\ stream' = [stream EXCEPT ![w] =
                            Stream(self.pv, Tail(self.rest), self.chunk, self.pending)]
            /\ UNCHANGED <<published, mark>>
         \/ /\ ~Duplicate(w, t) /\ conf.perBatch = 0
            /\ stream' = [stream EXCEPT ![w] =
                            Stream(self.pv, Tail(self.rest), Append(self.chunk, t), self.pending)]
            /\ mark' = [mark EXCEPT ![w] = [mark[w] EXCEPT ![self.pv] = t]]
            /\ UNCHANGED published
         \/ /\ ~Duplicate(w, t) /\ conf.perBatch # 0
            /\ stream' = [stream EXCEPT ![w] =
                            Stream(self.pv, Tail(self.rest), self.chunk, IF full THEN <<>> ELSE kept)]
            /\ mark' = [mark EXCEPT ![w] = [mark[w] EXCEPT ![self.pv] = t]]
            /\ PushBatch(self.pv, IF full THEN out \o kept ELSE out)
      /\ UNCHANGED <<control, times, shared, fpc, lastSeen, window, completions, fetchFaults, broken>>

\* finalizeChunk() at an empty line: the chunk's samples go out together.
FinalizeChunk(w) ==
  /\ Here(w, "fetch") /\ stream[w].chunk # <<>>
  /\ PushBatch(stream[w].pv, stream[w].chunk)
  /\ stream' = [stream EXCEPT ![w] = Stream(stream[w].pv, stream[w].rest, <<>>, stream[w].pending)]
  /\ UNCHANGED <<control, times, shared, fpc, lastSeen, window, mark, completions, fetchFaults, broken>>

\* The stream ends with status 200: finalizeChunk, flushAllPendingBatches.
EndFetch(w) ==
  /\ Here(w, "fetch") /\ stream[w].rest = <<>>
  /\ PushBatch(stream[w].pv, stream[w].chunk \o stream[w].pending)
  /\ stream' = [stream EXCEPT ![w] = Stream(stream[w].pv, <<>>, <<>>, <<>>)]
  /\ Goto(w, "loop")
  /\ UNCHANGED <<control, times, shared, lastSeen, window, mark, completions, fetchFaults, broken>>

\* The stream breaks.  fetchPvSafely() flushes the pending batch and goes on;
\* samples of an open chunk are gone.
FetchFails(w) ==
  /\ Here(w, "fetch") /\ fetching /\ fetchFaults < MaxFetchFaults
  /\ fetchFaults' = fetchFaults + 1
  /\ PushBatch(stream[w].pv, stream[w].pending)
  /\ broken' = [broken EXCEPT ![stream[w].pv] =
                  @ \cup ToSet(stream[w].rest) \cup ToSet(stream[w].chunk)]
  /\ stream' = [stream EXCEPT ![w] = Stream(stream[w].pv, <<>>, <<>>, <<>>)]
  /\ Goto(w, "loop")
  /\ UNCHANGED <<control, times, shared, lastSeen, window, mark, completions>>

\* During shutdown it rethrows, and runWorker() ends.
FetchCancelled(w) ==
  /\ Here(w, "fetch") /\ ~fetching
  /\ Goto(w, "exit")
  /\ UNCHANGED <<control, times, shared, local, output>>

-----------------------------------------------------------------------------
(* stopWorkers(), called by the destructor                                 *)

StopStore ==
  /\ stopper = "idle"
  /\ fetching' = FALSE /\ stopper' = "notify"
  /\ UNCHANGED <<conf, times, shared, fpc, local, output>>

\* Both condition variables are notified without their mutex.
StopNotify ==
  /\ stopper = "notify"
  /\ stopper' = "join"
  /\ fpc' = Notified
  /\ UNCHANGED <<conf, fetching, times, shared, local, output>>

StopJoin ==
  /\ stopper = "join" /\ \A w \in Threads : fpc[w] = "done"
  /\ stopper' = "returned"
  /\ UNCHANGED <<conf, fetching, times, shared, fpc, local, output>>

WorkerStep(w) ==
  \/ Top(w) \/ Populate(w) \/ Signal(w) \/ Test(w) \/ Park(w) \/ ReadWindow(w)
  \/ Pop(w) \/ LeaveLoop(w) \/ Sleep(w) \/ Leave(w)
  \/ Parse(w) \/ FinalizeChunk(w) \/ EndFetch(w) \/ FetchFails(w) \/ FetchCancelled(w)

ArchiverNext == StopStore \/ StopNotify \/ StopJoin \/ \E w \in Threads : WorkerStep(w)

ArchiverSpec == ArchiverInit /\ [][ArchiverNext]_archiverVars

-----------------------------------------------------------------------------
(* Properties                                                              *)

\* Nothing of the current round is left to do: the queue is empty and every
\* thread is between two rounds or has finished.
RoundOver ==
  /\ fetching /\ pvQueue = <<>>
  /\ \A w \in Threads :
       fpc[w] \in IF w = 0 THEN {"sleep", "done"}
                  ELSE {"top", "test", "park", "blocked", "done"}

Settled == RoundOver \/ completions > 0

\* Once a round is over, or completion is reported, every sample the windows
\* asked for has been pushed, unless its stream broke: consecutive windows
\* leave no gap in any PV (the window handed from the coordinator to the
\* fetch threads in runWorker).
WindowsCovered ==
  Settled => \A pv \in PVs : due \ broken[pv] \subseteq ToSet(published[pv])

\* Delivery is exact: nothing due is missing, the samples of a PV arrive once
\* and in time order although consecutive windows share a sample, nothing
\* else is pushed, and completion is reported at most once, after the last
\* pending batch (runWorker, parsePbHttpLineIntoState, signalCompleted).
ArchiveExact ==
  /\ WindowsCovered
  /\ \A pv \in PVs :
       /\ \A i, j \in DOMAIN published[pv] : i < j => published[pv][i] < published[pv][j]
       /\ ToSet(published[pv]) \subseteq due
  /\ completions <= 1
=============================================================================
