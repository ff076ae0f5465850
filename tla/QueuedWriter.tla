---------------------------- MODULE QueuedWriter ----------------------------
(***************************************************************************)
(* BaseQueuedWriter<Item>: the bounded queue every writer of the driver    *)
(* inherits.  push() converts a batch to items, waits for room under       *)
(* backpressureMutex_, appends each item to one worker channel and only    *)
(* then counts it; workerLoop() pops, un-counts, notifies and processes;   *)
(* stop() drains, forceStop() abandons.                                    *)
(*                                                                         *)
(* A condition variable wait is three steps (test the predicate, block,    *)
(* wake), because the threads that change queuedItems_, running_ and       *)
(* forceQuit_ and notify backpressureCv_ never take backpressureMutex_.    *)
(***************************************************************************)
EXTENDS Integers, Sequences, FiniteSets

CONSTANTS
  Pushers,         \* threads that call push()
  NumWorkers,      \* worker_count: worker threads, one channel each
  QueueCapacity,   \* queue_capacity
  CounterModulus,  \* queuedItems_ is a size_t: it wraps modulo 2^64
  RouteOf,         \* channel that itemRoutingKey() pins a pusher's items to
  TimedPush,       \* push_timeout_ms > 0
  QuiescentStop,   \* the owner calls stop() only when no push() is in progress
  AllowForce,      \* forceStop() may be called
  MaxItems,        \* bound: items a pusher converts in one behaviour
  NoItem           \* a worker's local item{} before anything is moved into it

Channels == 0 .. NumWorkers - 1
RoundRobin == -1            \* empty routing key
Items == Pushers \X (1 .. MaxItems)

ASSUME QueuedWriterAssumption ==
  /\ IsFiniteSet(Pushers) /\ Pushers # {}
  /\ NumWorkers \in Nat \ {0}
  /\ QueueCapacity \in Nat \ {0}
  /\ CounterModulus \in Nat
  /\ CounterModulus > QueueCapacity + Cardinality(Pushers) + NumWorkers
  /\ RouteOf \in [Pushers -> Channels \cup {RoundRobin}]
  /\ TimedPush \in BOOLEAN /\ QuiescentStop \in BOOLEAN /\ AllowForce \in BOOLEAN
  /\ MaxItems \in Nat
  /\ NoItem \notin Items

VARIABLES
  ppc,          \* control point of each pusher inside push()
  nextItem,     \* items of the pusher taken up so far by the loop over toItems()
  lastItem,     \* last item of the batch being pushed
  enqueued,     \* push()'s local of that name
  refused,      \* some push() of this thread returned false
  chan,         \* channels_[i]->items
  shutdown,     \* channels whose shutdown flag is set
  nextChannel,  \* nextChannel_ % channels_.size()
  queuedItems,  \* queuedItems_
  running,      \* running_
  forceQuit,    \* forceQuit_
  wpc,          \* control point of each worker inside workerLoop()
  held,         \* the worker's local item
  stopPc,       \* control point of stop()
  forcePc,      \* control point of forceStop()
  accepted,     \* history: items appended to a channel
  processed     \* history: items processItem() has returned for

pushVars == <<ppc, nextItem, lastItem, enqueued, refused>>
workVars == <<wpc, held, processed>>
lifeVars == <<running, forceQuit, stopPc, forcePc, shutdown>>
vars == <<pushVars, chan, nextChannel, queuedItems, accepted, workVars, lifeVars>>

PusherPoints == {"idle", "test", "blocking", "asleep", "admitted", "enqueue", "count"}
WorkerPoints == {"test", "blocking", "asleep", "popped", "counted", "processing", "exited"}

TypeOK ==
  /\ ppc \in [Pushers -> PusherPoints]
  /\ nextItem \in [Pushers -> 0 .. MaxItems]
  /\ lastItem \in [Pushers -> 0 .. MaxItems]
  /\ enqueued \in [Pushers -> BOOLEAN]
  /\ refused \in [Pushers -> BOOLEAN]
  /\ chan \in [Channels -> Seq(Items)]
  /\ shutdown \subseteq Channels
  /\ nextChannel \in Channels
  /\ queuedItems \in 0 .. CounterModulus - 1
  /\ running \in BOOLEAN
  /\ forceQuit \in BOOLEAN
  /\ wpc \in [Channels -> WorkerPoints]
  /\ held \in [Channels -> Items \cup {NoItem}]
  /\ stopPc \in {"none", "notify", "channels", "done"}
  /\ forcePc \in {"none", "notify", "done"}
  /\ accepted \subseteq Items
  /\ processed \subseteq Items

-----------------------------------------------------------------------------
\* The state start() leaves behind: every worker about to look at its channel.
Init ==
  /\ ppc = [p \in Pushers |-> "idle"]
  /\ nextItem = [p \in Pushers |-> 0]
  /\ lastItem = [p \in Pushers |-> 0]
  /\ enqueued = [p \in Pushers |-> FALSE]
  /\ refused = [p \in Pushers |-> FALSE]
  /\ chan = [c \in Channels |-> <<>>]
  /\ shutdown = {}
  /\ nextChannel = 0
  /\ queuedItems = 0
  /\ running = TRUE
  /\ forceQuit = FALSE
  /\ wpc = [c \in Channels |-> "test"]
  /\ held = [c \in Channels |-> NoItem]
  /\ stopPc = "none"
  /\ forcePc = "none"
  /\ accepted = {}
  /\ processed = {}

-----------------------------------------------------------------------------
\* push(): the pusher inside the critical section of backpressureMutex_.
BackpressureMutexFree == \A q \in Pushers : ppc[q] \notin {"blocking", "admitted"}

\* The predicate of backpressureCv_.wait and wait_for.
MayProceed == queuedItems < QueueCapacity \/ ~running \/ forceQuit

\* Leave push() with the given result; items not taken up yet are dropped.
Return(p, ok) ==
  /\ ppc' = [ppc EXCEPT ![p] = "idle"]
  /\ nextItem' = [nextItem EXCEPT ![p] = lastItem[p]]
  /\ refused' = IF ok THEN refused ELSE [refused EXCEPT ![p] = TRUE]
  /\ UNCHANGED <<lastItem, enqueued>>

\* push() on a stopped writer, or one whose enricher or toItems() throws.
PushRejected(p) ==
  /\ ppc[p] = "idle"
  /\ nextItem[p] < MaxItems
  /\ nextItem' = [nextItem EXCEPT ![p] = @ + 1]
  /\ lastItem' = [lastItem EXCEPT ![p] = nextItem[p] + 1]
  /\ refused' = [refused EXCEPT ![p] = TRUE]
  /\ UNCHANGED <<ppc, enqueued, chan, nextChannel, queuedItems, accepted, workVars, lifeVars>>

\* push() on a running writer; the enrichers keep the batch and toItems() gives n items.
PushBegin(p, n) ==
  /\ ppc[p] = "idle"
  /\ running
  /\ nextItem[p] + n <= MaxItems
  /\ ppc' = [ppc EXCEPT ![p] = "test"]
  /\ lastItem' = [lastItem EXCEPT ![p] = nextItem[p] + n]
  /\ enqueued' = [enqueued EXCEPT ![p] = FALSE]
  /\ UNCHANGED <<nextItem, refused, chan, nextChannel, queuedItems, accepted, workVars, lifeVars>>

\* Take backpressureMutex_ and test the predicate of the wait.
PushTest(p) ==
  /\ ppc[p] = "test"
  /\ BackpressureMutexFree
  /\ ppc' = [ppc EXCEPT ![p] = IF MayProceed THEN "admitted" ELSE "blocking"]
  /\ UNCHANGED <<nextItem, lastItem, enqueued, refused, chan, nextChannel, queuedItems,
                 accepted, workVars, lifeVars>>

\* Join backpressureCv_'s wait set and release the mutex.
PushBlock(p) ==
  /\ ppc[p] = "blocking"
  /\ ppc' = [ppc EXCEPT ![p] = "asleep"]
  /\ UNCHANGED <<nextItem, lastItem, enqueued, refused, chan, nextChannel, queuedItems,
                 accepted, workVars, lifeVars>>

\* A wakeup nobody asked for, which a condition variable may always produce.
PushSpuriousWakeup(p) ==
  /\ ppc[p] = "asleep"
  /\ ppc' = [ppc EXCEPT ![p] = "test"]
  /\ UNCHANGED <<nextItem, lastItem, enqueued, refused, chan, nextChannel, queuedItems,
                 accepted, workVars, lifeVars>>

\* Defect: a timed-out push() reports the items enqueued before the timeout as success.
PushTimeoutReturnsEnqueued(p) ==
  /\ TimedPush
  /\ ppc[p] = "asleep"
  /\ BackpressureMutexFree
  /\ \/ /\ MayProceed
        /\ ppc' = [ppc EXCEPT ![p] = "admitted"]
        /\ UNCHANGED <<nextItem, lastItem, enqueued, refused>>
     \/ ~MayProceed /\ Return(p, enqueued[p])
  /\ UNCHANGED <<chan, nextChannel, queuedItems, accepted, workVars, lifeVars>>

\* Defect: push_timeout_ms is not passed to the wait.
PushTimeoutIgnored(p) == p \notin Pushers /\ UNCHANGED vars

\* wait_for reaches its deadline: it tests the predicate once more, and push() gives up.
PushTimeout(p) ==
  /\ TimedPush
  /\ ppc[p] = "asleep"
  /\ BackpressureMutexFree
  /\ \/ /\ MayProceed
        /\ ppc' = [ppc EXCEPT ![p] = "admitted"]
        /\ UNCHANGED <<nextItem, lastItem, enqueued, refused>>
     \/ ~MayProceed /\ Return(p, FALSE)
  /\ UNCHANGED <<chan, nextChannel, queuedItems, accepted, workVars, lifeVars>>

\* After the wait: stop or force quit ends the call, otherwise leave the mutex.
PushRecheck(p) ==
  /\ ppc[p] = "admitted"
  /\ \/ /\ ~running \/ forceQuit
        /\ Return(p, enqueued[p])
     \/ /\ running /\ ~forceQuit
        /\ ppc' = [ppc EXCEPT ![p] = "enqueue"]
        /\ UNCHANGED <<nextItem, lastItem, enqueued, refused>>
  /\ UNCHANGED <<chan, nextChannel, queuedItems, accepted, workVars, lifeVars>>

\* Defect: the routing key is not consulted.
TargetChannelRoundRobin(p) == IF p \in Pushers THEN nextChannel ELSE 0

\* itemRoutingKey() pins the item to a channel, otherwise the channels take turns.
TargetChannel(p) == IF RouteOf[p] = RoundRobin THEN nextChannel ELSE RouteOf[p]

\* notify_one on a channel's cv: only its own worker ever waits there.
Woken(c) == [wpc EXCEPT ![c] = IF @ = "asleep" THEN "test" ELSE @]

\* Defect: the worker is not notified.
PushEnqueueSilent(p) ==
  LET c == TargetChannel(p)
      item == <<p, nextItem[p] + 1>>
  IN  /\ ppc[p] = "enqueue"
      /\ stopPc # "done"
      /\ wpc[c] # "blocking"
      /\ chan' = [chan EXCEPT ![c] = Append(@, item)]
      /\ nextChannel' = (nextChannel + 1) % NumWorkers
      /\ accepted' = accepted \cup {item}
      /\ nextItem' = [nextItem EXCEPT ![p] = @ + 1]
      /\ ppc' = [ppc EXCEPT ![p] = "count"]
      /\ UNCHANGED <<lastItem, enqueued, refused, queuedItems, wpc, held, processed, lifeVars>>

\* Choose the channel, append under its mutex, notify its worker.  Once stop() has cleared
\* channels_ this is a division by zero that ends the process: no step is left to take.
PushEnqueue(p) ==
  LET c == TargetChannel(p)
      item == <<p, nextItem[p] + 1>>
  IN  /\ ppc[p] = "enqueue"
      /\ stopPc # "done"
      /\ wpc[c] # "blocking"
      /\ chan' = [chan EXCEPT ![c] = Append(@, item)]
      /\ nextChannel' = IF RouteOf[p] = RoundRobin
                        THEN (nextChannel + 1) % NumWorkers ELSE nextChannel
      /\ wpc' = Woken(c)
      /\ accepted' = accepted \cup {item}
      /\ nextItem' = [nextItem EXCEPT ![p] = @ + 1]
      /\ ppc' = [ppc EXCEPT ![p] = "count"]
      /\ UNCHANGED <<lastItem, enqueued, refused, queuedItems, held, processed, lifeVars>>

\* Defect: one increment per batch, not per item.
PushCountBatch(p) ==
  /\ ppc[p] = "count"
  /\ queuedItems' = IF nextItem[p] = lastItem[p] THEN queuedItems + 1 ELSE queuedItems
  /\ enqueued' = [enqueued EXCEPT ![p] = TRUE]
  /\ ppc' = [ppc EXCEPT ![p] = IF nextItem[p] = lastItem[p] THEN "idle" ELSE "test"]
  /\ UNCHANGED <<nextItem, lastItem, refused, chan, nextChannel, accepted, workVars, lifeVars>>

\* queuedItems_.fetch_add(1), after the item is already visible to its worker.
PushCount(p) ==
  /\ ppc[p] = "count"
  /\ queuedItems' = IF queuedItems = CounterModulus - 1 THEN 0 ELSE queuedItems + 1
  /\ enqueued' = [enqueued EXCEPT ![p] = TRUE]
  /\ ppc' = [ppc EXCEPT ![p] = IF nextItem[p] = lastItem[p] THEN "idle" ELSE "test"]
  /\ UNCHANGED <<nextItem, lastItem, refused, chan, nextChannel, accepted, workVars, lifeVars>>

-----------------------------------------------------------------------------
\* Defect: the worker leaves on shutdown without looking at its deque.
WorkerTestNoDrain(w) ==
  /\ wpc[w] = "test"
  /\ \/ /\ forceQuit \/ w \in shutdown
        /\ wpc' = [wpc EXCEPT ![w] = "exited"]
        /\ UNCHANGED <<chan, held>>
     \/ /\ ~forceQuit /\ w \notin shutdown /\ chan[w] # <<>>
        /\ held' = [held EXCEPT ![w] = Head(chan[w])]
        /\ chan' = [chan EXCEPT ![w] = Tail(@)]
        /\ wpc' = [wpc EXCEPT ![w] = "popped"]
     \/ /\ ~forceQuit /\ chan[w] = <<>> /\ w \notin shutdown
        /\ wpc' = [wpc EXCEPT ![w] = "blocking"]
        /\ UNCHANGED <<chan, held>>
  /\ UNCHANGED <<pushVars, nextChannel, queuedItems, accepted, processed, lifeVars>>

\* Defect: the item is taken off the deque before forceQuit_ is tested.
WorkerTestPopsFirst(w) ==
  /\ wpc[w] = "test"
  /\ chan' = [chan EXCEPT ![w] = IF @ = <<>> THEN @ ELSE Tail(@)]
  /\ \/ /\ forceQuit \/ (w \in shutdown /\ chan[w] = <<>>)
        /\ wpc' = [wpc EXCEPT ![w] = "exited"]
        /\ UNCHANGED held
     \/ /\ ~forceQuit /\ chan[w] # <<>>
        /\ held' = [held EXCEPT ![w] = Head(chan[w])]
        /\ wpc' = [wpc EXCEPT ![w] = "popped"]
     \/ /\ ~forceQuit /\ chan[w] = <<>> /\ w \notin shutdown
        /\ wpc' = [wpc EXCEPT ![w] = "blocking"]
        /\ UNCHANGED held
  /\ UNCHANGED <<pushVars, nextChannel, queuedItems, accepted, processed, lifeVars>>

\* Defect: the front item is copied out and never popped.
WorkerTestCopies(w) ==
  /\ wpc[w] = "test"
  /\ \/ /\ forceQuit \/ (w \in shutdown /\ chan[w] = <<>>)
        /\ wpc' = [wpc EXCEPT ![w] = "exited"]
        /\ UNCHANGED held
     \/ /\ ~forceQuit /\ chan[w] # <<>>
        /\ held' = [held EXCEPT ![w] = Head(chan[w])]
        /\ wpc' = [wpc EXCEPT ![w] = "popped"]
     \/ /\ ~forceQuit /\ chan[w] = <<>> /\ w \notin shutdown
        /\ wpc' = [wpc EXCEPT ![w] = "blocking"]
        /\ UNCHANGED held
  /\ UNCHANGED <<pushVars, chan, nextChannel, queuedItems, accepted, processed, lifeVars>>

\* workerLoop(w): under the channel mutex, leave, take the front item, or wait.
WorkerTest(w) ==
  /\ wpc[w] = "test"
  /\ \/ /\ forceQuit \/ (w \in shutdown /\ chan[w] = <<>>)
        /\ wpc' = [wpc EXCEPT ![w] = "exited"]
        /\ UNCHANGED <<chan, held>>
     \/ /\ ~forceQuit /\ chan[w] # <<>>
        /\ held' = [held EXCEPT ![w] = Head(chan[w])]
        /\ chan' = [chan EXCEPT ![w] = Tail(@)]
        /\ wpc' = [wpc EXCEPT ![w] = "popped"]
     \/ /\ ~forceQuit /\ chan[w] = <<>> /\ w \notin shutdown
        /\ wpc' = [wpc EXCEPT ![w] = "blocking"]
        /\ UNCHANGED <<chan, held>>
  /\ UNCHANGED <<pushVars, nextChannel, queuedItems, accepted, processed, lifeVars>>

\* Join the channel's wait set and release its mutex.
WorkerBlock(w) ==
  /\ wpc[w] = "blocking"
  /\ wpc' = [wpc EXCEPT ![w] = "asleep"]
  /\ UNCHANGED <<pushVars, chan, nextChannel, queuedItems, accepted, held, processed, lifeVars>>

\* idle_check_ms elapses (onWorkerIdle() runs and the loop continues), or a spurious wakeup.
WorkerIdle(w) ==
  /\ wpc[w] = "asleep"
  /\ wpc' = [wpc EXCEPT ![w] = "test"]
  /\ UNCHANGED <<pushVars, chan, nextChannel, queuedItems, accepted, held, processed, lifeVars>>

\* queuedItems_.fetch_sub(1), outside every mutex.
WorkerUncount(w) ==
  /\ wpc[w] = "popped"
  /\ queuedItems' = IF queuedItems = 0 THEN CounterModulus - 1 ELSE queuedItems - 1
  /\ wpc' = [wpc EXCEPT ![w] = "counted"]
  /\ UNCHANGED <<pushVars, chan, nextChannel, accepted, held, processed, lifeVars>>

\* backpressureCv_.notify_one(): wakes one pusher that is already asleep, if any.
WorkerNotify(w) ==
  /\ wpc[w] = "counted"
  /\ wpc' = [wpc EXCEPT ![w] = "processing"]
  /\ \/ \E p \in Pushers : ppc[p] = "asleep" /\ ppc' = [ppc EXCEPT ![p] = "test"]
     \/ (\A p \in Pushers : ppc[p] # "asleep") /\ UNCHANGED ppc
  /\ UNCHANGED <<nextItem, lastItem, enqueued, refused, chan, nextChannel, queuedItems,
                 accepted, held, processed, lifeVars>>

\* processItem() returns or throws; the loop catches everything.
WorkerProcess(w) ==
  /\ wpc[w] = "processing"
  /\ processed' = processed \cup {held[w]}
  /\ held' = [held EXCEPT ![w] = NoItem]
  /\ wpc' = [wpc EXCEPT ![w] = "test"]
  /\ UNCHANGED <<pushVars, chan, nextChannel, queuedItems, accepted, lifeVars>>

-----------------------------------------------------------------------------
\* What notify_all on backpressureCv_ does to the pushers.
AllPushersWoken == [p \in Pushers |-> IF ppc[p] = "asleep" THEN "test" ELSE ppc[p]]

\* stop(): running_ = false.  A second stop() sees running_ false and returns.
StopBegin ==
  /\ running
  /\ QuiescentStop => \A p \in Pushers : ppc[p] = "idle"
  /\ running' = FALSE
  /\ stopPc' = "notify"
  /\ UNCHANGED <<pushVars, chan, nextChannel, queuedItems, accepted, workVars, forceQuit,
                 forcePc, shutdown>>

\* stop(): backpressureCv_.notify_all().
StopNotify ==
  /\ stopPc = "notify"
  /\ ppc' = AllPushersWoken
  /\ stopPc' = "channels"
  /\ UNCHANGED <<nextItem, lastItem, enqueued, refused, chan, nextChannel, queuedItems, accepted,
                 workVars, running, forceQuit, forcePc, shutdown>>

\* Defect: the worker of the channel is not notified.
StopChannelSilent(c) ==
  /\ stopPc = "channels"
  /\ c \notin shutdown
  /\ \A d \in Channels : d < c => d \in shutdown
  /\ wpc[c] # "blocking"
  /\ shutdown' = shutdown \cup {c}
  /\ UNCHANGED <<pushVars, chan, nextChannel, queuedItems, accepted, workVars, running,
                 forceQuit, stopPc, forcePc>>

\* stop(): set a channel's shutdown flag under its mutex and notify its worker, in index order.
StopChannel(c) ==
  /\ stopPc = "channels"
  /\ c \notin shutdown
  /\ \A d \in Channels : d < c => d \in shutdown
  /\ wpc[c] # "blocking"
  /\ shutdown' = shutdown \cup {c}
  /\ wpc' = Woken(c)
  /\ UNCHANGED <<pushVars, chan, nextChannel, queuedItems, accepted, held, processed, running,
                 forceQuit, stopPc, forcePc>>

\* stop(): the pool's tasks have all returned; channels_.clear(), doStop().
StopJoin ==
  /\ stopPc = "channels"
  /\ shutdown = Channels
  /\ \A c \in Channels : wpc[c] = "exited"
  /\ chan' = [c \in Channels |-> <<>>]
  /\ stopPc' = "done"
  /\ UNCHANGED <<pushVars, nextChannel, queuedItems, accepted, workVars, running, forceQuit,
                 forcePc, shutdown>>

\* forceStop(): forceQuit_ = true.
ForceBegin ==
  /\ AllowForce
  /\ forcePc = "none"
  /\ forceQuit' = TRUE
  /\ forcePc' = "notify"
  /\ UNCHANGED <<pushVars, chan, nextChannel, queuedItems, accepted, workVars, running, stopPc,
                 shutdown>>

\* forceStop(): notify backpressureCv_ and every channel, none of them under its mutex.
ForceNotify ==
  /\ forcePc = "notify"
  /\ ppc' = AllPushersWoken
  /\ wpc' = [c \in Channels |-> IF wpc[c] = "asleep" THEN "test" ELSE wpc[c]]
  /\ forcePc' = "done"
  /\ UNCHANGED <<nextItem, lastItem, enqueued, refused, chan, nextChannel, queuedItems, accepted,
                 held, processed, running, forceQuit, stopPc, shutdown>>

-----------------------------------------------------------------------------
PusherStep(p) ==
  \/ PushTest(p) \/ PushBlock(p) \/ PushRecheck(p) \/ PushEnqueue(p) \/ PushCount(p)
  \/ PushTimeout(p)

PushNeedsMutex(p) == PushTest(p) \/ PushEnqueue(p) \/ PushTimeout(p)

WorkerStep(w) ==
  WorkerTest(w) \/ WorkerBlock(w) \/ WorkerUncount(w) \/ WorkerNotify(w) \/ WorkerProcess(w)

StopStep == StopNotify \/ StopJoin \/ \E c \in Channels : StopChannel(c)

\* Every call has returned and every thread that can exit has exited.
Finished ==
  /\ \A p \in Pushers : ppc[p] = "idle" /\ nextItem[p] = MaxItems
  /\ stopPc = "done"
  /\ UNCHANGED vars

Next ==
  \/ \E p \in Pushers :
       \/ PushRejected(p) \/ PushSpuriousWakeup(p) \/ PusherStep(p)
       \/ \E n \in 1 .. MaxItems : PushBegin(p, n)
  \/ \E w \in Channels : WorkerStep(w) \/ WorkerIdle(w)
  \/ StopBegin \/ StopStep \/ ForceBegin \/ ForceNotify
  \/ Finished

(***************************************************************************)
(* Every thread that has begun a call runs on: pushers, workers, the       *)
(* thread inside stop() and the one inside forceStop().  Nobody is obliged *)
(* to begin a push, a stop or a forceStop, and no wakeup is fair but the   *)
(* ones the code asks for.  A thread that waits for a mutex others keep    *)
(* taking and releasing gets it in the end (strong fairness).              *)
(***************************************************************************)
Fairness ==
  /\ \A p \in Pushers : WF_vars(PusherStep(p)) /\ SF_vars(PushNeedsMutex(p))
  /\ \A w \in Channels : WF_vars(WorkerStep(w))
  /\ WF_vars(StopStep) /\ SF_vars(\E c \in Channels : StopChannel(c))
  /\ WF_vars(ForceNotify)

Spec == Init /\ [][Next]_vars
FairSpec == Spec /\ Fairness

-----------------------------------------------------------------------------
\* Items waiting in some channel deque.
InChannel(i) == \E c \in Channels : \E k \in 1 .. Len(chan[c]) : chan[c][k] = i
Queued == {i \in accepted : InChannel(i)}
\* Items popped but still counted, pushers whose item is queued but not yet counted.
Popped == {w \in Channels : wpc[w] = "popped"}
Counting == {p \in Pushers : ppc[p] = "count"}
Net == Cardinality(Queued) + Cardinality(Popped) - Cardinality(Counting)
InHand(i) == \E w \in Channels : held[w] = i

\* No item push() has appended goes missing: it waits in a channel, is in a worker's
\* hands or is processed.  The only exit is forceStop() followed by channels_.clear().
NoItemLost ==
  \A i \in accepted : \/ i \in processed \/ InHand(i) \/ InChannel(i)
                      \/ stopPc = "done" /\ forceQuit

\* No item is worked on twice: it has one position in one channel, or one worker, or is
\* processed, and these exclude each other.
NoItemDuplicated ==
  /\ \A c, d \in Channels : \A j \in 1 .. Len(chan[c]), k \in 1 .. Len(chan[d]) :
       chan[c][j] = chan[d][k] => c = d /\ j = k
  /\ \A w, v \in Channels : held[w] # NoItem /\ held[w] = held[v] => w = v
  /\ \A w \in Channels : held[w] # NoItem => ~InChannel(held[w]) /\ held[w] \notin processed
  /\ \A i \in processed : ~InChannel(i)

\* When stop() has returned and nobody forced it, the workers have processed every
\* item any push() appended: the drain that the stop sequence promises.
StopDrains == stopPc = "done" /\ ~forceQuit => accepted \subseteq processed

\* queuedItems_ is the number of queued items, plus the items popped but not yet
\* un-counted, minus the items appended but not yet counted, modulo the counter's width
\* (until stop() clears the channels: only start() resets the counter).
CounterAccounts ==
  stopPc # "done" => queuedItems = IF Net < 0 THEN Net + CounterModulus ELSE Net

\* push() tests the counter and appends in different critical sections, so each
\* pusher beyond the first may overshoot queue_capacity by one item, and no more.
\* With one pusher, which is how the controller calls a writer, the bound is exact.
QueueBound == Cardinality(Queued) <= QueueCapacity + Cardinality(Pushers) - 1

\* Items of one routing key are worked on in the order they were pushed: when a
\* worker holds or has processed an item, the earlier accepted ones are processed.
KeyOrder ==
  \A p \in Pushers : RouteOf[p] # RoundRobin =>
    \A m, n \in 1 .. MaxItems :
      /\ m < n
      /\ <<p, m>> \in accepted
      /\ <<p, n>> \in processed \/ InHand(<<p, n>>)
      => <<p, m>> \in processed

\* An item that the loop of push() passed over without appending it was reported:
\* some push() of that thread returned false, or the writer is being stopped.
NoSilentDrop ==
  \A p \in Pushers : \A n \in 1 .. nextItem[p] :
    <<p, n>> \notin accepted => refused[p] \/ ~running \/ forceQuit

\* Every push() returns.
PushReturns == \A p \in Pushers : ppc[p] # "idle" ~> ppc[p] = "idle"

\* A stop() that has begun returns: its workers all leave their loops.
StopReturns == stopPc # "none" ~> stopPc = "done"

\* Every item appended to a channel is processed, unless forceStop() abandons it.
ItemsReachWorkers == \A i \in Items : i \in accepted ~> i \in processed \/ forceQuit
=============================================================================
