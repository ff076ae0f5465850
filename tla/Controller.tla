----------------------------- MODULE Controller -----------------------------
(***************************************************************************)
(* MLDPPVXSController: the event bus between readers, processors and       *)
(* writers, and the lifecycle around it.  Threads: the one inside start()  *)
(* and later stop() (main), one per reader, one per processor, the         *)
(* consumer, the fan-out pool, a detached thread per reader completion,    *)
(* and the signal handler that calls forceStop().                          *)
(*                                                                         *)
(* A wait on queue_not_full_ or queue_not_empty_ is three steps (test,     *)
(* block, wake): running_ is an atomic that is stored without queue_mutex_.*)
(***************************************************************************)
EXTENDS Integers, Sequences, FiniteSets, SequencesExt

CONSTANTS
  ReaderOrder,     \* the configured readers, in configuration order
  OneShot,         \* readers that call signalCompleted() when their work is done
  Processors,      \* channel processors: they push from their own pool thread
  Writers,         \* writer instances
  Accepts,         \* route table: the writers that take a producer's batches
  RoutesNameAll,   \* the configured routes name every reader
  QueueCapacity,   \* config_.queueCapacity()
  AllowForce,      \* a second signal may call forceStop()
  MaxBatches       \* bound: batches a producer pushes in one behaviour

Readers == {ReaderOrder[i] : i \in 1 .. Len(ReaderOrder)}
Producers == Readers \cup Processors
Batches == Producers \X (1 .. MaxBatches)

ASSUME ControllerAssumption ==
  /\ ReaderOrder \in Seq(Readers) /\ Len(ReaderOrder) > 0
  /\ \A i, j \in 1 .. Len(ReaderOrder) : ReaderOrder[i] = ReaderOrder[j] => i = j
  /\ OneShot \subseteq Readers
  /\ Readers \cap Processors = {}
  /\ Accepts \in [Producers -> SUBSET Writers]
  /\ QueueCapacity \in Nat \ {0}
  /\ MaxBatches \in Nat
  /\ RoutesNameAll \in BOOLEAN /\ AllowForce \in BOOLEAN

VARIABLES
  ppc,         \* control point of each producer thread
  nextBatch,   \* batches the producer has taken up so far
  queue,       \* queue_
  accepted,    \* history: batches push() put into queue_
  cpc,         \* control point of consumer_thread_
  local,       \* consumerLoop()'s local deque, from the batch being dispatched on
  flight,      \* dispatchToWriters() is running for the first batch of local
  todo,        \* writers whose future is not ready yet
  delivered,   \* history: batches handed to each writer's push(), in order
  readers,     \* readers_
  observed,    \* readers whose lifecycle_ is set
  completed,   \* readers whose completed_ is set
  reaping,     \* detached threads of onReaderCompleted() yet to call removeCompletedReader()
  closers,     \* those among them that found no reader left and go on to stop()
  early,       \* history: what the shutdown did before start() was through
  running,     \* running_
  forceQuit,   \* force_quit_
  startPc,     \* control point of start()
  nextReader,  \* index of the loop over readerEntries()
  stopPc,      \* control point of the one stop() that won stopping_.exchange(true)
  mainPc,      \* main's own call of stop()
  forcePc,     \* control point of forceStop()
  writersUp,   \* writers_ holds started writers
  autoClosed   \* history: a reader's completion called stop()

busVars == <<ppc, nextBatch, queue, accepted>>
consumerVars == <<cpc, local, flight, todo, delivered>>
readerVars == <<readers, observed, completed, reaping, closers, early>>
lifeVars == <<running, forceQuit, startPc, nextReader, stopPc, mainPc, forcePc, writersUp,
              autoClosed>>
vars == <<busVars, consumerVars, readerVars, lifeVars>>

ProducerPoints == {"none", "idle", "test", "blocking", "asleep", "completing", "exited"}
ConsumerPoints == {"none", "test", "blocking", "asleep", "dispatch", "exited"}

BusTypes ==
  /\ ppc \in [Producers -> ProducerPoints]
  /\ nextBatch \in [Producers -> 0 .. MaxBatches]
  /\ queue \in Seq(Batches)
  /\ accepted \subseteq Batches

ConsumerTypes ==
  /\ cpc \in ConsumerPoints
  /\ local \in Seq(Batches)
  /\ flight \in BOOLEAN
  /\ todo \subseteq Writers
  /\ delivered \in [Writers -> Seq(Batches)]

ReaderTypes ==
  /\ readers \subseteq Readers
  /\ observed \subseteq Readers
  /\ completed \subseteq OneShot
  /\ reaping \in [Readers -> 0 .. 2]
  /\ closers \subseteq Readers
  /\ early \subseteq {"emptied", "stopped"}

LifeTypes ==
  /\ running \in BOOLEAN
  /\ forceQuit \in BOOLEAN
  /\ startPc \in {"idle", "create", "register", "observe", "recheck", "consumer",
                  "started", "failed"}
  /\ nextReader \in 1 .. Len(ReaderOrder) + 1
  /\ stopPc \in {"none", "begin", "clear", "joining", "notify", "join", "processors",
                 "writers", "done"}
  /\ mainPc \in {"idle", "called", "returned"}
  /\ forcePc \in {"none", "running", "clear", "done"}
  /\ writersUp \in BOOLEAN
  /\ autoClosed \in BOOLEAN

TypeOK == BusTypes /\ ConsumerTypes /\ ReaderTypes /\ LifeTypes

Init ==
  /\ ppc = [p \in Producers |-> "none"]
  /\ nextBatch = [p \in Producers |-> 0]
  /\ queue = <<>>
  /\ accepted = {}
  /\ cpc = "none"
  /\ local = <<>>
  /\ flight = FALSE
  /\ todo = {}
  /\ delivered = [w \in Writers |-> <<>>]
  /\ readers = {}
  /\ observed = {}
  /\ completed = {}
  /\ reaping = [r \in Readers |-> 0]
  /\ closers = {}
  /\ early = {}
  /\ running = FALSE
  /\ forceQuit = FALSE
  /\ startPc = "idle"
  /\ nextReader = 1
  /\ stopPc = "none"
  /\ mainPc = "idle"
  /\ forcePc = "none"
  /\ writersUp = FALSE
  /\ autoClosed = FALSE

-----------------------------------------------------------------------------
(* push() *)

QueueMutexFree == cpc # "blocking" /\ \A p \in Producers : ppc[p] # "blocking"

\* notify_all on queue_not_full_ and notify on queue_not_empty_.
ProducersWoken == [p \in Producers |-> IF ppc[p] = "asleep" THEN "test" ELSE ppc[p]]
ConsumerWoken == IF cpc = "asleep" THEN "test" ELSE cpc

\* push() returns false at once: not running, or a batch without source or frames.
PushRejected(p) ==
  /\ ppc[p] = "idle"
  /\ nextBatch[p] < MaxBatches
  /\ nextBatch' = [nextBatch EXCEPT ![p] = @ + 1]
  /\ UNCHANGED <<ppc, queue, accepted, consumerVars, readerVars, lifeVars>>

\* push() of a good batch on a running bus, up to the point where it needs queue_mutex_.
PushBegin(p) ==
  /\ ppc[p] = "idle"
  /\ running
  /\ nextBatch[p] < MaxBatches
  /\ ppc' = [ppc EXCEPT ![p] = "test"]
  /\ nextBatch' = [nextBatch EXCEPT ![p] = @ + 1]
  /\ UNCHANGED <<queue, accepted, consumerVars, readerVars, lifeVars>>

\* Defect: running_ is not tested again after the wait.
PushTestNoRecheck(p) ==
  /\ ppc[p] = "test"
  /\ QueueMutexFree
  /\ \/ /\ ~running \/ Len(queue) < QueueCapacity
        /\ queue' = Append(queue, <<p, nextBatch[p]>>)
        /\ accepted' = accepted \cup {<<p, nextBatch[p]>>}
        /\ cpc' = ConsumerWoken
        /\ ppc' = [ppc EXCEPT ![p] = "idle"]
     \/ /\ running /\ Len(queue) >= QueueCapacity
        /\ ppc' = [ppc EXCEPT ![p] = "blocking"]
        /\ UNCHANGED <<queue, accepted, cpc>>
  /\ UNCHANGED <<nextBatch, local, flight, todo, delivered, readerVars, lifeVars>>

\* Under queue_mutex_: give up on a stopped bus, append and notify, or wait for room.
PushTest(p) ==
  /\ ppc[p] = "test"
  /\ QueueMutexFree
  /\ \/ /\ ~running
        /\ ppc' = [ppc EXCEPT ![p] = "idle"]
        /\ UNCHANGED <<queue, accepted, cpc>>
     \/ /\ running /\ Len(queue) < QueueCapacity
        /\ queue' = Append(queue, <<p, nextBatch[p]>>)
        /\ accepted' = accepted \cup {<<p, nextBatch[p]>>}
        /\ cpc' = ConsumerWoken
        /\ ppc' = [ppc EXCEPT ![p] = "idle"]
     \/ /\ running /\ Len(queue) >= QueueCapacity
        /\ ppc' = [ppc EXCEPT ![p] = "blocking"]
        /\ UNCHANGED <<queue, accepted, cpc>>
  /\ UNCHANGED <<nextBatch, local, flight, todo, delivered, readerVars, lifeVars>>

\* Join queue_not_full_'s wait set and release the mutex.
PushBlock(p) ==
  /\ ppc[p] = "blocking"
  /\ ppc' = [ppc EXCEPT ![p] = "asleep"]
  /\ UNCHANGED <<nextBatch, queue, accepted, consumerVars, readerVars, lifeVars>>

PushSpuriousWakeup(p) ==
  /\ ppc[p] = "asleep"
  /\ ppc' = [ppc EXCEPT ![p] = "test"]
  /\ UNCHANGED <<nextBatch, queue, accepted, consumerVars, readerVars, lifeVars>>

-----------------------------------------------------------------------------
(* consumerLoop() and dispatchToWriters() *)

\* Defect: the consumer leaves as soon as running_ is false.
ConsumerTestNoDrain ==
  /\ cpc = "test"
  /\ QueueMutexFree
  /\ \/ /\ ~running
        /\ cpc' = "exited"
        /\ UNCHANGED <<ppc, queue, local>>
     \/ /\ running /\ queue # <<>>
        /\ local' = queue
        /\ queue' = <<>>
        /\ ppc' = ProducersWoken
        /\ cpc' = "dispatch"
     \/ /\ queue = <<>> /\ running
        /\ cpc' = "blocking"
        /\ UNCHANGED <<ppc, queue, local>>
  /\ UNCHANGED <<nextBatch, accepted, flight, todo, delivered, readerVars, lifeVars>>

\* Defect: the producers that wait for room are not notified.
ConsumerTestSilent ==
  /\ cpc = "test"
  /\ QueueMutexFree
  /\ \/ /\ queue = <<>> /\ ~running
        /\ cpc' = "exited"
        /\ UNCHANGED <<queue, local>>
     \/ /\ queue # <<>>
        /\ local' = queue
        /\ queue' = <<>>
        /\ cpc' = "dispatch"
     \/ /\ queue = <<>> /\ running
        /\ cpc' = "blocking"
        /\ UNCHANGED <<queue, local>>
  /\ UNCHANGED <<ppc, nextBatch, accepted, flight, todo, delivered, readerVars, lifeVars>>

\* Under queue_mutex_: leave, swap out the whole queue and wake the producers, or wait.
ConsumerTest ==
  /\ cpc = "test"
  /\ QueueMutexFree
  /\ \/ /\ queue = <<>> /\ ~running
        /\ cpc' = "exited"
        /\ UNCHANGED <<ppc, queue, local>>
     \/ /\ queue # <<>>
        /\ local' = queue
        /\ queue' = <<>>
        /\ ppc' = ProducersWoken
        /\ cpc' = "dispatch"
     \/ /\ queue = <<>> /\ running
        /\ cpc' = "blocking"
        /\ UNCHANGED <<ppc, queue, local>>
  /\ UNCHANGED <<nextBatch, accepted, flight, todo, delivered, readerVars, lifeVars>>

ConsumerBlock ==
  /\ cpc = "blocking"
  /\ cpc' = "asleep"
  /\ UNCHANGED <<busVars, local, flight, todo, delivered, readerVars, lifeVars>>

ConsumerSpuriousWakeup ==
  /\ cpc = "asleep"
  /\ cpc' = "test"
  /\ UNCHANGED <<busVars, local, flight, todo, delivered, readerVars, lifeVars>>

\* dispatchToWriters(): one task per writer in writers_ that the route table selects.
DispatchBegin ==
  /\ cpc = "dispatch"
  /\ local # <<>> /\ ~flight /\ ~forceQuit
  /\ flight' = TRUE
  /\ todo' = IF writersUp THEN Accepts[Head(local)[1]] ELSE {}
  /\ UNCHANGED <<busVars, cpc, local, delivered, readerVars, lifeVars>>

\* A pool thread: the writer's push() takes the batch, or refuses it.
WriterPush(w) ==
  /\ w \in todo
  /\ todo' = todo \ {w}
  /\ delivered' = [delivered EXCEPT ![w] = Append(@, Head(local))]
  /\ UNCHANGED <<busVars, cpc, local, flight, readerVars, lifeVars>>

\* Defect: the futures are not waited for.
DispatchEndNoWait ==
  /\ flight
  /\ flight' = FALSE
  /\ todo' = {}
  /\ local' = Tail(local)
  /\ UNCHANGED <<busVars, cpc, delivered, readerVars, lifeVars>>

\* Defect: the batch stays at the front of the deque.
DispatchEndKeeps ==
  /\ flight /\ todo = {}
  /\ flight' = FALSE
  /\ UNCHANGED <<busVars, cpc, local, todo, delivered, readerVars, lifeVars>>

\* Every future of the batch is ready: the consumer goes on to the next batch.
DispatchEnd ==
  /\ flight /\ todo = {}
  /\ flight' = FALSE
  /\ local' = Tail(local)
  /\ UNCHANGED <<busVars, cpc, todo, delivered, readerVars, lifeVars>>

\* Defect: an ordinary stop abandons the drain.
DispatchDoneNotRunning ==
  /\ cpc = "dispatch" /\ ~flight
  /\ local = <<>> \/ ~running
  /\ local' = <<>>
  /\ cpc' = "test"
  /\ UNCHANGED <<busVars, flight, todo, delivered, readerVars, lifeVars>>

\* The local deque is dispatched, or force_quit_ abandons the rest of it.
DispatchDone ==
  /\ cpc = "dispatch" /\ ~flight
  /\ local = <<>> \/ forceQuit
  /\ local' = <<>>
  /\ cpc' = "test"
  /\ UNCHANGED <<busVars, flight, todo, delivered, readerVars, lifeVars>>

-----------------------------------------------------------------------------
(* start() and the completion of readers *)

\* Queryables, enrichers, writers and processors, before any reader exists.
StartWriters ==
  /\ startPc = "idle"
  /\ running' = TRUE
  /\ writersUp' = TRUE
  /\ ppc' = [p \in Producers |-> IF p \in Processors THEN "idle" ELSE "none"]
  /\ startPc' = "create"
  /\ UNCHANGED <<nextBatch, queue, accepted, consumerVars, readerVars, forceQuit, nextReader,
                 stopPc, mainPc, forcePc, autoClosed>>

\* A writer, a processor or a reader cannot be created, and start() throws.
StartFails ==
  /\ \/ startPc = "idle" /\ running' = TRUE /\ writersUp' = TRUE
     \/ /\ startPc = "create" /\ nextReader <= Len(ReaderOrder)
        /\ UNCHANGED <<running, writersUp>>
  /\ startPc' = "failed"
  /\ UNCHANGED <<busVars, consumerVars, readerVars, forceQuit, nextReader, stopPc, mainPc, forcePc,
                 autoClosed>>

\* ReaderFactory::create: the constructor starts the reader's thread.
StartReader ==
  /\ startPc = "create"
  /\ nextReader <= Len(ReaderOrder)
  /\ ppc' = [ppc EXCEPT ![ReaderOrder[nextReader]] = "idle"]
  /\ startPc' = "register"
  /\ UNCHANGED <<nextBatch, queue, accepted, consumerVars, readerVars, running, forceQuit,
                 nextReader, stopPc, mainPc, forcePc, writersUp, autoClosed>>

ReadersMutexFree == stopPc # "joining"

RegisterReader ==
  /\ startPc = "register"
  /\ ReadersMutexFree
  /\ readers' = readers \cup {ReaderOrder[nextReader]}
  /\ startPc' = "observe"
  /\ UNCHANGED <<busVars, consumerVars, observed, completed, reaping, closers, early, running,
                 forceQuit, nextReader, stopPc, mainPc, forcePc, writersUp, autoClosed>>

\* setLifecycleObserver(): store lifecycle_ ...
ObserveReader ==
  /\ startPc = "observe"
  /\ observed' = observed \cup {ReaderOrder[nextReader]}
  /\ startPc' = "recheck"
  /\ UNCHANGED <<busVars, consumerVars, readers, completed, reaping, closers, early, running,
                 forceQuit, nextReader, stopPc, mainPc, forcePc, writersUp, autoClosed>>

\* onReaderCompleted(): a detached thread, unless the controller is not running.
Reap(r) == reaping' = [reaping EXCEPT ![r] = IF running THEN @ + 1 ELSE @]

\* Defect: a completion that came before the observer is forgotten.
RecheckReaderNot ==
  /\ startPc = "recheck"
  /\ nextReader' = nextReader + 1
  /\ startPc' = "create"
  /\ UNCHANGED <<busVars, consumerVars, readerVars, running, forceQuit, stopPc, mainPc, forcePc,
                 writersUp, autoClosed>>

\* ... and repeat a completion that was signalled before.
RecheckReader ==
  LET r == ReaderOrder[nextReader]
  IN  /\ startPc = "recheck"
      /\ IF r \in completed THEN Reap(r) ELSE UNCHANGED reaping
      /\ nextReader' = nextReader + 1
      /\ startPc' = "create"
      /\ UNCHANGED <<busVars, consumerVars, readers, observed, completed, closers, early, running,
                     forceQuit, stopPc, mainPc, forcePc, writersUp, autoClosed>>

\* RouteTable::build throws when a route names a reader that is not in readers_.
BuildRoutes ==
  /\ startPc = "create"
  /\ nextReader > Len(ReaderOrder)
  /\ startPc' = IF RoutesNameAll /\ readers # Readers THEN "failed" ELSE "consumer"
  /\ UNCHANGED <<busVars, consumerVars, readerVars, running, forceQuit, nextReader, stopPc,
                 mainPc, forcePc, writersUp, autoClosed>>

StartConsumer ==
  /\ startPc = "consumer"
  /\ cpc' = "test"
  /\ startPc' = "started"
  /\ UNCHANGED <<busVars, local, flight, todo, delivered, readerVars, running, forceQuit,
                 nextReader, stopPc, mainPc, forcePc, writersUp, autoClosed>>

\* signalCompleted(): store completed_ ...
SignalCompleted(r) ==
  /\ r \in OneShot
  /\ ppc[r] = "idle"
  /\ nextBatch[r] = MaxBatches
  /\ completed' = completed \cup {r}
  /\ ppc' = [ppc EXCEPT ![r] = "completing"]
  /\ UNCHANGED <<nextBatch, queue, accepted, consumerVars, readers, observed, reaping, closers,
                 early, lifeVars>>

\* ... and tell the observer, if there is one yet.  The reader's thread ends.
NotifyObserver(r) ==
  /\ ppc[r] = "completing"
  /\ IF r \in observed THEN Reap(r) ELSE UNCHANGED reaping
  /\ ppc' = [ppc EXCEPT ![r] = "exited"]
  /\ UNCHANGED <<nextBatch, queue, accepted, consumerVars, readers, observed, completed, closers,
                 early, lifeVars>>

\* The readers start() has put into readers_ so far, by their place in the configuration.
Registered(i) == i < nextReader \/ (i = nextReader /\ startPc \in {"observe", "recheck"})

\* What becomes known of a shutdown when readers_ is emptied, or stop() is called.
EmptiedNow ==
  IF \A i \in 1 .. Len(ReaderOrder) : Registered(i) THEN early ELSE early \cup {"emptied"}
StoppedNow == IF startPc = "started" THEN early ELSE early \cup {"stopped"}

\* Defect: readers_ is tested before the reader is erased.
RemoveCompletedReaderEarlyTest(r) ==
  /\ reaping[r] > 0
  /\ ReadersMutexFree
  /\ r \in readers => ppc[r] = "exited"
  /\ reaping' = [reaping EXCEPT ![r] = @ - 1]
  /\ readers' = readers \ {r}
  /\ closers' = IF r \in readers /\ readers = {} THEN closers \cup {r} ELSE closers
  /\ UNCHANGED <<busVars, consumerVars, observed, completed, early, lifeVars>>

\* Defect: every completion reports that it was the last.
RemoveCompletedReaderAlwaysLast(r) ==
  /\ reaping[r] > 0
  /\ ReadersMutexFree
  /\ r \in readers => ppc[r] = "exited"
  /\ reaping' = [reaping EXCEPT ![r] = @ - 1]
  /\ readers' = readers \ {r}
  /\ closers' = closers \cup {r}
  /\ early' = IF readers' = {} THEN EmptiedNow ELSE early
  /\ UNCHANGED <<busVars, consumerVars, observed, completed, lifeVars>>

\* removeCompletedReader() on the detached thread; erasing the reader joins its thread.
RemoveCompletedReader(r) ==
  /\ reaping[r] > 0
  /\ ReadersMutexFree
  /\ r \in readers => ppc[r] = "exited"
  /\ reaping' = [reaping EXCEPT ![r] = @ - 1]
  /\ readers' = readers \ {r}
  /\ IF r \in readers /\ readers' = {}
     THEN closers' = closers \cup {r} /\ early' = EmptiedNow
     ELSE UNCHANGED <<closers, early>>
  /\ UNCHANGED <<busVars, consumerVars, observed, completed, lifeVars>>

\* The detached thread that emptied readers_ calls stop() if the controller still runs.
CloseAfterLast(r) ==
  /\ r \in closers
  /\ closers' = closers \ {r}
  /\ IF running /\ stopPc = "none"
     THEN stopPc' = "begin" /\ autoClosed' = TRUE /\ early' = StoppedNow
     ELSE UNCHANGED <<stopPc, autoClosed, early>>
  /\ UNCHANGED <<busVars, consumerVars, readers, observed, completed, reaping, running, forceQuit,
                 startPc, nextReader, mainPc, forcePc, writersUp>>

-----------------------------------------------------------------------------
(* stop() *)

\* main leaves its loop and calls stop(); or start() has thrown, and the destructor does if
\* no reader and no processor still holds a reference to the bus.
MainStop ==
  /\ mainPc = "idle"
  /\ \/ startPc = "started"
     \/ startPc = "failed" /\ readers = {} /\ \A p \in Processors : ppc[p] = "none"
  /\ mainPc' = "called"
  /\ IF stopPc = "none"
     THEN stopPc' = "begin" /\ early' = StoppedNow
     ELSE UNCHANGED <<stopPc, early>>
  /\ UNCHANGED <<busVars, consumerVars, readers, observed, completed, reaping, closers, running,
                 forceQuit, startPc, nextReader, forcePc, writersUp, autoClosed>>

\* main's loop ends when it sees the controller stopped.
MainSeesStopped == stopPc = "done" /\ MainStop

\* The call returns when it has stopped the controller, or sees stopped_.
MainReturn ==
  /\ mainPc = "called"
  /\ stopPc = "done"
  /\ mainPc' = "returned"
  /\ UNCHANGED <<busVars, consumerVars, readerVars, running, forceQuit, startPc, nextReader,
                 stopPc, forcePc, writersUp, autoClosed>>

StopRunning ==
  /\ stopPc = "begin"
  /\ running' = FALSE
  /\ stopPc' = "clear"
  /\ UNCHANGED <<busVars, consumerVars, readerVars, forceQuit, startPc, nextReader, mainPc,
                 forcePc, writersUp, autoClosed>>

\* readers_.clear() destroys the readers in order, holding readers_mutex_ throughout.
StopClear ==
  /\ stopPc = "clear"
  /\ stopPc' = "joining"
  /\ UNCHANGED <<busVars, consumerVars, readerVars, running, forceQuit, startPc, nextReader, mainPc,
                 forcePc, writersUp, autoClosed>>

\* The reader being destroyed: the first of readers_, by stop() or with the controller.
Destroying(r) ==
  /\ stopPc = "joining" \/ mainPc = "returned"
  /\ r \in readers
  /\ \A i, j \in 1 .. Len(ReaderOrder) : ReaderOrder[i] = r /\ ReaderOrder[j] \in readers => i <= j

\* The destructor has told the thread to stop, and its loop sees it between two pushes.
ReaderExit(r) ==
  /\ Destroying(r)
  /\ ppc[r] = "idle"
  /\ ppc' = [ppc EXCEPT ![r] = "exited"]
  /\ UNCHANGED <<nextBatch, queue, accepted, consumerVars, readerVars, lifeVars>>

StopJoinReader(r) ==
  /\ Destroying(r)
  /\ ppc[r] = "exited"
  /\ readers' = readers \ {r}
  /\ UNCHANGED <<busVars, consumerVars, observed, completed, reaping, closers, early, lifeVars>>

StopCleared ==
  /\ stopPc = "joining"
  /\ readers = {}
  /\ stopPc' = "notify"
  /\ UNCHANGED <<busVars, consumerVars, readerVars, running, forceQuit, startPc, nextReader, mainPc,
                 forcePc, writersUp, autoClosed>>

\* Defect: the condition variables are notified without having held queue_mutex_.
StopNotifyNoHandshake ==
  /\ stopPc = "notify"
  /\ ppc' = ProducersWoken
  /\ cpc' = ConsumerWoken
  /\ stopPc' = "join"
  /\ UNCHANGED <<nextBatch, queue, accepted, local, flight, todo, delivered, readerVars, running,
                 forceQuit, startPc, nextReader, mainPc, forcePc, writersUp, autoClosed>>

\* Lock and unlock queue_mutex_, then notify both condition variables.
StopNotify ==
  /\ stopPc = "notify"
  /\ QueueMutexFree
  /\ ppc' = ProducersWoken
  /\ cpc' = ConsumerWoken
  /\ stopPc' = "join"
  /\ UNCHANGED <<nextBatch, queue, accepted, local, flight, todo, delivered, readerVars, running,
                 forceQuit, startPc, nextReader, mainPc, forcePc, writersUp, autoClosed>>

\* Defect: stop() does not wait for the consumer.
StopJoinNoWait ==
  /\ stopPc = "join"
  /\ stopPc' = "processors"
  /\ UNCHANGED <<busVars, consumerVars, readerVars, running, forceQuit, startPc, nextReader, mainPc,
                 forcePc, writersUp, autoClosed>>

\* Join the consumer if the thread exists.
StopJoin ==
  /\ stopPc = "join"
  /\ cpc \in {"none", "exited"}
  /\ stopPc' = "processors"
  /\ UNCHANGED <<busVars, consumerVars, readerVars, running, forceQuit, startPc, nextReader, mainPc,
                 forcePc, writersUp, autoClosed>>

\* Each processor's stop() waits for its pending task.
StopProcessors ==
  /\ stopPc = "processors"
  /\ \A p \in Processors : ppc[p] \in {"idle", "none"}
  /\ ppc' = [p \in Producers |-> IF p \in Processors THEN "exited" ELSE ppc[p]]
  /\ stopPc' = "writers"
  /\ UNCHANGED <<nextBatch, queue, accepted, consumerVars, readerVars, running, forceQuit, startPc,
                 nextReader, mainPc, forcePc, writersUp, autoClosed>>

\* Each writer's stop() drains its own queue; writers_.clear(); stopped_ = true.
StopWriters ==
  /\ stopPc = "writers"
  /\ writersUp' = FALSE
  /\ stopPc' = "done"
  /\ UNCHANGED <<busVars, consumerVars, readerVars, running, forceQuit, startPc, nextReader, mainPc,
                 forcePc, autoClosed>>

-----------------------------------------------------------------------------
(* forceStop(), called by the handler of the second signal *)

ForceBegin ==
  /\ AllowForce
  /\ forcePc = "none"
  /\ startPc # "idle"
  /\ forceQuit' = TRUE
  /\ forcePc' = "running"
  /\ UNCHANGED <<busVars, consumerVars, readerVars, running, startPc, nextReader, stopPc, mainPc,
                 writersUp, autoClosed>>

ForceRunning ==
  /\ forcePc = "running"
  /\ running' = FALSE
  /\ forcePc' = "clear"
  /\ UNCHANGED <<busVars, consumerVars, readerVars, forceQuit, startPc, nextReader, stopPc, mainPc,
                 writersUp, autoClosed>>

\* Clear queue_ under queue_mutex_, notify both condition variables, force the writers.
ForceClear ==
  /\ forcePc = "clear"
  /\ QueueMutexFree
  /\ queue' = <<>>
  /\ ppc' = ProducersWoken
  /\ cpc' = ConsumerWoken
  /\ forcePc' = "done"
  /\ UNCHANGED <<nextBatch, accepted, local, flight, todo, delivered, readerVars, running, forceQuit,
                 startPc, nextReader, stopPc, mainPc, writersUp, autoClosed>>

-----------------------------------------------------------------------------
ProducerStep(p) == PushTest(p) \/ PushBlock(p)
ReaderStep(r) == NotifyObserver(r) \/ ReaderExit(r)
ReaperStep(r) == RemoveCompletedReader(r) \/ CloseAfterLast(r)
ConsumerStep ==
  \/ ConsumerTest \/ ConsumerBlock \/ DispatchBegin \/ DispatchEnd \/ DispatchDone
StartStep ==
  \/ StartWriters \/ StartReader \/ RegisterReader \/ ObserveReader \/ RecheckReader
  \/ StartFails \/ BuildRoutes \/ StartConsumer
StopStep ==
  \/ StopRunning \/ StopClear \/ StopCleared \/ StopNotify \/ StopJoin \/ StopProcessors
  \/ StopWriters \/ \E r \in Readers : StopJoinReader(r)
ForceStep == ForceRunning \/ ForceClear

\* main's stop() has returned, and so has everybody else; or start() threw and main exits.
Terminated ==
  /\ \/ mainPc = "returned" /\ \A p \in Producers : ppc[p] \in {"none", "exited"}
     \/ startPc = "failed"
  /\ UNCHANGED vars

Next ==
  \/ \E p \in Producers :
       PushRejected(p) \/ PushBegin(p) \/ ProducerStep(p) \/ PushSpuriousWakeup(p)
  \/ \E r \in Readers : SignalCompleted(r) \/ ReaderStep(r) \/ ReaperStep(r)
  \/ \E w \in Writers : WriterPush(w)
  \/ ConsumerStep \/ ConsumerSpuriousWakeup
  \/ StartStep \/ MainStop \/ MainReturn \/ StopStep \/ ForceBegin \/ ForceStep
  \/ Terminated

(***************************************************************************)
(* Every thread runs on once it has something to do, writers answer, and   *)
(* main polls isStopped().  A queue_mutex_ that others keep taking is      *)
(* obtained in the end by a thread in push() or consumerLoop(); stop() and *)
(* forceStop() need it when nobody waits with it any more.  Nobody has to  *)
(* push, to complete, to stop or to force.                                 *)
(***************************************************************************)
Fairness ==
  /\ \A p \in Producers : SF_vars(ProducerStep(p))
  /\ \A r \in Readers : WF_vars(ReaderStep(r)) /\ WF_vars(ReaperStep(r))
  /\ \A w \in Writers : WF_vars(WriterPush(w))
  /\ SF_vars(ConsumerStep)
  /\ WF_vars(StartStep) /\ WF_vars(StopStep) /\ WF_vars(ForceStep)
  /\ WF_vars(MainSeesStopped) /\ WF_vars(MainReturn)

Spec == Init /\ [][Next]_vars
FairSpec == Spec /\ Fairness

-----------------------------------------------------------------------------
\* The bus the controller implements: what it has not dispatched yet is local, then queue_.
Bus == INSTANCE EventBus WITH
  pending <- local \o queue,
  forced <- forceQuit,
  Bound <- 2 * QueueCapacity

\* The controller is the event bus its producers and writers count on.
ImplementsBus == Bus!Spec

\* No stop() began before start() had returned.
Unhurried == "stopped" \notin early

\* A batch that push() accepted is on its way, or every selected writer was given it,
\* unless the stop was forced.
NoBatchLost ==
  \A b \in accepted :
    \/ b \in ToSet(local) \cup ToSet(queue)
    \/ \A w \in Accepts[b[1]] : b \in ToSet(delivered[w])
    \/ forceQuit

\* Every batch that push() ever accepted has been handed to its writers.
Drained == \A b \in accepted : \A w \in Accepts[b[1]] : b \in ToSet(delivered[w])

\* When stop() has returned, the ordered shutdown has drained the bus before it stopped the
\* writers, unless it was forced or began before start() had returned.
StopDrainsBus == stopPc = "done" /\ ~forceQuit /\ Unhurried => Drained

\* No writer is stopped while the consumer may still hand it a batch.
WritersOutliveConsumer == ~writersUp => cpc \in {"none", "exited"}

\* A writer sees each producer's batches in the order they were pushed, none twice.
DeliveryOrder ==
  \A w \in Writers : \A i, j \in 1 .. Len(delivered[w]) :
    i < j /\ delivered[w][i][1] = delivered[w][j][1] => delivered[w][i][2] < delivered[w][j][2]

\* queue_ never exceeds its capacity, nor does the deque swapped out of it.
BusBound == Len(queue) <= QueueCapacity /\ Len(local) <= QueueCapacity

\* Once forceStop() has cleared the queue nothing enters it any more.
ForcedQueueStaysEmpty == forcePc = "done" => queue = <<>>

\* The controller closes by itself only when every configured reader has completed, unless a
\* completion emptied readers_ while start() had readers yet to put into it.
AutoCloseOnlyWhenAllComplete == autoClosed /\ "emptied" \notin early => completed = Readers

\* Claimed of the automatic close: all readers have signalled their completion when it
\* triggers, and it drains what they pushed.  Weaker than either claim, this says that a close
\* keeps at least one of the two.
AutoCloseKeepsAPromise ==
  autoClosed /\ stopPc = "done" /\ ~forceQuit => completed = Readers \/ Drained

\* Nobody waits for a controller whose start() threw, because main ends the process; and a
\* stop() that overtakes start() can wait for ever for readers nobody consumes from.
Abandoned == startPc = "failed" \/ ~Unhurried

\* A stop() that has begun returns.
StopReturns == stopPc # "none" ~> stopPc = "done" \/ Abandoned

\* A producer that waits in push() for room, or for the mutex to look for it, gets on with it.
PushReturns ==
  \A p \in Producers :
    ppc[p] \in {"test", "asleep"} ~> ppc[p] \notin {"test", "asleep"} \/ Abandoned

\* When all readers have completed the controller stops itself.
AutoCloses == completed = Readers /\ ~forceQuit ~> stopPc = "done" \/ forceQuit

\* A completion is never missed, however it races the registration of the observer: the
\* reader is removed, unless a forced stop has taken the controller down first.
CompletionNoticed ==
  \A r \in Readers : r \in completed ~> r \notin readers \/ forceQuit \/ Abandoned
=============================================================================
