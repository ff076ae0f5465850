-------------------------- MODULE ControllerProofs --------------------------
(***************************************************************************)
(* Theorems about Controller, for every list of readers, every set of      *)
(* processors and writers, every route table and every capacity:           *)
(*   - type correctness and the bounds of the bus;                         *)
(*   - every step of the controller is a step of EventBus or a stutter;    *)
(*   - the order of the shutdown, and when the controller closes itself.   *)
(***************************************************************************)
EXTENDS Controller, TLAPS

ReaderIndices == 1 .. Len(ReaderOrder)

\* start() takes the readers one by one; the ones it has not created have no thread.
StartInv ==
  /\ startPc = "idle" => nextReader = 1
  /\ startPc \in {"register", "observe", "recheck"} => nextReader <= Len(ReaderOrder)
  /\ \A i \in ReaderIndices :
       i > nextReader \/ (i = nextReader /\ startPc \in {"idle", "create"})
         => ppc[ReaderOrder[i]] = "none"

\* At most two detached threads per reader: one from its own signalCompleted(), one from
\* setLifecycleObserver().
ReapInv ==
  \A i \in ReaderIndices :
    /\ ppc[ReaderOrder[i]] # "exited" \/ i >= nextReader => reaping[ReaderOrder[i]] <= 1
    /\ ppc[ReaderOrder[i]] # "exited" /\ i >= nextReader => reaping[ReaderOrder[i]] = 0

\* A batch is in flight only while the consumer walks its local deque.
FlightInv ==
  /\ flight => cpc = "dispatch" /\ local # <<>>
  /\ ~flight => todo = {}
  /\ cpc # "dispatch" => local = <<>>

\* A producer inside push() holds a batch it has numbered.
NumberInv ==
  \A p \in Producers : ppc[p] \in {"test", "blocking", "asleep"} => nextBatch[p] >= 1

\* The consumer thread is the last thing start() creates.
ConsumerInv == startPc # "started" => cpc = "none"

TypeInv == TypeOK /\ StartInv /\ ReapInv /\ FlightInv /\ NumberInv /\ ConsumerInv

-----------------------------------------------------------------------------
(* Facts about the constants *)

\* What the proofs use of the list of readers: it has a length and no reader twice.
LEMMA ReaderList ==
  /\ Len(ReaderOrder) \in Nat \ {0}
  /\ ReaderIndices \subseteq Nat
  /\ \A i \in ReaderIndices : ReaderOrder[i] \in Readers /\ ReaderOrder[i] \notin Processors
  /\ \A i, j \in ReaderIndices : ReaderOrder[i] = ReaderOrder[j] => i = j
  /\ \A r \in Readers : \E i \in ReaderIndices : r = ReaderOrder[i]
  /\ Readers \subseteq Producers /\ Processors \subseteq Producers
  /\ Readers \cap Processors = {}
  BY ControllerAssumption DEF ReaderIndices, Readers, Producers

\* What they use of the other constants.
LEMMA ConstantTypes ==
  /\ OneShot \subseteq Readers
  /\ \A p \in Producers : Accepts[p] \subseteq Writers
  /\ QueueCapacity \in Nat \ {0}
  /\ MaxBatches \in Nat
  BY ControllerAssumption

\* Waking the waiting threads moves the sleepers to their test and nobody else.
LEMMA WakeTypes ==
  ASSUME BusTypes, ConsumerTypes
  PROVE  /\ ProducersWoken \in [Producers -> ProducerPoints]
         /\ \A p \in Producers : \/ ProducersWoken[p] = ppc[p]
                                 \/ (ppc[p] = "asleep" /\ ProducersWoken[p] = "test")
         /\ ConsumerWoken \in ConsumerPoints
         /\ ConsumerWoken = cpc \/ (cpc = "asleep" /\ ConsumerWoken = "test")
<1>1. /\ ConsumerWoken \in ConsumerPoints
      /\ ConsumerWoken = cpc \/ (cpc = "asleep" /\ ConsumerWoken = "test")
  BY DEF ConsumerTypes, ConsumerPoints, ConsumerWoken
<1>2. /\ ProducersWoken \in [Producers -> ProducerPoints]
      /\ \A p \in Producers : \/ ProducersWoken[p] = ppc[p]
                              \/ (ppc[p] = "asleep" /\ ProducersWoken[p] = "test")
  BY DEF BusTypes, ProducerPoints, ProducersWoken
<1> QED
  BY <1>1, <1>2

\* The front of a non-empty deque is a batch, with the parts of a batch.
LEMMA HeadType ==
  ASSUME NEW s \in Seq(Batches), s # <<>>
  PROVE  Head(s) \in Batches /\ Head(s)[1] \in Producers /\ Tail(s) \in Seq(Batches)
<1>1. Head(s) \in Batches /\ Tail(s) \in Seq(Batches)
  OBVIOUS
<1> QED
  BY <1>1 DEF Batches

-----------------------------------------------------------------------------
(* Types *)

\* Initially nothing runs and everything is empty.
LEMMA TypeInvInit == Init => TypeInv
<1> USE ReaderList, ConstantTypes
<1>1. Init => TypeOK
  <2> SUFFICES ASSUME Init PROVE TypeOK
    OBVIOUS
  <2>1. BusTypes
    BY DEF Init, BusTypes, ProducerPoints
  <2>2. ConsumerTypes
    <3>1. flight \in BOOLEAN
      BY DEF Init
    <3> QED
      BY <3>1 DEF Init, ConsumerTypes, ConsumerPoints
  <2>3. ReaderTypes
    BY DEF Init, ReaderTypes
  <2>4. LifeTypes
    <3>1. /\ running \in BOOLEAN /\ forceQuit \in BOOLEAN
          /\ writersUp \in BOOLEAN /\ autoClosed \in BOOLEAN
      BY DEF Init
    <3> QED
      BY <3>1 DEF Init, LifeTypes
  <2> QED
    BY <2>1, <2>2, <2>3, <2>4 DEF TypeOK
<1>2. Init => StartInv /\ NumberInv
  BY DEF Init, StartInv, NumberInv
<1>3. Init => ReapInv
  BY DEF Init, ReapInv
<1>4. Init => FlightInv /\ ConsumerInv
  BY DEF Init, FlightInv, ConsumerInv
<1> QED
  BY <1>1, <1>2, <1>3, <1>4 DEF TypeInv

-----------------------------------------------------------------------------
(* Which steps touch which part of the state *)

\* The producers and queue_ change in these steps only.
LEMMA BusSteps ==
  ASSUME [Next]_vars
  PROVE  \/ UNCHANGED busVars
         \/ \E p \in Producers : PushRejected(p) \/ PushBegin(p) \/ PushTest(p) \/ PushBlock(p) \/ PushSpuriousWakeup(p)
         \/ \E r \in Readers : SignalCompleted(r) \/ NotifyObserver(r) \/ ReaderExit(r)
         \/ ConsumerTest \/ StartWriters \/ StartReader \/ StopNotify 
         \/ StopProcessors \/ ForceClear
  BY DEF Next, ProducerStep, ReaderStep, ReaperStep, ConsumerStep, StartStep, StopStep,
         ForceStep, Terminated, vars, busVars, consumerVars, readerVars, lifeVars,
         RemoveCompletedReader, CloseAfterLast, StopJoinReader, WriterPush, ConsumerBlock,
         DispatchBegin, DispatchEnd, DispatchDone, ConsumerSpuriousWakeup, RegisterReader,
         ObserveReader, RecheckReader, StartFails, BuildRoutes, StartConsumer, MainStop, MainReturn,
         StopRunning, StopClear, StopCleared, StopJoin, StopWriters, ForceBegin,
         ForceRunning

\* The consumer and the writers change in these steps only.
LEMMA ConsumerSteps ==
  ASSUME [Next]_vars
  PROVE  \/ UNCHANGED consumerVars
         \/ \E p \in Producers : PushTest(p)
         \/ \E w \in Writers : WriterPush(w)
         \/ ConsumerTest \/ ConsumerBlock \/ DispatchBegin \/ DispatchEnd 
         \/ DispatchDone \/ ConsumerSpuriousWakeup \/ StartConsumer \/ StopNotify
         \/ ForceClear
  BY DEF Next, ProducerStep, ReaderStep, ReaperStep, ConsumerStep, StartStep, StopStep,
         ForceStep, Terminated, vars, busVars, consumerVars, readerVars, lifeVars,
         PushRejected, PushBegin, PushBlock, PushSpuriousWakeup, SignalCompleted,
         NotifyObserver, ReaderExit, RemoveCompletedReader, CloseAfterLast, StopJoinReader,
         StartWriters, StartReader, RegisterReader, ObserveReader, RecheckReader,
         StartFails, BuildRoutes, MainStop, MainReturn, StopRunning, StopClear, StopCleared, StopJoin,
         StopProcessors, StopWriters, ForceBegin, ForceRunning

\* readers_ and the completions change in these steps only.
LEMMA ReaderSteps ==
  ASSUME [Next]_vars
  PROVE  \/ UNCHANGED readerVars
         \/ \E r \in Readers : SignalCompleted(r) \/ NotifyObserver(r) \/ RemoveCompletedReader(r) \/ CloseAfterLast(r) \/ StopJoinReader(r)
         \/ RegisterReader \/ ObserveReader \/ RecheckReader \/ MainStop
  BY DEF Next, ProducerStep, ReaderStep, ReaperStep, ConsumerStep, StartStep, StopStep,
         ForceStep, Terminated, vars, busVars, consumerVars, readerVars, lifeVars,
         PushRejected, PushBegin, PushTest, PushBlock, PushSpuriousWakeup, ReaderExit,
         WriterPush, ConsumerTest, ConsumerBlock, DispatchBegin, DispatchEnd, DispatchDone,
         ConsumerSpuriousWakeup, StartWriters, StartReader, StartFails, BuildRoutes, StartConsumer,
         MainReturn, StopRunning, StopClear, StopCleared, StopNotify, StopJoin,
         StopProcessors, StopWriters, ForceBegin, ForceRunning, ForceClear

\* The lifecycle changes in these steps only.
LEMMA LifeSteps ==
  ASSUME [Next]_vars
  PROVE  \/ UNCHANGED lifeVars
         \/ \E r \in Readers : CloseAfterLast(r)
         \/ StartWriters \/ StartReader \/ RegisterReader \/ ObserveReader 
         \/ RecheckReader \/ StartFails \/ BuildRoutes \/ StartConsumer \/ MainStop \/ MainReturn
         \/ StopRunning \/ StopClear \/ StopCleared \/ StopNotify \/ StopJoin 
         \/ StopProcessors \/ StopWriters \/ ForceBegin \/ ForceRunning 
         \/ ForceClear
  BY DEF Next, ProducerStep, ReaderStep, ReaperStep, ConsumerStep, StartStep, StopStep,
         ForceStep, Terminated, vars, busVars, consumerVars, readerVars, lifeVars,
         PushRejected, PushBegin, PushTest, PushBlock, PushSpuriousWakeup, SignalCompleted,
         NotifyObserver, ReaderExit, RemoveCompletedReader, StopJoinReader, WriterPush,
         ConsumerTest, ConsumerBlock, DispatchBegin, DispatchEnd, DispatchDone,
         ConsumerSpuriousWakeup

-----------------------------------------------------------------------------
(* Types: one lemma per part of the state *)

\* The batch a producer is about to append is a batch.
LEMMA NewBatchType ==
  ASSUME TypeInv, NEW p \in Producers, ppc[p] = "test"
  PROVE  <<p, nextBatch[p]>> \in Batches
<1>1. nextBatch[p] \in 0 .. MaxBatches /\ nextBatch[p] >= 1
  BY DEF TypeInv, TypeOK, BusTypes, NumberInv
<1>2. nextBatch[p] \in 1 .. MaxBatches
  BY <1>1, ConstantTypes
<1> QED
  BY <1>2 DEF Batches

\* Every step keeps the types of the producers and of queue_.
LEMMA BusTypesStep == TypeInv /\ [Next]_vars => BusTypes'
<1> SUFFICES ASSUME TypeInv, [Next]_vars PROVE BusTypes'
  OBVIOUS
<1>t. BusTypes /\ ConsumerTypes
  BY DEF TypeInv, TypeOK
<1>e. <<>> \in Seq(Batches)
  OBVIOUS
<1>0. CASE UNCHANGED busVars
  BY <1>t, <1>0 DEF BusTypes, busVars
<1>1. ASSUME NEW p \in Producers,
             PushRejected(p) \/ PushBegin(p) \/ PushBlock(p) \/ PushSpuriousWakeup(p)
      PROVE  BusTypes'
  <2>1. ppc' \in [Producers -> ProducerPoints] /\ UNCHANGED <<queue, accepted>>
    BY <1>t, <1>1
       DEF PushRejected, PushBegin, PushBlock, PushSpuriousWakeup, BusTypes, ProducerPoints
  <2>2. nextBatch' = nextBatch \/ (nextBatch[p] < MaxBatches
                                     /\ nextBatch' = [nextBatch EXCEPT ![p] = nextBatch[p] + 1])
    BY <1>1 DEF PushRejected, PushBegin, PushBlock, PushSpuriousWakeup
  <2>3. nextBatch' \in [Producers -> 0 .. MaxBatches]
    BY <1>t, <2>2, ConstantTypes DEF BusTypes
  <2> QED
    BY <1>t, <2>1, <2>3 DEF BusTypes
<1>2. ASSUME NEW p \in Producers, PushTest(p) PROVE BusTypes'
  <2>1. <<p, nextBatch[p]>> \in Batches
    BY <1>2, NewBatchType DEF PushTest
  <2>2. queue' \in Seq(Batches) /\ accepted' \subseteq Batches
    <3>1. \/ UNCHANGED <<queue, accepted>>
          \/ /\ queue' = Append(queue, <<p, nextBatch[p]>>)
             /\ accepted' = accepted \cup {<<p, nextBatch[p]>>}
      BY <1>2 DEF PushTest
    <3>2. queue \in Seq(Batches) /\ accepted \subseteq Batches
      BY <1>t DEF BusTypes
    <3>3. Append(queue, <<p, nextBatch[p]>>) \in Seq(Batches)
      BY <2>1, <3>2
    <3> QED
      BY <2>1, <3>1, <3>2, <3>3
  <2>3. ppc' \in [Producers -> ProducerPoints] /\ nextBatch' = nextBatch
    BY <1>t, <1>2 DEF PushTest, BusTypes, ProducerPoints
  <2> QED
    BY <1>t, <2>2, <2>3 DEF BusTypes
<1>3. ASSUME NEW r \in Readers, SignalCompleted(r) \/ NotifyObserver(r) \/ ReaderExit(r)
      PROVE  BusTypes'
  <2>1. \E q \in ProducerPoints : ppc' = [ppc EXCEPT ![r] = q]
    BY <1>3 DEF SignalCompleted, NotifyObserver, ReaderExit, ProducerPoints
  <2>2. UNCHANGED <<nextBatch, queue, accepted>>
    BY <1>3 DEF SignalCompleted, NotifyObserver, ReaderExit
  <2> QED
    BY <1>t, <2>1, <2>2 DEF BusTypes
<1>4. CASE ConsumerTest
  <2>1. queue' = queue \/ queue' = <<>>
    BY <1>4 DEF ConsumerTest
  <2>2. ppc' \in [Producers -> ProducerPoints] /\ UNCHANGED <<nextBatch, accepted>>
    BY <1>t, <1>4, WakeTypes DEF ConsumerTest, BusTypes
  <2> QED
    BY <1>t, <1>e, <2>1, <2>2 DEF BusTypes
<1>5. CASE StartWriters \/ StopProcessors
  BY <1>t, <1>5 DEF StartWriters, StopProcessors, BusTypes, ProducerPoints
<1>6. CASE StartReader
  <2>1. nextReader \in ReaderIndices
    BY <1>6, ReaderList DEF StartReader, TypeInv, TypeOK, LifeTypes, ReaderIndices
  <2>2. ReaderOrder[nextReader] \in Producers
    BY <2>1, ReaderList
  <2> QED
    BY <1>t, <1>6, <2>2 DEF StartReader, BusTypes, ProducerPoints
<1>7. CASE StopNotify \/ ForceClear
  <2>1. ppc' \in [Producers -> ProducerPoints] /\ UNCHANGED <<nextBatch, accepted>>
    BY <1>t, <1>7, WakeTypes DEF StopNotify, ForceClear
  <2>2. queue' = queue \/ queue' = <<>>
    BY <1>7 DEF StopNotify, ForceClear
  <2> QED
    BY <1>t, <1>e, <2>1, <2>2 DEF BusTypes
<1> QED
  BY <1>0, <1>1, <1>2, <1>3, <1>4, <1>5, <1>6, <1>7, BusSteps

\* Every step keeps the types of the consumer and of what the writers were given.
LEMMA ConsumerTypesStep == TypeInv /\ [Next]_vars => ConsumerTypes'
<1> SUFFICES ASSUME TypeInv, [Next]_vars PROVE ConsumerTypes'
  OBVIOUS
<1>t. BusTypes /\ ConsumerTypes
  BY DEF TypeInv, TypeOK
<1>0. CASE UNCHANGED consumerVars
  BY <1>t, <1>0 DEF ConsumerTypes, consumerVars
<1>1. ASSUME cpc' \in ConsumerPoints, UNCHANGED <<local, flight, todo, delivered>>
      PROVE  ConsumerTypes'
  BY <1>t, <1>1 DEF ConsumerTypes
<1>2. ASSUME NEW p \in Producers, PushTest(p) PROVE ConsumerTypes'
  <2>1. cpc' = cpc \/ cpc' = ConsumerWoken
    BY <1>2 DEF PushTest
  <2> QED
    BY <1>t, <1>1, <1>2, <2>1, WakeTypes DEF PushTest, ConsumerTypes
<1>3. ASSUME NEW w \in Writers, WriterPush(w) PROVE ConsumerTypes'
  <2>1. local # <<>> /\ local \in Seq(Batches)
    BY <1>t, <1>3 DEF WriterPush, TypeInv, FlightInv, ConsumerTypes
  <2>2. Head(local) \in Batches
    BY <2>1, HeadType
  <2>3. delivered' \in [Writers -> Seq(Batches)]
    <3>1. Append(delivered[w], Head(local)) \in Seq(Batches)
      BY <1>t, <2>2 DEF ConsumerTypes
    <3> QED
      BY <1>t, <1>3, <3>1 DEF WriterPush, ConsumerTypes
  <2> QED
    BY <1>t, <1>3, <2>3 DEF WriterPush, ConsumerTypes
<1>4. CASE ConsumerTest
  <2>1. local' \in Seq(Batches)
    BY <1>t, <1>4 DEF ConsumerTest, BusTypes, ConsumerTypes
  <2>2. cpc' \in ConsumerPoints /\ UNCHANGED <<flight, todo, delivered>>
    BY <1>4 DEF ConsumerTest, ConsumerPoints
  <2> QED
    BY <1>t, <2>1, <2>2 DEF ConsumerTypes
<1>5. CASE ConsumerBlock \/ ConsumerSpuriousWakeup \/ StartConsumer
  BY <1>1, <1>5 DEF ConsumerBlock, ConsumerSpuriousWakeup, StartConsumer, ConsumerPoints
<1>6. CASE DispatchBegin
  <2>1. local # <<>> /\ local \in Seq(Batches)
    BY <1>t, <1>6 DEF DispatchBegin, ConsumerTypes
  <2>2. Accepts[Head(local)[1]] \subseteq Writers
    BY <2>1, HeadType, ConstantTypes
  <2>3. todo' \subseteq Writers
    BY <1>6, <2>2 DEF DispatchBegin
  <2>4. flight' \in BOOLEAN /\ UNCHANGED <<cpc, local, delivered>>
    BY <1>6 DEF DispatchBegin
  <2> QED
    BY <1>t, <2>3, <2>4 DEF ConsumerTypes
<1>7. CASE DispatchEnd
  <2>1. local # <<>> /\ local \in Seq(Batches)
    BY <1>t, <1>7 DEF DispatchEnd, TypeInv, FlightInv, ConsumerTypes
  <2>2. local' \in Seq(Batches)
    BY <1>7, <2>1, HeadType DEF DispatchEnd
  <2>3. flight' \in BOOLEAN /\ UNCHANGED <<cpc, todo, delivered>>
    BY <1>7 DEF DispatchEnd
  <2> QED
    BY <1>t, <2>2, <2>3 DEF ConsumerTypes
<1>8. CASE DispatchDone
  <2>1. cpc' \in ConsumerPoints /\ local' \in Seq(Batches)
    BY <1>8 DEF DispatchDone, ConsumerPoints
  <2>2. UNCHANGED <<flight, todo, delivered>>
    BY <1>8 DEF DispatchDone
  <2> QED
    BY <1>t, <2>1, <2>2 DEF ConsumerTypes
<1>9. CASE StopNotify \/ ForceClear
  <2>1. cpc' \in ConsumerPoints
    BY <1>t, <1>9, WakeTypes DEF StopNotify, ForceClear
  <2> QED
    BY <1>1, <1>9, <2>1 DEF StopNotify, ForceClear
<1> QED
  BY <1>0, <1>2, <1>3, <1>4, <1>5, <1>6, <1>7, <1>8, <1>9, ConsumerSteps

\* The reader start() is working on is one of the configured readers.
LEMMA CurrentReader ==
  ASSUME TypeInv, startPc \in {"register", "observe", "recheck"}
  PROVE  nextReader \in ReaderIndices /\ ReaderOrder[nextReader] \in Readers
<1>1. nextReader \in ReaderIndices
  BY ReaderList DEF TypeInv, TypeOK, LifeTypes, StartInv, ReaderIndices
<1> QED
  BY <1>1, ReaderList

\* Every step keeps the types of readers_ and of the completions.
LEMMA ReaderTypesStep == TypeInv /\ [Next]_vars => ReaderTypes'
<1> SUFFICES ASSUME TypeInv, [Next]_vars PROVE ReaderTypes'
  OBVIOUS
<1>t. ReaderTypes
  BY DEF TypeInv, TypeOK
<1>0. CASE UNCHANGED readerVars
  BY <1>t, <1>0 DEF ReaderTypes, readerVars
<1>1. CASE RegisterReader \/ ObserveReader
  BY <1>t, <1>1, CurrentReader DEF RegisterReader, ObserveReader, ReaderTypes
<1>2. ASSUME NEW r \in Readers, reaping[r] <= 1, Reap(r) PROVE reaping' \in [Readers -> 0 .. 2]
  <2>1. reaping \in [Readers -> 0 .. 2]
    BY <1>t DEF ReaderTypes
  <2>2. (IF running THEN reaping[r] + 1 ELSE reaping[r]) \in 0 .. 2
    BY <1>2, <2>1
  <2> QED
    BY <1>2, <2>1, <2>2 DEF Reap
<1>3. CASE RecheckReader
  <2> DEFINE r == ReaderOrder[nextReader]
  <2>1. nextReader \in ReaderIndices /\ r \in Readers
    BY <1>3, CurrentReader DEF RecheckReader
  <2>2. reaping[r] <= 1
    BY <2>1, ReaderList DEF TypeInv, ReapInv
  <2>3. reaping' \in [Readers -> 0 .. 2]
    BY <1>t, <1>2, <1>3, <2>1, <2>2 DEF RecheckReader, ReaderTypes
  <2> QED
    BY <1>t, <1>3, <2>3 DEF RecheckReader, ReaderTypes
<1>4. ASSUME NEW r \in Readers, NotifyObserver(r) PROVE ReaderTypes'
  <2>1. reaping[r] <= 1
    <3>1. PICK i \in ReaderIndices : r = ReaderOrder[i]
      BY ReaderList
    <3> QED
      BY <1>4, <3>1 DEF TypeInv, ReapInv, NotifyObserver
  <2>2. reaping' \in [Readers -> 0 .. 2]
    BY <1>t, <1>2, <1>4, <2>1 DEF NotifyObserver, ReaderTypes
  <2> QED
    BY <1>t, <1>4, <2>2 DEF NotifyObserver, ReaderTypes
<1>e. /\ EmptiedNow \subseteq {"emptied", "stopped"}
      /\ StoppedNow \subseteq {"emptied", "stopped"}
  BY <1>t DEF ReaderTypes, EmptiedNow, StoppedNow
<1>5. ASSUME NEW r \in Readers, RemoveCompletedReader(r) PROVE ReaderTypes'
  <2>1. reaping' \in [Readers -> 0 .. 2]
    BY <1>t, <1>5 DEF RemoveCompletedReader, ReaderTypes
  <2>2. early' = early \/ early' = EmptiedNow
    BY <1>5 DEF RemoveCompletedReader
  <2>3. /\ readers' \subseteq readers /\ closers' \subseteq closers \cup {r}
        /\ UNCHANGED <<observed, completed>>
    BY <1>5 DEF RemoveCompletedReader
  <2> QED
    BY <1>t, <1>e, <2>1, <2>2, <2>3 DEF ReaderTypes
<1>6. ASSUME NEW r \in Readers, SignalCompleted(r) \/ StopJoinReader(r)
      PROVE  ReaderTypes'
  BY <1>t, <1>6 DEF SignalCompleted, StopJoinReader, ReaderTypes
<1>7. CASE MainStop \/ \E r \in Readers : CloseAfterLast(r)
  <2>1. /\ early' = early \/ early' = StoppedNow
        /\ closers' \subseteq closers /\ UNCHANGED <<readers, observed, completed, reaping>>
    BY <1>7 DEF MainStop, CloseAfterLast
  <2> QED
    BY <1>t, <1>e, <2>1 DEF ReaderTypes
<1> QED
  BY <1>0, <1>1, <1>3, <1>4, <1>5, <1>6, <1>7, ReaderSteps

\* Every step keeps the types of the lifecycle.
LEMMA LifeTypesStep == TypeInv /\ [Next]_vars => LifeTypes'
<1> SUFFICES ASSUME TypeInv, [Next]_vars PROVE LifeTypes'
  OBVIOUS
<1>t. LifeTypes
  BY DEF TypeInv, TypeOK
<1>1. /\ running' \in BOOLEAN /\ forceQuit' \in BOOLEAN
      /\ writersUp' \in BOOLEAN /\ autoClosed' \in BOOLEAN
  BY <1>t, LifeSteps
     DEF LifeTypes, lifeVars, CloseAfterLast, MainStop, MainReturn, StartWriters, StartReader,
         RegisterReader, ObserveReader, RecheckReader, StartFails, BuildRoutes, StartConsumer, StopRunning,
         StopClear, StopCleared, StopNotify, StopJoin, StopProcessors, StopWriters, ForceBegin,
         ForceRunning, ForceClear
<1>2. nextReader' \in 1 .. Len(ReaderOrder) + 1
  <2>1. CASE RecheckReader
    BY <1>t, <2>1, CurrentReader, ReaderList DEF RecheckReader, LifeTypes, ReaderIndices
  <2>2. CASE nextReader' = nextReader
    BY <1>t, <2>2 DEF LifeTypes
  <2> QED
    BY <2>1, <2>2, LifeSteps
       DEF lifeVars, CloseAfterLast, MainStop, MainReturn, StartWriters, StartReader,
           RegisterReader, ObserveReader, StartFails, BuildRoutes, StartConsumer, StopRunning, StopClear,
           StopCleared, StopNotify, StopJoin, StopProcessors, StopWriters, ForceBegin,
           ForceRunning, ForceClear
<1>3. startPc' \in {"idle", "create", "register", "observe", "recheck", "consumer", "started",
                    "failed"}
  BY <1>t, LifeSteps
     DEF LifeTypes, lifeVars, CloseAfterLast, MainStop, MainReturn, StartWriters, StartReader,
         RegisterReader, ObserveReader, RecheckReader, StartFails, BuildRoutes, StartConsumer, StopRunning,
         StopClear, StopCleared, StopNotify, StopJoin, StopProcessors, StopWriters, ForceBegin,
         ForceRunning, ForceClear
<1>4. stopPc' \in {"none", "begin", "clear", "joining", "notify", "join", "processors",
                   "writers", "done"}
  BY <1>t, LifeSteps
     DEF LifeTypes, lifeVars, CloseAfterLast, MainStop, MainReturn, StartWriters, StartReader,
         RegisterReader, ObserveReader, RecheckReader, StartFails, BuildRoutes, StartConsumer, StopRunning,
         StopClear, StopCleared, StopNotify, StopJoin, StopProcessors, StopWriters, ForceBegin,
         ForceRunning, ForceClear
<1>5. /\ mainPc' \in {"idle", "called", "returned"}
      /\ forcePc' \in {"none", "running", "clear", "done"}
  BY <1>t, LifeSteps
     DEF LifeTypes, lifeVars, CloseAfterLast, MainStop, MainReturn, StartWriters, StartReader,
         RegisterReader, ObserveReader, RecheckReader, StartFails, BuildRoutes, StartConsumer, StopRunning,
         StopClear, StopCleared, StopNotify, StopJoin, StopProcessors, StopWriters, ForceBegin,
         ForceRunning, ForceClear
<1> QED
  BY <1>1, <1>2, <1>3, <1>4, <1>5 DEF LifeTypes

\* Every step keeps the order in which start() takes the readers, and the count of the
\* detached threads.
LEMMA ReaderLoopStep == TypeInv /\ [Next]_vars => StartInv' /\ ReapInv'
<1> SUFFICES ASSUME TypeInv, [Next]_vars PROVE StartInv' /\ ReapInv'
  OBVIOUS
<1>t. BusTypes /\ ConsumerTypes /\ ReaderTypes /\ LifeTypes /\ StartInv /\ ReapInv
  BY DEF TypeInv, TypeOK
<1>u. /\ ppc \in [Producers -> ProducerPoints]
      /\ reaping \in [Readers -> 0 .. 2]
      /\ nextReader \in Nat
  BY <1>t, ReaderList DEF BusTypes, ReaderTypes, LifeTypes
\* A step that starts no reader thread, revives none and leaves the loop of start() alone.
<1>f. ASSUME UNCHANGED <<startPc, nextReader>>,
             \A r \in Readers : ppc[r] \in {"none", "exited"} => ppc'[r] = ppc[r],
             \A r \in Readers : reaping'[r] <= reaping[r] /\ reaping'[r] \in Nat
      PROVE  StartInv' /\ ReapInv'
  <2>1. StartInv'
    BY <1>t, <1>f, ReaderList DEF StartInv
  <2>2. ReapInv'
    <3> SUFFICES ASSUME NEW i \in ReaderIndices
                 PROVE  LET r == ReaderOrder[i]
                        IN  /\ ppc'[r] # "exited" \/ i >= nextReader => reaping'[r] <= 1
                            /\ ppc'[r] # "exited" /\ i >= nextReader => reaping'[r] = 0
      BY <1>f DEF ReapInv
    <3> DEFINE r == ReaderOrder[i]
    <3>1. /\ ppc[r] # "exited" \/ i >= nextReader => reaping[r] <= 1
          /\ ppc[r] # "exited" /\ i >= nextReader => reaping[r] = 0
      BY <1>t DEF ReapInv
    <3>2. r \in Readers /\ reaping[r] \in 0 .. 2
      BY <1>u, ReaderList
    <3>3. ppc'[r] # "exited" => ppc[r] # "exited"
      BY <1>f, <3>2
    <3>4. reaping'[r] <= reaping[r] /\ reaping'[r] \in Nat
      BY <1>f, <3>2
    <3> QED
      BY <3>1, <3>2, <3>3, <3>4
  <2> QED
    BY <2>1, <2>2
<1>0. CASE UNCHANGED <<ppc, reaping, startPc, nextReader>>
  BY <1>t, <1>0 DEF StartInv, ReapInv
<1>1. ASSUME NEW p \in Producers,
             PushRejected(p) \/ PushBegin(p) \/ PushTest(p) \/ PushBlock(p) \/ PushSpuriousWakeup(p)
      PROVE  StartInv' /\ ReapInv'
  <2>1. UNCHANGED <<startPc, nextReader, reaping>>
    BY <1>1 DEF PushRejected, PushBegin, PushTest, PushBlock, PushSpuriousWakeup, readerVars, lifeVars
  <2>2. \A q \in Producers : ppc[q] \in {"none", "exited"} => ppc'[q] = ppc[q]
    BY <1>1, <1>u DEF PushRejected, PushBegin, PushTest, PushBlock, PushSpuriousWakeup
  <2> QED
    BY <1>f, <1>u, <2>1, <2>2, ReaderList
<1>2. CASE ConsumerTest \/ StopNotify \/ ForceClear \/ StopProcessors
  <2>1. UNCHANGED <<startPc, nextReader, reaping>>
    BY <1>2 DEF ConsumerTest, StopNotify, ForceClear, StopProcessors, readerVars, lifeVars
  <2>2. \A q \in Readers : ppc[q] \in {"none", "exited"} => ppc'[q] = ppc[q]
    <3>1. CASE ConsumerTest \/ StopNotify \/ ForceClear
      <4>1. ppc' = ppc \/ ppc' = ProducersWoken
        BY <3>1 DEF ConsumerTest, StopNotify, ForceClear
      <4> QED
        BY <1>t, <4>1, WakeTypes, ReaderList
    <3>2. CASE StopProcessors
      BY <1>u, <3>2, ReaderList DEF StopProcessors
    <3> QED
      BY <1>2, <3>1, <3>2
  <2> QED
    BY <1>f, <1>u, <2>1, <2>2
<1>3. ASSUME NEW r \in Readers,
             SignalCompleted(r) \/ ReaderExit(r) \/ RemoveCompletedReader(r) \/ StopJoinReader(r)
               \/ CloseAfterLast(r)
      PROVE  StartInv' /\ ReapInv'
  <2>1. UNCHANGED <<startPc, nextReader>>
    BY <1>3 DEF SignalCompleted, ReaderExit, RemoveCompletedReader, StopJoinReader, CloseAfterLast,
                lifeVars
  <2>2. \A q \in Readers : ppc[q] \in {"none", "exited"} => ppc'[q] = ppc[q]
    BY <1>3, <1>u, ReaderList
       DEF SignalCompleted, ReaderExit, RemoveCompletedReader, StopJoinReader, CloseAfterLast, busVars
  <2>3. \/ reaping' = reaping
        \/ reaping[r] > 0 /\ reaping' = [reaping EXCEPT ![r] = reaping[r] - 1]
    BY <1>3 DEF SignalCompleted, ReaderExit, RemoveCompletedReader, StopJoinReader, CloseAfterLast,
                readerVars
  <2>4. \A q \in Readers : reaping'[q] <= reaping[q] /\ reaping'[q] \in Nat
    BY <1>u, <2>3
  <2> QED
    BY <1>f, <2>1, <2>2, <2>4
<1>4. ASSUME NEW r \in Readers, NotifyObserver(r) PROVE StartInv' /\ ReapInv'
  <2>1. /\ ppc[r] = "completing" /\ ppc' = [ppc EXCEPT ![r] = "exited"]
        /\ UNCHANGED <<startPc, nextReader>>
        /\ \/ reaping' = reaping
           \/ reaping' = [reaping EXCEPT ![r] = reaping[r] + 1]
    BY <1>4, <1>u DEF NotifyObserver, Reap, lifeVars
  <2>2. StartInv'
    BY <1>t, <1>u, <2>1, ReaderList DEF StartInv
  <2>3. ASSUME NEW i \in ReaderIndices
        PROVE  /\ ppc'[ReaderOrder[i]] # "exited" \/ i >= nextReader => reaping'[ReaderOrder[i]] <= 1
               /\ ppc'[ReaderOrder[i]] # "exited" /\ i >= nextReader => reaping'[ReaderOrder[i]] = 0
    <3>1. /\ ppc[ReaderOrder[i]] # "exited" \/ i >= nextReader => reaping[ReaderOrder[i]] <= 1
          /\ ppc[ReaderOrder[i]] # "exited" /\ i >= nextReader => reaping[ReaderOrder[i]] = 0
      BY <1>t DEF ReapInv
    <3>2. ReaderOrder[i] \in Readers /\ reaping[ReaderOrder[i]] \in 0 .. 2 /\ i \in Nat
      BY <1>u, ReaderList
    <3>3. CASE ReaderOrder[i] = r
      BY <1>u, <2>1, <3>1, <3>2, <3>3, ReaderList
    <3>4. CASE ReaderOrder[i] # r
      <4>1. ppc'[ReaderOrder[i]] = ppc[ReaderOrder[i]] /\ reaping'[ReaderOrder[i]] = reaping[ReaderOrder[i]]
        BY <1>u, <2>1, <3>2, <3>4, ReaderList
      <4> QED
        BY <3>1, <4>1
    <3> QED
      BY <3>3, <3>4
  <2> QED
    BY <2>1, <2>2, <2>3 DEF ReapInv
<1>5. CASE StartWriters
  <2>1. \A i \in ReaderIndices : ppc'[ReaderOrder[i]] = "none"
    BY <1>5, ReaderList DEF StartWriters
  <2>2. \A i \in ReaderIndices : ppc[ReaderOrder[i]] = "none"
    <3>1. nextReader = 1 /\ startPc = "idle"
      BY <1>5, <1>t DEF StartWriters, StartInv
    <3>2. \A i \in ReaderIndices : i > 1 \/ i = 1
      BY ReaderList DEF ReaderIndices
    <3> QED
      BY <1>t, <3>1, <3>2 DEF StartInv
  <2> QED
    BY <1>5, <1>t, <2>1, <2>2 DEF StartWriters, StartInv, ReapInv, readerVars
<1>6. CASE StartReader
  <2>1. nextReader \in ReaderIndices /\ ReaderOrder[nextReader] \in Producers
    BY <1>6, <1>t, ReaderList DEF StartReader, LifeTypes, ReaderIndices
  <2>2. \A i \in ReaderIndices :
          ppc'[ReaderOrder[i]] = IF i = nextReader THEN "idle" ELSE ppc[ReaderOrder[i]]
    BY <1>6, <1>u, <2>1, ReaderList DEF StartReader
  <2>3. ppc[ReaderOrder[nextReader]] = "none"
    BY <1>6, <1>t, <2>1 DEF StartReader, StartInv
  <2>4. StartInv'
    BY <1>6, <1>t, <1>u, <2>1, <2>2, ReaderList DEF StartReader, StartInv
  <2>5. ReapInv'
    BY <1>6, <1>t, <2>1, <2>2, <2>3 DEF StartReader, ReapInv, readerVars
  <2> QED
    BY <2>4, <2>5
<1>7. CASE RegisterReader \/ ObserveReader \/ StartFails \/ BuildRoutes
           \/ StartConsumer
  <2>1. UNCHANGED <<ppc, reaping, nextReader>>
    BY <1>7 DEF RegisterReader, ObserveReader, StartFails, BuildRoutes, StartConsumer, busVars, readerVars
  <2>2. \/ startPc' \in {"observe", "recheck"} /\ startPc \in {"register", "observe"}
        \/ startPc' \in {"failed", "consumer", "started"}
    BY <1>7 DEF RegisterReader, ObserveReader, StartFails, BuildRoutes, StartConsumer
  <2>3. StartInv'
    BY <1>t, <2>1, <2>2 DEF StartInv
  <2> QED
    BY <1>t, <2>1, <2>3 DEF ReapInv
<1>8. CASE RecheckReader
  <2> DEFINE r == ReaderOrder[nextReader]
  <2>1. nextReader \in ReaderIndices /\ r \in Readers
    BY <1>8, CurrentReader DEF RecheckReader
  <2>2. /\ ppc' = ppc /\ nextReader' = nextReader + 1 /\ startPc' = "create"
        /\ reaping' = reaping \/ reaping' = [reaping EXCEPT ![r] = reaping[r] + 1]
    BY <1>8, <1>u DEF RecheckReader, Reap, busVars
  <2>3. StartInv'
    BY <1>t, <1>u, <2>2, ReaderList DEF StartInv
  <2>4. ASSUME NEW i \in ReaderIndices
        PROVE  LET q == ReaderOrder[i]
               IN  /\ ppc[q] # "exited" \/ i >= nextReader + 1 => reaping'[q] <= 1
                   /\ ppc[q] # "exited" /\ i >= nextReader + 1 => reaping'[q] = 0
    <3>1. /\ ppc[ReaderOrder[i]] # "exited" \/ i >= nextReader => reaping[ReaderOrder[i]] <= 1
          /\ ppc[ReaderOrder[i]] # "exited" /\ i >= nextReader => reaping[ReaderOrder[i]] = 0
      BY <1>t DEF ReapInv
    <3>2. ReaderOrder[i] \in Readers /\ reaping[ReaderOrder[i]] \in 0 .. 2 /\ i \in Nat
      BY <1>u, ReaderList
    <3>3. CASE i = nextReader
      BY <1>u, <2>1, <2>2, <3>1, <3>2, <3>3
    <3>4. CASE i # nextReader
      <4>1. reaping'[ReaderOrder[i]] = reaping[ReaderOrder[i]]
        BY <1>u, <2>1, <2>2, <3>2, <3>4, ReaderList
      <4> QED
        BY <1>u, <3>1, <3>2, <4>1
    <3> QED
      BY <3>3, <3>4
  <2> QED
    BY <2>2, <2>3, <2>4 DEF ReapInv
<1>9. CASE \/ UNCHANGED vars \/ (\E w \in Writers : WriterPush(w)) \/ ConsumerBlock \/ DispatchBegin
           \/ DispatchEnd \/ DispatchDone \/ ConsumerSpuriousWakeup \/ MainStop \/ MainReturn
           \/ StopRunning \/ StopClear \/ StopCleared \/ StopJoin \/ StopWriters \/ ForceBegin
           \/ ForceRunning
  BY <1>0, <1>9
     DEF vars, busVars, readerVars, lifeVars, WriterPush, ConsumerBlock, DispatchBegin, DispatchEnd,
         DispatchDone, ConsumerSpuriousWakeup, MainStop, MainReturn, StopRunning, StopClear,
         StopCleared, StopJoin, StopWriters, ForceBegin, ForceRunning
<1> QED
  BY <1>1, <1>2, <1>3, <1>4, <1>5, <1>6, <1>7, <1>8, <1>9
     DEF Next, ProducerStep, ReaderStep, ReaperStep, ConsumerStep, StartStep, StopStep, ForceStep,
         Terminated

\* Every step keeps the state of the hand-over to the writers consistent.
LEMMA FlightStep == TypeInv /\ [Next]_vars => FlightInv'
<1> SUFFICES ASSUME TypeInv, [Next]_vars PROVE FlightInv'
  OBVIOUS
<1>t. BusTypes /\ ConsumerTypes /\ FlightInv
  BY DEF TypeInv, TypeOK
<1>u. cpc \in ConsumerPoints /\ local \in Seq(Batches)
  BY <1>t DEF ConsumerTypes
<1>0. CASE UNCHANGED consumerVars
  BY <1>t, <1>0 DEF FlightInv, consumerVars
<1>1. ASSUME cpc # "dispatch", cpc' # "dispatch", UNCHANGED <<local, flight, todo>>
      PROVE  FlightInv'
  BY <1>t, <1>1 DEF FlightInv
<1>2. ASSUME cpc' = ConsumerWoken, UNCHANGED <<local, flight, todo>> PROVE FlightInv'
  BY <1>t, <1>2, WakeTypes DEF FlightInv
<1>3. ASSUME NEW p \in Producers, PushTest(p) PROVE FlightInv'
  <2>1. UNCHANGED <<local, flight, todo>> /\ (cpc' = cpc \/ cpc' = ConsumerWoken)
    BY <1>3 DEF PushTest
  <2> QED
    BY <1>t, <1>2, <2>1 DEF FlightInv
<1>4. ASSUME NEW w \in Writers, WriterPush(w) PROVE FlightInv'
  BY <1>t, <1>4 DEF WriterPush, FlightInv
<1>5. CASE ConsumerTest
  <2>1. /\ UNCHANGED <<flight, todo>> /\ cpc # "dispatch"
        /\ \/ cpc' # "dispatch" /\ local' = local
           \/ cpc' = "dispatch"
    BY <1>5 DEF ConsumerTest
  <2> QED
    BY <1>t, <2>1 DEF FlightInv
<1>6. CASE ConsumerBlock \/ ConsumerSpuriousWakeup
  BY <1>1, <1>6 DEF ConsumerBlock, ConsumerSpuriousWakeup
<1>7. CASE StartConsumer
  <2>1. cpc' = "test" /\ UNCHANGED <<local, flight, todo>>
    BY <1>7 DEF StartConsumer
  <2>2. cpc # "dispatch"
    BY <1>7 DEF StartConsumer, TypeInv, ConsumerInv
  <2> QED
    BY <1>1, <2>1, <2>2
<1>8. CASE DispatchBegin \/ DispatchEnd \/ DispatchDone
  BY <1>t, <1>8 DEF DispatchBegin, DispatchEnd, DispatchDone, FlightInv
<1>9. CASE StopNotify \/ ForceClear
  BY <1>2, <1>9 DEF StopNotify, ForceClear
<1> QED
  BY <1>0, <1>3, <1>4, <1>5, <1>6, <1>7, <1>8, <1>9, ConsumerSteps

\* Every step keeps the batches inside push() numbered.
LEMMA NumberStep == TypeInv /\ [Next]_vars => NumberInv'
<1> SUFFICES ASSUME TypeInv, [Next]_vars PROVE NumberInv'
  OBVIOUS
<1>t. BusTypes /\ ConsumerTypes /\ NumberInv
  BY DEF TypeInv, TypeOK
<1>u. ppc \in [Producers -> ProducerPoints] /\ nextBatch \in [Producers -> 0 .. MaxBatches]
  BY <1>t DEF BusTypes
\* A step in which nobody enters push().
<1>f. ASSUME nextBatch' = nextBatch,
             \A p \in Producers : ppc'[p] \in {"test", "blocking", "asleep"}
                                    => ppc[p] \in {"test", "blocking", "asleep"}
      PROVE  NumberInv'
  BY <1>t, <1>f DEF NumberInv
<1>0. CASE UNCHANGED busVars
  BY <1>t, <1>0 DEF NumberInv, busVars
<1>1. ASSUME NEW p \in Producers, PushRejected(p) \/ PushBegin(p) PROVE NumberInv'
  BY <1>t, <1>u, <1>1, ConstantTypes DEF PushRejected, PushBegin, NumberInv
<1>2. ASSUME NEW p \in Producers, PushTest(p) \/ PushBlock(p) \/ PushSpuriousWakeup(p)
      PROVE  NumberInv'
  BY <1>f, <1>u, <1>2 DEF PushTest, PushBlock, PushSpuriousWakeup
<1>3. ASSUME NEW r \in Readers, SignalCompleted(r) \/ NotifyObserver(r) \/ ReaderExit(r)
      PROVE  NumberInv'
  BY <1>f, <1>u, <1>3, ReaderList DEF SignalCompleted, NotifyObserver, ReaderExit
<1>4. CASE ConsumerTest \/ StopNotify \/ ForceClear
  <2>1. nextBatch' = nextBatch /\ (ppc' = ppc \/ ppc' = ProducersWoken)
    BY <1>4 DEF ConsumerTest, StopNotify, ForceClear
  <2> QED
    BY <1>f, <1>t, <2>1, WakeTypes
<1>5. CASE StartWriters \/ StopProcessors
  BY <1>f, <1>u, <1>5 DEF StartWriters, StopProcessors
<1>6. CASE StartReader
  BY <1>f, <1>u, <1>6 DEF StartReader
<1> QED
  BY <1>0, <1>1, <1>2, <1>3, <1>4, <1>5, <1>6, BusSteps

\* Every step keeps the consumer last.
LEMMA ConsumerLastStep == TypeInv /\ [Next]_vars => ConsumerInv'
<1> SUFFICES ASSUME TypeInv, [Next]_vars, startPc' # "started" PROVE cpc' = "none"
  BY DEF ConsumerInv
<1>1. startPc # "started"
  BY LifeSteps
     DEF lifeVars, CloseAfterLast, MainStop, MainReturn, StartWriters, StartReader,
         RegisterReader, ObserveReader, RecheckReader, StartFails, BuildRoutes, StartConsumer, StopRunning,
         StopClear, StopCleared, StopNotify, StopJoin, StopProcessors, StopWriters, ForceBegin,
         ForceRunning, ForceClear
<1>2. cpc = "none" /\ ~flight /\ todo = {}
  BY <1>1 DEF TypeInv, ConsumerInv, FlightInv
<1>3. ConsumerWoken = "none"
  BY <1>2 DEF ConsumerWoken
<1> QED
  BY <1>2, <1>3, ConsumerSteps
     DEF consumerVars, PushTest, WriterPush, ConsumerTest, ConsumerBlock, ConsumerSpuriousWakeup,
         DispatchBegin, DispatchEnd, DispatchDone, StartConsumer, StopNotify, ForceClear

\* TypeInv is inductive.
LEMMA TypeInvStep == TypeInv /\ [Next]_vars => TypeInv'
<1> SUFFICES ASSUME TypeInv, [Next]_vars PROVE TypeInv'
  OBVIOUS
<1>1. TypeOK'
  BY BusTypesStep, ConsumerTypesStep, ReaderTypesStep, LifeTypesStep DEF TypeOK
<1> QED
  BY <1>1, ReaderLoopStep, FlightStep, NumberStep, ConsumerLastStep DEF TypeInv

\* The inductive invariant of the types holds throughout.
THEOREM TypeInvariant == Spec => []TypeInv
  BY TypeInvInit, TypeInvStep, PTL DEF Spec

\* Every reachable state is well typed: start() never indexes past the configured readers,
\* no more than two detached threads per reader exist, the deques hold numbered batches.
THEOREM TypeCorrect == Spec => []TypeOK
<1>1. TypeInv => TypeOK
  BY DEF TypeInv
<1> QED
  BY <1>1, TypeInvariant, PTL

-----------------------------------------------------------------------------
(* The order of the shutdown *)

\* Whoever acts on a completion has one.
CompletionInv ==
  \A r \in Readers :
    reaping[r] > 0 \/ ppc[r] = "completing" \/ r \in closers => r \in completed

\* stop() is called before the controller is destroyed, and after start() if unhurried.
StopInv ==
  /\ mainPc = "returned" => stopPc # "none"
  /\ Unhurried /\ stopPc # "none" => startPc = "started"

\* stop() takes the writers down last, after the consumer, which leaves an empty queue_.
ShutdownInv ==
  /\ startPc # "idle" /\ stopPc # "done" => writersUp
  /\ startPc = "started" => cpc # "none"
  /\ Unhurried /\ stopPc \in {"processors", "writers", "done"} => cpc = "exited"
  /\ cpc = "exited" => ~running /\ queue = <<>>

LifeInv == CompletionInv /\ StopInv /\ ShutdownInv

\* Initially nothing has completed and nothing is stopping.
LEMMA LifeInvInit == Init => LifeInv
<1> SUFFICES ASSUME Init PROVE LifeInv
  OBVIOUS
<1>1. CompletionInv
  BY ReaderList DEF Init, CompletionInv
<1>2. StopInv
  BY DEF Init, StopInv
<1>3. ShutdownInv
  BY DEF Init, ShutdownInv
<1> QED
  BY <1>1, <1>2, <1>3 DEF LifeInv

\* start() is never left once it has returned.
LEMMA StartedStays == ASSUME [Next]_vars, startPc = "started" PROVE startPc' = "started"
  BY LifeSteps
     DEF lifeVars, CloseAfterLast, MainStop, MainReturn, StartWriters, StartReader,
         RegisterReader, ObserveReader, RecheckReader, StartFails, BuildRoutes, StartConsumer, StopRunning,
         StopClear, StopCleared, StopNotify, StopJoin, StopProcessors, StopWriters, ForceBegin,
         ForceRunning, ForceClear

\* Every step keeps completions acted upon only when signalled.
LEMMA CompletionStep ==
  ASSUME TypeInv, CompletionInv, [Next]_vars
  PROVE  CompletionInv'
<1>t. BusTypes /\ ConsumerTypes /\ ReaderTypes
  BY DEF TypeInv, TypeOK
<1>u. ppc \in [Producers -> ProducerPoints] /\ reaping \in [Readers -> 0 .. 2]
  BY <1>t DEF BusTypes, ReaderTypes
\* Who acts on a completion, reader by reader.
<1>2. ASSUME NEW r \in Readers, reaping'[r] > 0 PROVE r \in completed'
  <2>1. CASE reaping' = reaping
    BY <1>2, <2>1, ReaderSteps
       DEF CompletionInv, readerVars, RegisterReader, ObserveReader, RecheckReader,
           SignalCompleted, NotifyObserver, RemoveCompletedReader, CloseAfterLast, StopJoinReader, MainStop
  <2>2. ASSUME NEW q \in Readers, NotifyObserver(q) PROVE r \in completed'
    <3>1. completed' = completed /\ q \in completed
      BY <2>2 DEF NotifyObserver, CompletionInv
    <3>2. q = r \/ reaping'[r] = reaping[r]
      BY <1>u, <2>2 DEF NotifyObserver, Reap
    <3> QED
      BY <1>2, <3>1, <3>2 DEF CompletionInv
  <2>3. ASSUME NEW q \in Readers, RemoveCompletedReader(q) PROVE r \in completed'
    <3>1. completed' = completed /\ (reaping[r] > 0 \/ reaping'[r] = reaping[r])
      BY <1>u, <2>3 DEF RemoveCompletedReader
    <3> QED
      BY <1>2, <3>1 DEF CompletionInv
  <2>4. CASE RecheckReader
    <3> DEFINE q == ReaderOrder[nextReader]
    <3>1. completed' = completed /\ q \in Readers
      BY <2>4, CurrentReader DEF RecheckReader
    <3>2. reaping' = reaping \/ (q \in completed /\ (q = r \/ reaping'[r] = reaping[r]))
      BY <1>u, <2>4, <3>1 DEF RecheckReader, Reap
    <3> QED
      BY <1>2, <3>1, <3>2 DEF CompletionInv
  <2> QED
    BY <2>1, <2>2, <2>3, <2>4, ReaderSteps
       DEF readerVars, RegisterReader, ObserveReader, SignalCompleted, CloseAfterLast, StopJoinReader, MainStop
<1>3. completed \subseteq completed'
  BY ReaderSteps
     DEF readerVars, RegisterReader, ObserveReader, RecheckReader, SignalCompleted, NotifyObserver,
         RemoveCompletedReader, CloseAfterLast, StopJoinReader, MainStop
<1>4. ASSUME NEW r \in Readers, r \in closers' PROVE r \in completed'
  <2>1. r \in closers \/ reaping[r] > 0
    <3>1. ASSUME NEW q \in Readers, RemoveCompletedReader(q) PROVE r \in closers \/ reaping[r] > 0
      BY <1>4, <3>1 DEF RemoveCompletedReader
    <3>2. ASSUME NEW q \in Readers, CloseAfterLast(q) PROVE r \in closers
      BY <1>4, <3>2 DEF CloseAfterLast
    <3> QED
      BY <1>4, <3>1, <3>2, ReaderSteps
         DEF readerVars, RegisterReader, ObserveReader, RecheckReader, SignalCompleted,
             NotifyObserver, StopJoinReader, MainStop
  <2> QED
    BY <1>3, <2>1 DEF CompletionInv
<1>5. ASSUME NEW r \in Readers, ppc'[r] = "completing" PROVE r \in completed'
  <2>0. r \in Producers
    BY ReaderList
  <2>1. CASE ppc[r] = "completing"
    BY <1>3, <2>1 DEF CompletionInv
  <2>2. CASE \E q \in Readers : SignalCompleted(q)
    BY <1>5, <1>u, <2>0, <2>1, <2>2, ReaderList DEF SignalCompleted
  <2>3. ASSUME NEW p \in Producers,
               PushRejected(p) \/ PushBegin(p) \/ PushTest(p) \/ PushBlock(p) \/ PushSpuriousWakeup(p)
        PROVE  r \in completed'
    BY <1>5, <1>u, <2>0, <2>1, <2>3
       DEF PushRejected, PushBegin, PushTest, PushBlock, PushSpuriousWakeup
  <2>4. CASE \E q \in Readers : NotifyObserver(q) \/ ReaderExit(q)
    BY <1>5, <1>u, <2>0, <2>1, <2>4, ReaderList DEF NotifyObserver, ReaderExit
  <2>5. CASE ConsumerTest \/ StopNotify \/ ForceClear
    <3>1. ppc' = ppc \/ ppc' = ProducersWoken
      BY <2>5 DEF ConsumerTest, StopNotify, ForceClear
    <3> QED
      BY <1>5, <1>t, <2>0, <2>1, <3>1, WakeTypes
  <2>6. CASE StartWriters \/ StopProcessors
    BY <1>5, <1>u, <2>0, <2>1, <2>6 DEF StartWriters, StopProcessors
  <2>7. CASE StartReader
    BY <1>5, <1>u, <2>0, <2>1, <2>7 DEF StartReader
  <2>8. CASE UNCHANGED busVars
    BY <1>5, <2>1, <2>8 DEF busVars
  <2> QED
    BY <2>2, <2>3, <2>4, <2>5, <2>6, <2>7, <2>8, BusSteps
<1> QED
  BY <1>2, <1>4, <1>5 DEF CompletionInv

\* What the history says of the shutdown is never taken back.
LEMMA EarlyGrows == ASSUME [Next]_vars PROVE early \subseteq early'
  BY ReaderSteps
     DEF EmptiedNow, StoppedNow, readerVars, RegisterReader, ObserveReader, RecheckReader, SignalCompleted, NotifyObserver,
         RemoveCompletedReader, CloseAfterLast, StopJoinReader, MainStop

\* Every step keeps an unhurried stop() after start().
LEMMA StopInvStep ==
  ASSUME TypeInv, StopInv, [Next]_vars
  PROVE  StopInv'
<1>1. ASSUME Unhurried', stopPc' # "none" PROVE startPc' = "started"
  <2>0. Unhurried
    BY <1>1, EarlyGrows DEF Unhurried
  <2>1. CASE stopPc # "none"
    BY <2>0, <2>1, StartedStays DEF StopInv
  <2>2. CASE MainStop \/ \E r \in Readers : CloseAfterLast(r)
    <3>1. UNCHANGED stopPc \/ early' = StoppedNow
      BY <2>2 DEF MainStop, CloseAfterLast
    <3>2. CASE early' = StoppedNow
      <4>1. startPc = "started"
        BY <1>1, <3>2 DEF StoppedNow, Unhurried
      <4> QED
        BY <4>1, StartedStays
    <3> QED
      BY <1>1, <2>1, <3>1, <3>2
  <2> QED
    BY <1>1, <2>1, <2>2, LifeSteps
       DEF lifeVars, MainReturn, StartWriters, StartReader, RegisterReader, ObserveReader,
           RecheckReader, StartFails, BuildRoutes, StartConsumer, StopRunning, StopClear,
           StopCleared, StopNotify, StopJoin, StopProcessors, StopWriters, ForceBegin,
           ForceRunning, ForceClear
<1>2. mainPc' = "returned" => stopPc' # "none"
  BY LifeSteps
     DEF StopInv, lifeVars, CloseAfterLast, MainStop, MainReturn, StartWriters, StartReader, RegisterReader,
         ObserveReader, RecheckReader, StartFails, BuildRoutes, StartConsumer, StopRunning,
         StopClear, StopCleared, StopNotify, StopJoin, StopProcessors, StopWriters, ForceBegin,
         ForceRunning, ForceClear
<1> QED
  BY <1>1, <1>2 DEF StopInv

\* Every step keeps the order in which stop() takes the controller down.
LEMMA ShutdownStep ==
  ASSUME TypeInv, StopInv, ShutdownInv, [Next]_vars
  PROVE  ShutdownInv'
<1>1. ASSUME startPc' # "idle", stopPc' # "done" PROVE writersUp'
  BY <1>1, LifeSteps
     DEF ShutdownInv, lifeVars, CloseAfterLast, MainStop, MainReturn, StartWriters,
         StartReader, RegisterReader, ObserveReader, RecheckReader, StartFails, BuildRoutes, StartConsumer,
         StopRunning, StopClear, StopCleared, StopNotify, StopJoin, StopProcessors, StopWriters,
         ForceBegin, ForceRunning, ForceClear
\* A consumer that has left stays away, and nothing is pushed any more.
<1>2. ASSUME cpc = "exited" PROVE cpc' = "exited" /\ ~running' /\ queue' = <<>>
  <2>1. /\ ~running /\ queue = <<>> /\ startPc = "started"
        /\ ~flight /\ todo = {} /\ ConsumerWoken = "exited"
    BY <1>2 DEF ShutdownInv, TypeInv, ConsumerInv, FlightInv, ConsumerWoken
  <2>2. cpc' = "exited"
    BY <1>2, <2>1, ConsumerSteps
       DEF consumerVars, PushTest, WriterPush, ConsumerTest, ConsumerBlock, ConsumerSpuriousWakeup,
           DispatchBegin, DispatchEnd, DispatchDone, StartConsumer, StopNotify, ForceClear
  <2>3. ~running'
    BY <2>1, LifeSteps
       DEF lifeVars, CloseAfterLast, MainStop, MainReturn, StartWriters,
           StartReader, RegisterReader, ObserveReader, RecheckReader, StartFails, BuildRoutes, StartConsumer,
           StopRunning, StopClear, StopCleared, StopNotify, StopJoin, StopProcessors, StopWriters,
           ForceBegin, ForceRunning, ForceClear
  <2>4. queue' = <<>>
    BY <2>1, BusSteps
       DEF busVars, PushRejected, PushBegin, PushTest, PushBlock, PushSpuriousWakeup,
           SignalCompleted, NotifyObserver, ReaderExit, ConsumerTest, StartWriters, StartReader,
           StopNotify, StopProcessors, ForceClear
  <2> QED
    BY <2>2, <2>3, <2>4
<1>3. ASSUME Unhurried', stopPc' \in {"processors", "writers", "done"} PROVE cpc' = "exited"
  <2>0. Unhurried
    BY <1>3, EarlyGrows DEF Unhurried
  <2>1. CASE cpc = "exited"
    BY <1>2, <2>1
  <2>2. CASE StopJoin
    <3>1. cpc \in {"none", "exited"} /\ cpc' = cpc /\ startPc = "started"
      BY <2>0, <2>2 DEF StopJoin, consumerVars, StopInv
    <3> QED
      BY <3>1 DEF ShutdownInv
  <2> QED
    BY <1>3, <2>0, <2>1, <2>2, LifeSteps
       DEF ShutdownInv, lifeVars, CloseAfterLast, MainStop, MainReturn, StartWriters,
           StartReader, RegisterReader, ObserveReader, RecheckReader, StartFails, BuildRoutes, StartConsumer,
           StopRunning, StopClear, StopCleared, StopNotify, StopProcessors, StopWriters,
           ForceBegin, ForceRunning, ForceClear
<1>4. ASSUME cpc' = "exited" PROVE ~running' /\ queue' = <<>>
  <2>1. CASE cpc = "exited"
    BY <1>2, <2>1
  <2>2. CASE ConsumerTest
    BY <1>4, <2>2 DEF ConsumerTest, lifeVars
  <2>3. CASE cpc # "exited"
    BY <1>4, <2>2, <2>3, ConsumerSteps
       DEF consumerVars, PushTest, WriterPush, ConsumerWoken, ConsumerBlock, ConsumerSpuriousWakeup,
           DispatchBegin, DispatchEnd, DispatchDone, StartConsumer, StopNotify, ForceClear
  <2> QED
    BY <2>1, <2>3
<1>5. ASSUME startPc' = "started" PROVE cpc' # "none"
  <2>1. CASE cpc # "none"
    BY <2>1, ConsumerSteps
       DEF consumerVars, PushTest, WriterPush, ConsumerTest, ConsumerWoken, ConsumerBlock,
           ConsumerSpuriousWakeup, DispatchBegin, DispatchEnd, DispatchDone, StartConsumer,
           StopNotify, ForceClear
  <2>2. CASE StartConsumer
    BY <2>2 DEF StartConsumer
  <2>3. CASE cpc = "none"
    BY <1>5, <2>2, <2>3, LifeSteps
       DEF ShutdownInv, lifeVars, CloseAfterLast, MainStop, MainReturn, StartWriters,
           StartReader, RegisterReader, ObserveReader, RecheckReader, StartFails, BuildRoutes,
           StopRunning, StopClear, StopCleared, StopNotify, StopJoin, StopProcessors, StopWriters,
           ForceBegin, ForceRunning, ForceClear
  <2> QED
    BY <2>1, <2>3
<1> QED
  BY <1>1, <1>3, <1>4, <1>5 DEF ShutdownInv

\* The invariants of the shutdown hold throughout.
THEOREM LifeInvariant == Spec => [](TypeInv /\ LifeInv)
<1>1. TypeInv /\ LifeInv /\ [Next]_vars => TypeInv' /\ LifeInv'
  BY TypeInvStep, CompletionStep, StopInvStep, ShutdownStep DEF LifeInv
<1> QED
  BY <1>1, TypeInvInit, LifeInvInit, PTL DEF Spec

\* As long as no stop() has begun before start() returned, no writer is stopped, or missing,
\* while the consumer may still hand it a batch.
THEOREM WritersStopLast == Spec => [](Unhurried => WritersOutliveConsumer)
<1>1. TypeInv /\ LifeInv => (Unhurried => WritersOutliveConsumer)
  BY DEF TypeInv, ConsumerInv, LifeInv, ShutdownInv, WritersOutliveConsumer
<1> QED
  BY <1>1, LifeInvariant, PTL

-----------------------------------------------------------------------------
(* The bounds of the bus *)

\* Every step keeps queue_ and the consumer's deque within the capacity.
LEMMA BusBoundStep == ASSUME TypeInv, BusBound, [Next]_vars PROVE BusBound'
<1>t. queue \in Seq(Batches) /\ local \in Seq(Batches) /\ QueueCapacity \in Nat
  BY ConstantTypes DEF TypeInv, TypeOK, BusTypes, ConsumerTypes
<1>1. ASSUME NEW p \in Producers, PushTest(p) PROVE BusBound'
  <2>1. local' = local /\ (queue' = queue \/ (queue' = Append(queue, <<p, nextBatch[p]>>)
                                               /\ Len(queue) < QueueCapacity))
    BY <1>1 DEF PushTest
  <2> QED
    BY <1>t, <2>1 DEF BusBound
<1>2. CASE ConsumerTest
  <2>1. UNCHANGED <<queue, local>> \/ (local' = queue /\ queue' = <<>>)
    BY <1>2 DEF ConsumerTest
  <2> QED
    BY <1>t, <2>1 DEF BusBound
<1>3. CASE DispatchEnd
  <2>1. local # <<>> /\ local' = Tail(local) /\ queue' = queue
    BY <1>3 DEF DispatchEnd, TypeInv, FlightInv, busVars
  <2> QED
    BY <1>t, <2>1 DEF BusBound
<1>4. CASE DispatchDone \/ ForceClear
  <2>1. (local' = local \/ local' = <<>>) /\ (queue' = queue \/ queue' = <<>>)
    BY <1>4 DEF DispatchDone, ForceClear, busVars
  <2> QED
    BY <1>t, <2>1 DEF BusBound
<1>5. CASE UNCHANGED <<queue, local>>
  BY <1>5 DEF BusBound
<1> QED
  BY <1>1, <1>2, <1>3, <1>4, <1>5, BusSteps, ConsumerSteps
     DEF busVars, consumerVars, PushRejected, PushBegin, PushBlock, PushSpuriousWakeup,
         SignalCompleted, NotifyObserver, ReaderExit, StartWriters, StartReader, StopNotify,
         StopProcessors, WriterPush, ConsumerBlock, ConsumerSpuriousWakeup, DispatchBegin,
         StartConsumer

\* The bound holds throughout, with the types it needs.
THEOREM BoundInvariant == Spec => [](TypeInv /\ BusBound)
<1>1. Init => BusBound
  BY ConstantTypes DEF Init, BusBound
<1>2. TypeInv /\ BusBound /\ [Next]_vars => TypeInv' /\ BusBound'
  BY TypeInvStep, BusBoundStep
<1> QED
  BY <1>1, <1>2, TypeInvInit, PTL DEF Spec

\* Neither queue_ nor the deque swapped out of it ever exceeds the configured capacity,
\* whatever the number of producers that push at the same time.
THEOREM BusIsBounded == Spec => []BusBound
  BY BoundInvariant, PTL

-----------------------------------------------------------------------------
(* The controller implements EventBus *)

InPush(p) == ppc[p] \in {"test", "blocking", "asleep"}

\* A producer's accepted batches carry smaller numbers than the one it is pushing.
OrderInv ==
  \A b \in accepted : /\ b[2] <= nextBatch[b[1]]
                      /\ InPush(b[1]) => b[2] < nextBatch[b[1]]

\* forceStop() sets force_quit_ before anything else and nobody resets it.
ForceInv == forcePc # "none" => forceQuit

\* The parts of an accepted batch.
LEMMA AcceptedType ==
  ASSUME TypeInv, NEW b \in accepted
  PROVE  b[1] \in Producers /\ b[2] \in Nat /\ b = <<b[1], b[2]>>
<1>1. b \in Producers \X (1 .. MaxBatches)
  BY DEF TypeInv, TypeOK, BusTypes, Batches
<1> QED
  BY <1>1, ConstantTypes

\* Every step keeps the numbering.
LEMMA OrderStep == ASSUME TypeInv, OrderInv, [Next]_vars PROVE OrderInv'
<1>t. BusTypes /\ ConsumerTypes
  BY DEF TypeInv, TypeOK
<1>u. /\ ppc \in [Producers -> ProducerPoints]
      /\ nextBatch \in [Producers -> 0 .. MaxBatches]
      /\ MaxBatches \in Nat
  BY <1>t, ConstantTypes DEF BusTypes
\* A step in which nobody takes up a batch and nobody enters push().
<1>f. ASSUME UNCHANGED <<nextBatch, accepted>>, \A p \in Producers : InPush(p)' => InPush(p)
      PROVE  OrderInv'
  BY <1>f, AcceptedType DEF OrderInv
<1>0. CASE UNCHANGED busVars
  BY <1>0 DEF OrderInv, InPush, busVars
<1>1. ASSUME NEW p \in Producers, PushRejected(p) \/ PushBegin(p) PROVE OrderInv'
  <2>1. /\ nextBatch' = [nextBatch EXCEPT ![p] = nextBatch[p] + 1]
        /\ accepted' = accepted
        /\ \A q \in Producers : q # p => ppc'[q] = ppc[q]
    BY <1>1, <1>u DEF PushRejected, PushBegin
  <2> SUFFICES ASSUME NEW b \in accepted
               PROVE  /\ b[2] <= nextBatch'[b[1]]
                      /\ InPush(b[1])' => b[2] < nextBatch'[b[1]]
    BY <2>1 DEF OrderInv
  <2>2. b[1] \in Producers /\ b[2] \in Nat /\ nextBatch[b[1]] \in Nat
    BY <1>u, AcceptedType
  <2>3. b[2] <= nextBatch[b[1]] /\ (InPush(b[1]) => b[2] < nextBatch[b[1]])
    BY DEF OrderInv
  <2>4. CASE b[1] = p
    BY <1>u, <2>1, <2>2, <2>3, <2>4
  <2>5. CASE b[1] # p
    BY <1>u, <2>1, <2>2, <2>3, <2>5 DEF InPush
  <2> QED
    BY <2>4, <2>5
<1>2. ASSUME NEW p \in Producers, PushTest(p) PROVE OrderInv'
  <2>1. /\ nextBatch' = nextBatch
        /\ \A q \in Producers : InPush(q)' => InPush(q)
    BY <1>2, <1>u DEF PushTest, InPush
  <2>2. \/ accepted' = accepted
        \/ accepted' = accepted \cup {<<p, nextBatch[p]>>} /\ ~InPush(p)'
    BY <1>2, <1>u DEF PushTest, InPush
  <2> SUFFICES ASSUME NEW b \in accepted'
               PROVE  /\ b[2] <= nextBatch[b[1]]
                      /\ InPush(b[1])' => b[2] < nextBatch[b[1]]
    BY <2>1 DEF OrderInv
  <2>3. CASE b \in accepted
    BY <2>1, <2>3, AcceptedType DEF OrderInv
  <2>4. CASE b = <<p, nextBatch[p]>> /\ ~InPush(p)'
    BY <1>u, <2>4
  <2> QED
    BY <2>2, <2>3, <2>4
<1>3. ASSUME NEW p \in Producers, PushBlock(p) \/ PushSpuriousWakeup(p) PROVE OrderInv'
  BY <1>3, <1>f, <1>u DEF PushBlock, PushSpuriousWakeup, InPush
<1>4. ASSUME NEW r \in Readers, SignalCompleted(r) \/ NotifyObserver(r) \/ ReaderExit(r)
      PROVE  OrderInv'
  BY <1>4, <1>f, <1>u, ReaderList DEF SignalCompleted, NotifyObserver, ReaderExit, InPush
<1>5. CASE ConsumerTest \/ StopNotify \/ ForceClear
  <2>1. UNCHANGED <<nextBatch, accepted>> /\ (ppc' = ppc \/ ppc' = ProducersWoken)
    BY <1>5 DEF ConsumerTest, StopNotify, ForceClear
  <2> QED
    BY <1>f, <1>t, <2>1, WakeTypes DEF InPush
<1>6. CASE StartWriters \/ StopProcessors \/ StartReader
  BY <1>6, <1>f, <1>u DEF StartWriters, StopProcessors, StartReader, InPush
<1> QED
  BY <1>0, <1>1, <1>2, <1>3, <1>4, <1>5, <1>6, BusSteps

\* Every step keeps a begun forceStop() visible.
LEMMA ForceInvStep == ASSUME ForceInv, [Next]_vars PROVE ForceInv'
  BY LifeSteps
     DEF ForceInv, lifeVars, CloseAfterLast, MainStop, MainReturn, StartWriters, StartReader,
         RegisterReader, ObserveReader, RecheckReader, StartFails, BuildRoutes, StartConsumer, StopRunning,
         StopClear, StopCleared, StopNotify, StopJoin, StopProcessors, StopWriters, ForceBegin,
         ForceRunning, ForceClear

\* Moving batches between the ends of two deques, seen as one.
LEMMA JoinedDeques ==
  ASSUME NEW s \in Seq(Batches), NEW t \in Seq(Batches)
  PROVE  /\ s \o t \in Seq(Batches)
         /\ Len(s \o t) = Len(s) + Len(t)
         /\ <<>> \o t = t /\ s \o <<>> = s
         /\ \A b \in Batches : s \o Append(t, b) = Append(s \o t, b)
         /\ s # <<>> => Head(s \o t) = Head(s) /\ Tail(s \o t) = Tail(s) \o t
         /\ SubSeq(s \o t, 1, Len(s)) = s
         /\ SubSeq(s \o t, Len(s) + 1, Len(s \o t)) = t
<1>1. s \o t \in Seq(Batches) /\ Len(s \o t) = Len(s) + Len(t)
  OBVIOUS
<1>2. <<>> \o t = t /\ s \o <<>> = s
  OBVIOUS
<1>3. ASSUME NEW b \in Batches PROVE s \o Append(t, b) = Append(s \o t, b)
  OBVIOUS
<1>4. ASSUME s # <<>> PROVE Head(s \o t) = Head(s) /\ Tail(s \o t) = Tail(s) \o t
  BY <1>4
<1>5. SubSeq(s \o t, 1, Len(s)) = s
  OBVIOUS
<1>6. SubSeq(s \o t, Len(s) + 1, Len(s \o t)) = t
  OBVIOUS
<1> QED
  BY <1>1, <1>2, <1>3, <1>4, <1>5, <1>6

\* Every step of the controller is a step of the bus, or changes nothing the bus shows.
LEMMA BusStep ==
  ASSUME TypeInv, BusBound, OrderInv, ForceInv, WritersOutliveConsumer, [Next]_vars
  PROVE  [Bus!Next]_(Bus!busVars)
<1> DEFINE all == local \o queue
<1>t. /\ queue \in Seq(Batches) /\ local \in Seq(Batches)
      /\ nextBatch \in [Producers -> 0 .. MaxBatches]
      /\ QueueCapacity \in Nat
  BY ConstantTypes DEF TypeInv, TypeOK, BusTypes, ConsumerTypes
<1>s. ASSUME UNCHANGED <<accepted, queue, local, flight, todo, delivered, forceQuit>>
      PROVE  [Bus!Next]_(Bus!busVars)
  BY <1>s DEF Bus!busVars
<1>1. ASSUME NEW p \in Producers, PushTest(p) PROVE [Bus!Next]_(Bus!busVars)
  <2> DEFINE b == <<p, nextBatch[p]>>
  <2>0. UNCHANGED <<local, flight, todo, delivered, forceQuit>>
    BY <1>1 DEF PushTest, lifeVars
  <2>1. CASE UNCHANGED <<queue, accepted>>
    BY <1>s, <2>0, <2>1
  <2>2. CASE /\ Len(queue) < QueueCapacity
             /\ queue' = Append(queue, b)
             /\ accepted' = accepted \cup {b}
    <3>1. b \in Batches
      BY <1>1, NewBatchType DEF PushTest
    <3>2. \A a \in accepted : a[1] = b[1] => a[2] < b[2]
      BY <1>1 DEF PushTest, OrderInv, InPush
    <3>3. Len(all) < 2 * QueueCapacity
      BY <1>t, <2>2, JoinedDeques DEF BusBound
    <3>4. all' = Append(all, b)
      BY <1>t, <2>0, <2>2, <3>1, JoinedDeques, SMTT(30)
    <3>5. Bus!Accept(b)
      BY <2>0, <2>2, <3>2, <3>3, <3>4 DEF Bus!Accept
    <3> QED
      BY <3>1, <3>5 DEF Bus!Next
  <2> QED
    BY <1>1, <2>1, <2>2 DEF PushTest
<1>2. CASE ConsumerTest
  <2>1. /\ UNCHANGED <<accepted, flight, todo, delivered, forceQuit>>
        /\ UNCHANGED <<queue, local>> \/ (local' = queue /\ queue' = <<>>)
        /\ local = <<>>
    BY <1>2 DEF ConsumerTest, lifeVars, TypeInv, FlightInv
  <2>2. all' = all
    BY <1>t, <2>1, JoinedDeques
  <2> QED
    BY <2>1, <2>2 DEF Bus!busVars
<1>3. CASE DispatchBegin
  <2>1. local # <<>> /\ writersUp
    BY <1>3 DEF DispatchBegin, WritersOutliveConsumer
  <2>2. all # <<>> /\ Head(all) = Head(local)
    BY <1>t, <2>1, JoinedDeques
  <2>3. Bus!Offer
    BY <1>3, <2>1, <2>2 DEF DispatchBegin, Bus!Offer, busVars, lifeVars
  <2> QED
    BY <2>3 DEF Bus!Next
<1>4. ASSUME NEW w \in Writers, WriterPush(w) PROVE [Bus!Next]_(Bus!busVars)
  <2>1. local # <<>>
    BY <1>4 DEF WriterPush, TypeInv, FlightInv
  <2>2. Head(all) = Head(local)
    BY <1>t, <2>1, JoinedDeques
  <2>3. Bus!Deliver(w)
    BY <1>4, <2>2 DEF WriterPush, Bus!Deliver, busVars, lifeVars
  <2> QED
    BY <2>3 DEF Bus!Next
<1>5. CASE DispatchEnd
  <2>1. local # <<>> /\ local' = Tail(local) /\ queue' = queue
    BY <1>5 DEF DispatchEnd, TypeInv, FlightInv, busVars
  <2>2. all' = Tail(all)
    BY <1>t, <2>1, JoinedDeques
  <2>3. Bus!Retire
    BY <1>5, <2>2 DEF DispatchEnd, Bus!Retire, busVars, lifeVars
  <2> QED
    BY <2>3 DEF Bus!Next
<1>6. ASSUME NEW m \in 1 .. Len(all) + 1, NEW n \in 0 .. Len(all),
             forceQuit, flight => m = 1 /\ n >= 1, all' = SubSeq(all, m, n),
             UNCHANGED <<accepted, flight, todo, delivered, forceQuit>>
      PROVE  [Bus!Next]_(Bus!busVars)
  <2>1. Bus!Discard
    BY <1>6 DEF Bus!Discard
  <2> QED
    BY <2>1 DEF Bus!Next
<1>7. CASE DispatchDone
  <2>0. /\ local' = <<>> /\ queue' = queue /\ ~flight
        /\ UNCHANGED <<accepted, flight, todo, delivered, forceQuit>>
    BY <1>7 DEF DispatchDone, busVars, lifeVars
  <2>1. CASE local = <<>>
    BY <1>s, <2>0, <2>1
  <2>2. CASE forceQuit
    <3>1. all' = SubSeq(all, Len(local) + 1, Len(all))
      BY <1>t, <2>0, JoinedDeques
    <3>2. Len(local) + 1 \in 1 .. Len(all) + 1 /\ Len(all) \in 0 .. Len(all)
      BY <1>t, JoinedDeques
    <3> HIDE DEF all
    <3> QED
      BY <1>6, <2>0, <2>2, <3>1, <3>2
  <2> QED
    BY <1>7, <2>1, <2>2 DEF DispatchDone
<1>8. CASE ForceClear
  <2>0. /\ local' = local /\ queue' = <<>> /\ forceQuit
        /\ UNCHANGED <<accepted, flight, todo, delivered, forceQuit>>
    BY <1>8 DEF ForceClear, ForceInv
  <2>1. all' = SubSeq(all, 1, Len(local))
    BY <1>t, <2>0, JoinedDeques
  <2>2. 1 \in 1 .. Len(all) + 1 /\ Len(local) \in 0 .. Len(all)
    BY <1>t, JoinedDeques
  <2>3. flight => Len(local) >= 1
    BY <1>t DEF TypeInv, FlightInv
  <2> HIDE DEF all
  <2> QED
    BY <1>6, <2>0, <2>1, <2>2, <2>3
<1>9. CASE ForceBegin
  <2>1. Bus!ForceStop
    BY <1>9 DEF ForceBegin, Bus!ForceStop, busVars, consumerVars
  <2> QED
    BY <2>1 DEF Bus!Next
<1>10. ASSUME NEW p \in Producers,
              PushRejected(p) \/ PushBegin(p) \/ PushBlock(p) \/ PushSpuriousWakeup(p)
       PROVE  [Bus!Next]_(Bus!busVars)
  BY <1>10, <1>s
     DEF PushRejected, PushBegin, PushBlock, PushSpuriousWakeup, consumerVars, lifeVars
<1>11. ASSUME NEW r \in Readers,
              SignalCompleted(r) \/ NotifyObserver(r) \/ ReaderExit(r) \/ RemoveCompletedReader(r)
                \/ CloseAfterLast(r) \/ StopJoinReader(r)
       PROVE  [Bus!Next]_(Bus!busVars)
  BY <1>11, <1>s
     DEF SignalCompleted, NotifyObserver, ReaderExit, RemoveCompletedReader, CloseAfterLast,
         StopJoinReader, busVars, consumerVars, lifeVars
<1>12. CASE \/ ConsumerBlock \/ ConsumerSpuriousWakeup \/ StartWriters \/ StartReader
            \/ RegisterReader \/ ObserveReader \/ RecheckReader \/ StartFails \/ BuildRoutes \/ StartConsumer
            \/ UNCHANGED vars
  BY <1>12, <1>s
     DEF ConsumerBlock, ConsumerSpuriousWakeup, StartWriters, StartReader, RegisterReader,
         ObserveReader, RecheckReader, StartFails, BuildRoutes, StartConsumer, vars, busVars, consumerVars,
         lifeVars
<1>13. CASE \/ MainStop \/ MainReturn \/ StopRunning \/ StopClear \/ StopCleared \/ StopNotify
            \/ StopJoin \/ StopProcessors \/ StopWriters \/ ForceRunning
  BY <1>13, <1>s
     DEF MainStop, MainReturn, StopRunning, StopClear, StopCleared, StopNotify, StopJoin,
         StopProcessors, StopWriters, ForceRunning, busVars, consumerVars, lifeVars
<1> QED
  BY <1>1, <1>2, <1>3, <1>4, <1>5, <1>7, <1>8, <1>9, <1>10, <1>11, <1>12, <1>13
     DEF Next, ProducerStep, ReaderStep, ReaperStep, ConsumerStep, StartStep, StopStep, ForceStep,
         Terminated

\* What a step of the bus needs to know of the state before it.
BusContext ==
  /\ TypeInv /\ BusBound /\ OrderInv /\ ForceInv
  /\ Unhurried => WritersOutliveConsumer

LEMMA BusContextHolds == Spec => []BusContext
<1>1. Init => OrderInv /\ ForceInv
  BY DEF Init, OrderInv, ForceInv
<1>2. TypeInv /\ OrderInv /\ ForceInv /\ [Next]_vars => TypeInv' /\ OrderInv' /\ ForceInv'
  BY TypeInvStep, OrderStep, ForceInvStep
<1>3. /\ TypeInv /\ OrderInv /\ ForceInv /\ BusBound /\ (Unhurried => WritersOutliveConsumer)
      => BusContext
  BY DEF BusContext
<1> QED
  BY <1>1, <1>2, <1>3, TypeInvInit, BusIsBounded, WritersStopLast, PTL DEF Spec

\* A controller that no stop() overtakes in start() is the event bus that IDataBus promises:
\* every behaviour of it is a behaviour of EventBus.
THEOREM Refinement == Spec /\ []Unhurried => ImplementsBus
<1>1. Init => Bus!Init
  BY JoinedDeques DEF Init, Bus!Init
<1>2. BusContext /\ Unhurried /\ [Next]_vars => [Bus!Next]_(Bus!busVars)
  BY BusStep DEF BusContext
<1> QED
  BY <1>1, <1>2, BusContextHolds, PTL DEF Spec, ImplementsBus, Bus!Spec

-----------------------------------------------------------------------------
(* What the refinement carries over from EventBus *)

BusTheorems == INSTANCE EventBusProofs WITH
  pending <- local \o queue,
  forced <- forceQuit,
  Bound <- 2 * QueueCapacity

\* The batches of the controller are numbered and routed to its writers.
LEMMA BatchesNumbered == BusTheorems!Numbered
  BY ConstantTypes DEF BusTheorems!Numbered, Batches

\* The two instances of EventBus are one.
LEMMA SameBus ==
  /\ Bus!Init => BusTheorems!Init
  /\ [Bus!Next]_(Bus!busVars) => [BusTheorems!Next]_(BusTheorems!busVars)
<1>1. Bus!Init => BusTheorems!Init
  BY DEF Bus!Init, BusTheorems!Init
<1>2. [Bus!Next]_(Bus!busVars) => [BusTheorems!Next]_(BusTheorems!busVars)
  BY DEF Bus!Next, Bus!busVars, Bus!Accept, Bus!Offer, Bus!Deliver, Bus!Retire, Bus!ForceStop,
         Bus!Discard, BusTheorems!Next, BusTheorems!busVars, BusTheorems!Accept,
         BusTheorems!Offer, BusTheorems!Deliver, BusTheorems!Retire, BusTheorems!ForceStop,
         BusTheorems!Discard
<1> QED
  BY <1>1, <1>2

\* The invariant of the abstract bus holds of the controller until a stop() overtakes start().
THEOREM AbstractInvariant == Spec => [](Unhurried => BusTheorems!BusInv)
<1>1. Init => (Unhurried => BusTheorems!BusInv)
  <2>1. Init => Bus!Init
    BY JoinedDeques DEF Init, Bus!Init
  <2> QED
    BY <2>1, SameBus, BusTheorems!BusInvInit
<1>2. BusTheorems!BusInv /\ [BusTheorems!Next]_(BusTheorems!busVars) => BusTheorems!BusInv'
  BY BusTheorems!BusInvStep, BatchesNumbered
<1>3. BusContext /\ (Unhurried => BusTheorems!BusInv) /\ [Next]_vars
        => (Unhurried' => BusTheorems!BusInv')
  <2> SUFFICES ASSUME BusContext, Unhurried => BusTheorems!BusInv, [Next]_vars, Unhurried'
               PROVE  BusTheorems!BusInv'
    OBVIOUS
  <2>1. Unhurried
    BY EarlyGrows DEF Unhurried
  <2>2. [Bus!Next]_(Bus!busVars)
    BY <2>1, BusStep DEF BusContext
  <2>3. [BusTheorems!Next]_(BusTheorems!busVars)
    BY <2>2, SameBus
  <2> QED
    BY <1>2, <2>1, <2>3
<1> QED
  BY <1>1, <1>3, BusContextHolds, PTL DEF Spec

\* No batch that push() accepted is lost: it waits in one of the deques or has been handed
\* to every selected writer, unless forceStop() was called or stop() overtook start().
THEOREM NeverLost == Spec => [](Unhurried => NoBatchLost)
<1>1. TypeInv /\ BusTheorems!BusInv => NoBatchLost
  <2> SUFFICES ASSUME TypeInv, BusTheorems!BusInv, NEW b \in accepted
               PROVE  \/ b \in ToSet(local) \cup ToSet(queue)
                      \/ \A w \in Accepts[b[1]] : b \in ToSet(delivered[w])
                      \/ forceQuit
    BY DEF NoBatchLost
  <2>t. /\ local \in Seq(Batches) /\ queue \in Seq(Batches)
        /\ delivered \in [Writers -> Seq(Batches)]
        /\ \A w \in Accepts[b[1]] : w \in Writers
    BY AcceptedType, ConstantTypes DEF TypeInv, TypeOK, BusTypes, ConsumerTypes
  <2>1. CASE BusTheorems!IsPending(b)
    <3>1. PICK k \in 1 .. Len(local \o queue) : (local \o queue)[k] = b
      BY <2>1 DEF BusTheorems!IsPending
    <3>2. CASE k <= Len(local)
      BY <2>t, <3>1, <3>2 DEF ToSet
    <3>3. CASE k > Len(local)
      <4>1. k - Len(local) \in 1 .. Len(queue) /\ queue[k - Len(local)] = b
        BY <2>t, <3>1, <3>3
      <4> QED
        BY <2>t, <4>1 DEF ToSet
    <3> QED
      BY <2>t, <3>1, <3>2, <3>3
  <2>2. ASSUME NEW w \in Accepts[b[1]], BusTheorems!IsDelivered(b, w)
        PROVE  b \in ToSet(delivered[w])
    BY <2>t, <2>2 DEF BusTheorems!IsDelivered, ToSet
  <2> QED
    BY <2>1, <2>2 DEF BusTheorems!BusInv, BusTheorems!NoneLost
<1> QED
  BY <1>1, TypeInvariant, AbstractInvariant, PTL

\* Every writer is given the batches of one producer in the order of their push(), and
\* none of them twice, as long as stop() has not overtaken start().
THEOREM DeliveredInOrder == Spec => [](Unhurried => DeliveryOrder)
<1>1. BusTheorems!BusInv => DeliveryOrder
  BY DEF BusTheorems!BusInv, BusTheorems!InOrder, DeliveryOrder
<1> QED
  BY <1>1, AbstractInvariant, PTL

\* After a stop() that was not forced and did not overtake start(), every batch ever accepted
\* has been handed to its writers.
THEOREM StopDrains == Spec => []StopDrainsBus
<1>1. TypeInv /\ LifeInv /\ (Unhurried => NoBatchLost) => StopDrainsBus
  <2> SUFFICES ASSUME TypeInv, LifeInv, NoBatchLost, stopPc = "done", ~forceQuit, Unhurried
               PROVE  Drained
    BY DEF StopDrainsBus
  <2>1. local = <<>> /\ queue = <<>>
    BY DEF LifeInv, ShutdownInv, TypeInv, FlightInv
  <2>2. ToSet(local) \cup ToSet(queue) = {}
    BY <2>1 DEF ToSet
  <2> QED
    BY <2>2 DEF NoBatchLost, Drained
<1> QED
  BY <1>1, LifeInvariant, NeverLost, PTL

-----------------------------------------------------------------------------
(* The two ways a controller goes down by itself *)

\* forceStop() has switched the bus off before it empties it.
ForcedInv ==
  /\ forcePc # "none" => startPc # "idle"
  /\ forcePc \in {"clear", "done"} => ~running
  /\ forcePc = "done" => queue = <<>>

\* Every step keeps a forced bus off and empty.
LEMMA ForcedStep == ASSUME ForcedInv, [Next]_vars PROVE ForcedInv'
<1>1. forcePc' # "none" => startPc' # "idle"
  BY LifeSteps
     DEF ForcedInv, lifeVars, CloseAfterLast, MainStop, MainReturn, StartWriters, StartReader,
         RegisterReader, ObserveReader, RecheckReader, StartFails, BuildRoutes, StartConsumer, StopRunning,
         StopClear, StopCleared, StopNotify, StopJoin, StopProcessors, StopWriters, ForceBegin,
         ForceRunning, ForceClear
<1>2. forcePc' \in {"clear", "done"} => ~running'
  BY LifeSteps
     DEF ForcedInv, lifeVars, CloseAfterLast, MainStop, MainReturn, StartWriters, StartReader,
         RegisterReader, ObserveReader, RecheckReader, StartFails, BuildRoutes, StartConsumer, StopRunning,
         StopClear, StopCleared, StopNotify, StopJoin, StopProcessors, StopWriters, ForceBegin,
         ForceRunning, ForceClear
<1>3. ASSUME forcePc' = "done" PROVE queue' = <<>>
  <2>1. CASE ForceClear
    BY <2>1 DEF ForceClear
  <2>2. CASE forcePc = "done"
    BY <2>2, BusSteps
       DEF ForcedInv, busVars, PushRejected, PushBegin, PushTest, PushBlock, PushSpuriousWakeup,
           SignalCompleted, NotifyObserver, ReaderExit, ConsumerTest, StartWriters, StartReader,
           StopNotify, StopProcessors, ForceClear
  <2> QED
    BY <1>3, <2>1, <2>2, LifeSteps
       DEF lifeVars, CloseAfterLast, MainStop, MainReturn, StartWriters, StartReader,
           RegisterReader, ObserveReader, RecheckReader, StartFails, BuildRoutes, StartConsumer, StopRunning,
           StopClear, StopCleared, StopNotify, StopJoin, StopProcessors, StopWriters, ForceBegin,
           ForceRunning
<1> QED
  BY <1>1, <1>2, <1>3 DEF ForcedInv

\* After forceStop() has returned no push() gets a batch into queue_, whoever was waiting
\* for room or about to append.
THEOREM ForcedStaysEmpty == Spec => []ForcedQueueStaysEmpty
<1>1. Init => ForcedInv
  BY DEF Init, ForcedInv
<1>2. ForcedInv => ForcedQueueStaysEmpty
  BY DEF ForcedInv, ForcedQueueStaysEmpty
<1>3. ForcedInv /\ [Next]_vars => ForcedInv'
  BY ForcedStep
<1> QED
  BY <1>1, <1>2, <1>3, PTL DEF Spec

AllRegistered == \A i \in ReaderIndices : Registered(i)

\* A reader leaves readers_ of a controller nobody stops only by completing, and a thread that
\* goes on to stop() has seen readers_ empty for good, unless start() was still filling it.
CloseInv ==
  /\ stopPc = "none" =>
       \A i \in ReaderIndices : Registered(i) => ReaderOrder[i] \in readers \cup completed
  /\ closers # {} /\ "emptied" \notin early => AllRegistered /\ readers = {}
  /\ AutoCloseOnlyWhenAllComplete

\* start() goes through its readers from the first to the last: it forgets none, and puts into
\* readers_ the one it has just created.
LEMMA RegisteredStep ==
  ASSUME TypeInv, [Next]_vars, NEW i \in ReaderIndices
  PROVE  /\ Registered(i) => Registered(i)'
         /\ Registered(i)' => Registered(i) \/ (RegisterReader /\ i = nextReader)
<1>t. i \in Nat /\ nextReader \in Nat
  BY ReaderList DEF TypeInv, TypeOK, LifeTypes
<1>1. CASE RecheckReader
  BY <1>1, <1>t DEF RecheckReader, Registered
<1>2. CASE StartWriters \/ StartReader \/ StartFails \/ BuildRoutes \/ StartConsumer
  <2>1. nextReader' = nextReader
    BY <1>2 DEF StartWriters, StartReader, StartFails, BuildRoutes, StartConsumer
  <2>2. /\ startPc \notin {"observe", "recheck"}
        /\ startPc' \notin {"observe", "recheck"}
    BY <1>2 DEF StartWriters, StartReader, StartFails, BuildRoutes, StartConsumer
  <2> QED
    BY <2>1, <2>2 DEF Registered
<1>3. CASE RegisterReader \/ ObserveReader
  BY <1>3 DEF RegisterReader, ObserveReader, Registered
<1>4. CASE UNCHANGED <<startPc, nextReader>>
  BY <1>4 DEF Registered
<1> QED
  BY <1>1, <1>2, <1>3, <1>4, LifeSteps
     DEF lifeVars, CloseAfterLast, MainStop, MainReturn, StopRunning, StopClear, StopCleared,
         StopNotify, StopJoin, StopProcessors, StopWriters, ForceBegin, ForceRunning, ForceClear

\* Every step keeps readers_ and the completions in step.
LEMMA CloseStep ==
  ASSUME TypeInv, LifeInv, CloseInv, [Next]_vars
  PROVE  CloseInv'
<1>t. /\ readers \subseteq Readers /\ completed \subseteq Readers /\ closers \subseteq Readers
      /\ nextReader \in Nat
  BY ConstantTypes, ReaderList DEF TypeInv, TypeOK, ReaderTypes, LifeTypes
<1>1. completed \subseteq completed'
  BY ReaderSteps
     DEF readerVars, RegisterReader, ObserveReader, RecheckReader, SignalCompleted, NotifyObserver,
         RemoveCompletedReader, CloseAfterLast, StopJoinReader, MainStop
<1>2. early \subseteq early'
  BY EarlyGrows
\* A reader that is erased while nobody stops the controller has completed.
<1>3. ASSUME stopPc = "none" PROVE readers \subseteq readers' \cup completed'
  <2>1. \A r \in Readers : ~Destroying(r)
    BY <1>3 DEF Destroying, LifeInv, StopInv
  <2>2. ASSUME NEW r \in Readers, RemoveCompletedReader(r)
        PROVE  readers \subseteq readers' \cup completed'
    BY <2>2 DEF RemoveCompletedReader, LifeInv, CompletionInv
  <2>3. CASE readers \subseteq readers'
    BY <2>3
  <2> QED
    BY <2>1, <2>2, <2>3, ReaderSteps
       DEF readerVars, RegisterReader, ObserveReader, RecheckReader, SignalCompleted,
           NotifyObserver, CloseAfterLast, StopJoinReader, MainStop
<1>4. ASSUME stopPc' = "none", NEW i \in ReaderIndices, Registered(i)'
      PROVE  ReaderOrder[i] \in readers' \cup completed'
  <2>1. stopPc = "none"
    BY <1>4, LifeSteps
       DEF lifeVars, CloseAfterLast, MainStop, MainReturn, StartWriters, StartReader, RegisterReader,
           ObserveReader, RecheckReader, StartFails, BuildRoutes, StartConsumer, StopRunning,
           StopClear, StopCleared, StopNotify, StopJoin, StopProcessors, StopWriters, ForceBegin,
           ForceRunning, ForceClear
  <2>2. CASE Registered(i)
    BY <1>1, <1>3, <2>1, <2>2 DEF CloseInv
  <2>3. CASE RegisterReader /\ i = nextReader
    BY <2>3 DEF RegisterReader
  <2> QED
    BY <1>4, <2>2, <2>3, RegisteredStep
<1>5. ASSUME closers' # {}, "emptied" \notin early' PROVE AllRegistered' /\ readers' = {}
  <2>0. "emptied" \notin early
    BY <1>2, <1>5
  <2>1. ASSUME AllRegistered PROVE AllRegistered' /\ ~RegisterReader
    <3>1. AllRegistered'
      BY <2>1, RegisteredStep DEF AllRegistered
    <3>2. CASE RegisterReader
      <4>1. nextReader \in ReaderIndices /\ startPc = "register"
        BY <3>2, CurrentReader DEF RegisterReader
      <4>2. Registered(nextReader)
        BY <2>1, <4>1 DEF AllRegistered
      <4> QED
        BY <1>t, <4>1, <4>2 DEF Registered
    <3> QED
      BY <3>1, <3>2
  <2>2. ASSUME NEW r \in Readers, RemoveCompletedReader(r) PROVE AllRegistered' /\ readers' = {}
    <3>1. CASE UNCHANGED <<closers, early>>
      <4>1. AllRegistered /\ readers = {}
        BY <1>5, <2>0, <3>1 DEF CloseInv
      <4> QED
        BY <2>1, <2>2, <4>1 DEF RemoveCompletedReader
    <3>2. CASE readers' = {} /\ early' = EmptiedNow
      <4>1. AllRegistered
        BY <1>5, <3>2 DEF EmptiedNow, AllRegistered, ReaderIndices
      <4> QED
        BY <2>1, <3>2, <4>1
    <3> QED
      BY <2>2, <3>1, <3>2 DEF RemoveCompletedReader
  <2>3. CASE closers' \subseteq closers /\ (readers' \subseteq readers \/ RegisterReader)
    <3>1. AllRegistered /\ readers = {}
      BY <1>5, <2>0, <2>3 DEF CloseInv
    <3> QED
      BY <2>1, <2>3, <3>1
  <2> QED
    BY <2>2, <2>3, ReaderSteps
       DEF readerVars, RegisterReader, ObserveReader, RecheckReader, SignalCompleted,
           NotifyObserver, CloseAfterLast, StopJoinReader, MainStop
<1>6. ASSUME autoClosed', "emptied" \notin early' PROVE completed' = Readers
  <2>0. "emptied" \notin early
    BY <1>2, <1>6
  <2>1. completed' \subseteq Readers
    BY ConstantTypes, ReaderTypesStep DEF ReaderTypes
  <2>2. CASE autoClosed
    BY <1>1, <2>0, <2>1, <2>2 DEF CloseInv, AutoCloseOnlyWhenAllComplete
  <2>3. ASSUME NEW r \in Readers, CloseAfterLast(r), stopPc = "none" PROVE completed' = Readers
    <3>1. AllRegistered /\ readers = {}
      BY <2>0, <2>3 DEF CloseAfterLast, CloseInv
    <3>2. \A i \in ReaderIndices : ReaderOrder[i] \in completed
      BY <2>3, <3>1 DEF CloseInv, AllRegistered
    <3>3. Readers \subseteq completed
      BY <3>2, ReaderList
    <3> QED
      BY <1>1, <2>1, <3>3
  <2> QED
    BY <1>6, <2>2, <2>3, LifeSteps
       DEF lifeVars, CloseAfterLast, MainStop, MainReturn, StartWriters, StartReader, RegisterReader,
           ObserveReader, RecheckReader, StartFails, BuildRoutes, StartConsumer, StopRunning,
           StopClear, StopCleared, StopNotify, StopJoin, StopProcessors, StopWriters, ForceBegin,
           ForceRunning, ForceClear
<1> QED
  BY <1>4, <1>5, <1>6 DEF CloseInv, AutoCloseOnlyWhenAllComplete

\* The controller stops itself only after all its readers have completed, whatever completes
\* before start() has returned, unless a completion emptied readers_ before start() had filled it.
THEOREM ClosesOnlyWhenComplete == Spec => []AutoCloseOnlyWhenAllComplete
<1>1. Init => CloseInv
  <2> SUFFICES ASSUME Init PROVE CloseInv
    OBVIOUS
  <2>1. \A i \in ReaderIndices : ~Registered(i)
    BY ReaderList DEF Init, Registered, ReaderIndices
  <2>2. closers = {} /\ autoClosed = FALSE
    BY DEF Init
  <2> QED
    BY <2>1, <2>2 DEF CloseInv, AutoCloseOnlyWhenAllComplete
<1>2. CloseInv => AutoCloseOnlyWhenAllComplete
  BY DEF CloseInv
<1>3. TypeInv /\ LifeInv /\ CloseInv /\ [Next]_vars => CloseInv'
  BY CloseStep
<1> QED
  BY <1>1, <1>2, <1>3, LifeInvariant, PTL DEF Spec
=============================================================================
