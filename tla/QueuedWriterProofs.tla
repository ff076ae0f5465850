------------------------- MODULE QueuedWriterProofs -------------------------
(* Proofs about QueuedWriter, for every number of pushers, workers and items. *)
EXTENDS QueuedWriter, FiniteSetTheorems, TLAPS

USE DEF Channels, RoundRobin, PusherPoints, WorkerPoints

\* Inside the loop of push() an item is left to take up.
PushProgress ==
  \A p \in Pushers :
    /\ nextItem[p] <= lastItem[p]
    /\ ppc[p] \notin {"idle", "count"} => nextItem[p] < lastItem[p]

\* A worker owns an item from the pop to the end of processItem(), and only then.
HeldWhenBusy ==
  \A w \in Channels : wpc[w] \in {"popped", "counted", "processing"} <=> held[w] # NoItem

TypeInv == TypeOK /\ PushProgress /\ HeldWhenBusy

-----------------------------------------------------------------------------
\* The number of pushers is a natural number.
LEMMA PusherCount == IsFiniteSet(Pushers) /\ Cardinality(Pushers) \in Nat \ {0}
  BY QueuedWriterAssumption, FS_CardinalityType, FS_EmptySet

\* The arithmetic facts about the constants, apart from the rest of the assumption.
LEMMA ConstantTypes ==
  NumWorkers \in Nat \ {0} /\ CounterModulus \in Nat \ {0} /\ MaxItems \in Nat
  BY PusherCount, QueuedWriterAssumption

\* The placeholder of an empty-handed worker is no item.
LEMMA NoItemIsNone == NoItem \notin Items
  BY QueuedWriterAssumption

\* The channel an item is appended to exists.
LEMMA TargetChannelType ==
  ASSUME TypeOK, NEW p \in Pushers
  PROVE  /\ TargetChannel(p) \in Channels
         /\ (nextChannel + 1) % NumWorkers \in Channels
  BY QueuedWriterAssumption DEF TypeOK, TargetChannel

\* A pusher that has room appends an item that is within its bound.
LEMMA NewItemType ==
  ASSUME TypeInv, NEW p \in Pushers, ppc[p] = "enqueue"
  PROVE  <<p, nextItem[p] + 1>> \in Items
<1>1. nextItem[p] \in 0 .. MaxItems /\ lastItem[p] \in 0 .. MaxItems
  BY DEF TypeInv, TypeOK
<1>2. nextItem[p] < lastItem[p]
  BY DEF TypeInv, PushProgress
<1>3. nextItem[p] + 1 \in 1 .. MaxItems
  BY <1>1, <1>2, ConstantTypes
<1> QED
  BY <1>3 DEF Items

\* The front of a non-empty deque is an item and the rest is a deque.
LEMMA FrontType ==
  ASSUME TypeOK, NEW w \in Channels, chan[w] # <<>>
  PROVE  Head(chan[w]) \in Items /\ Tail(chan[w]) \in Seq(Items)
<1>1. chan[w] \in Seq(Items)
  BY DEF TypeOK
<1> QED
  BY <1>1

\* Leaving push() keeps the pusher's own variables in their types.
LEMMA ReturnType ==
  ASSUME TypeInv, NEW p \in Pushers, NEW ok \in BOOLEAN, Return(p, ok)
  PROVE  /\ ppc' \in [Pushers -> PusherPoints]
         /\ nextItem' \in [Pushers -> 0 .. MaxItems]
         /\ refused' \in [Pushers -> BOOLEAN]
         /\ UNCHANGED <<lastItem, enqueued>>
         /\ PushProgress'
<1>1. refused' \in [Pushers -> BOOLEAN]
  BY DEF Return, TypeInv, TypeOK
<1>2. PushProgress'
  BY ConstantTypes DEF Return, TypeInv, TypeOK, PushProgress
<1> QED
  BY <1>1, <1>2 DEF Return, TypeInv, TypeOK

\* TypeInv is inductive.
LEMMA TypeInvInit == Init => TypeInv
<1>1. Init => TypeOK
  BY ConstantTypes DEF Init, TypeOK
<1>2. Init => PushProgress /\ HeldWhenBusy
  BY DEF Init, PushProgress, HeldWhenBusy
<1> QED
  BY <1>1, <1>2 DEF TypeInv

\* Every step keeps the types.
LEMMA TypeInvStep == TypeInv /\ [Next]_vars => TypeInv'
<1> SUFFICES ASSUME TypeInv, [Next]_vars PROVE TypeInv'
  OBVIOUS
<1> USE ConstantTypes DEF TypeInv, pushVars, workVars, lifeVars
<1>1. ASSUME NEW p \in Pushers, PushRejected(p) PROVE TypeInv'
  BY <1>1 DEF PushRejected, TypeOK, PushProgress, HeldWhenBusy
<1>2. ASSUME NEW p \in Pushers, NEW n \in 1 .. MaxItems, PushBegin(p, n) PROVE TypeInv'
  BY <1>2 DEF PushBegin, TypeOK, PushProgress, HeldWhenBusy
<1>3. ASSUME NEW p \in Pushers, PushTest(p) PROVE TypeInv'
  BY <1>3 DEF PushTest, TypeOK, PushProgress, HeldWhenBusy
<1>4. ASSUME NEW p \in Pushers, PushBlock(p) PROVE TypeInv'
  BY <1>4 DEF PushBlock, TypeOK, PushProgress, HeldWhenBusy
<1>5. ASSUME NEW p \in Pushers, PushSpuriousWakeup(p) PROVE TypeInv'
  BY <1>5 DEF PushSpuriousWakeup, TypeOK, PushProgress, HeldWhenBusy
<1>6. ASSUME NEW p \in Pushers, PushTimeout(p) PROVE TypeInv'
  <2>1. CASE Return(p, FALSE)
    BY <1>6, <2>1, ReturnType DEF PushTimeout, TypeOK, HeldWhenBusy
  <2>2. CASE ppc' = [ppc EXCEPT ![p] = "admitted"] /\ UNCHANGED <<nextItem, lastItem, enqueued, refused>>
    BY <1>6, <2>2 DEF PushTimeout, TypeOK, PushProgress, HeldWhenBusy
  <2> QED
    BY <1>6, <2>1, <2>2 DEF PushTimeout
<1>7. ASSUME NEW p \in Pushers, PushRecheck(p) PROVE TypeInv'
  <2>0. enqueued[p] \in BOOLEAN
    BY DEF TypeOK
  <2>1. CASE Return(p, enqueued[p])
    BY <1>7, <2>0, <2>1, ReturnType DEF PushRecheck, TypeOK, HeldWhenBusy
  <2>2. CASE ppc' = [ppc EXCEPT ![p] = "enqueue"] /\ UNCHANGED <<nextItem, lastItem, enqueued, refused>>
    BY <1>7, <2>2 DEF PushRecheck, TypeOK, PushProgress, HeldWhenBusy
  <2> QED
    BY <1>7, <2>1, <2>2 DEF PushRecheck
<1>8. ASSUME NEW p \in Pushers, PushEnqueue(p) PROVE TypeInv'
  <2> DEFINE c == TargetChannel(p)
             item == <<p, nextItem[p] + 1>>
  <2>1. c \in Channels /\ nextChannel' \in Channels
    BY <1>8, TargetChannelType DEF PushEnqueue, TypeOK
  <2>2. item \in Items
    BY <1>8, NewItemType DEF PushEnqueue
  <2> HIDE DEF c, item
  <2>3. chan' \in [Channels -> Seq(Items)]
    <3>1. chan[c] \in Seq(Items) /\ Append(chan[c], item) \in Seq(Items)
      BY <2>1, <2>2 DEF TypeOK
    <3>2. chan' = [chan EXCEPT ![c] = Append(chan[c], item)]
      BY <1>8 DEF PushEnqueue, c, item
    <3> QED
      BY <3>1, <3>2, <2>1 DEF TypeOK
  <2>4. accepted' \subseteq Items
    BY <1>8, <2>2 DEF PushEnqueue, TypeOK, item
  <2>5. /\ wpc' \in [Channels -> WorkerPoints]
        /\ HeldWhenBusy'
    <3>1. wpc' = [wpc EXCEPT ![c] = IF wpc[c] = "asleep" THEN "test" ELSE wpc[c]] /\ held' = held
      BY <1>8 DEF PushEnqueue, Woken, c
    <3> QED
      BY <3>1, <2>1 DEF TypeOK, HeldWhenBusy
  <2>6. /\ nextItem' \in [Pushers -> 0 .. MaxItems]
        /\ ppc' \in [Pushers -> PusherPoints]
        /\ PushProgress'
    <3>1. ppc[p] = "enqueue" /\ nextItem[p] < lastItem[p]
      BY <1>8 DEF PushEnqueue, PushProgress
    <3>2. /\ nextItem' = [nextItem EXCEPT ![p] = nextItem[p] + 1]
          /\ ppc' = [ppc EXCEPT ![p] = "count"]
          /\ lastItem' = lastItem
      BY <1>8 DEF PushEnqueue
    <3> QED
      BY <3>1, <3>2 DEF TypeOK, PushProgress
  <2>7. UNCHANGED <<lastItem, enqueued, refused, queuedItems, held, processed, lifeVars>>
    BY <1>8 DEF PushEnqueue
  <2> QED
    BY <2>1, <2>3, <2>4, <2>5, <2>6, <2>7 DEF TypeOK
<1>9. ASSUME NEW p \in Pushers, PushCount(p) PROVE TypeInv'
  BY <1>9 DEF PushCount, TypeOK, PushProgress, HeldWhenBusy
<1>10. ASSUME NEW w \in Channels, WorkerTest(w) PROVE TypeInv'
  <2>1. UNCHANGED <<pushVars, nextChannel, queuedItems, accepted, processed, lifeVars>>
    BY <1>10 DEF WorkerTest
  <2>2. CASE UNCHANGED <<chan, held>> /\ \E q \in {"exited", "blocking"} : wpc' = [wpc EXCEPT ![w] = q]
    BY <1>10, <2>1, <2>2 DEF WorkerTest, TypeOK, PushProgress, HeldWhenBusy
  <2>3. CASE /\ chan[w] # <<>>
             /\ held' = [held EXCEPT ![w] = Head(chan[w])]
             /\ chan' = [chan EXCEPT ![w] = Tail(chan[w])]
             /\ wpc' = [wpc EXCEPT ![w] = "popped"]
    <3>1. Head(chan[w]) \in Items /\ Tail(chan[w]) \in Seq(Items) /\ Head(chan[w]) # NoItem
      BY <2>3, FrontType, NoItemIsNone
    <3>2. TypeOK'
      BY <2>1, <2>3, <3>1 DEF TypeOK
    <3>3. PushProgress' /\ HeldWhenBusy'
      BY <2>1, <2>3, <3>1 DEF TypeOK, PushProgress, HeldWhenBusy
    <3> QED
      BY <3>2, <3>3
  <2> QED
    BY <1>10, <2>2, <2>3 DEF WorkerTest
<1>11. ASSUME NEW w \in Channels, WorkerBlock(w) PROVE TypeInv'
  BY <1>11 DEF WorkerBlock, TypeOK, PushProgress, HeldWhenBusy
<1>12. ASSUME NEW w \in Channels, WorkerIdle(w) PROVE TypeInv'
  BY <1>12 DEF WorkerIdle, TypeOK, PushProgress, HeldWhenBusy
<1>13. ASSUME NEW w \in Channels, WorkerUncount(w) PROVE TypeInv'
  BY <1>13 DEF WorkerUncount, TypeOK, PushProgress, HeldWhenBusy
<1>14. ASSUME NEW w \in Channels, WorkerNotify(w) PROVE TypeInv'
  BY <1>14 DEF WorkerNotify, TypeOK, PushProgress, HeldWhenBusy
<1>15. ASSUME NEW w \in Channels, WorkerProcess(w) PROVE TypeInv'
  <2>1. held[w] \in Items
    BY <1>15 DEF WorkerProcess, TypeOK, HeldWhenBusy
  <2>2. TypeOK'
    BY <1>15, <2>1 DEF WorkerProcess, TypeOK
  <2>3. PushProgress' /\ HeldWhenBusy'
    BY <1>15 DEF WorkerProcess, TypeOK, PushProgress, HeldWhenBusy
  <2> QED
    BY <2>2, <2>3
<1>16. CASE StopBegin
  BY <1>16 DEF StopBegin, TypeOK, PushProgress, HeldWhenBusy
<1>17. CASE StopNotify
  BY <1>17 DEF StopNotify, AllPushersWoken, TypeOK, PushProgress, HeldWhenBusy
<1>18. ASSUME NEW c \in Channels, StopChannel(c) PROVE TypeInv'
  BY <1>18 DEF StopChannel, Woken, TypeOK, PushProgress, HeldWhenBusy
<1>19. CASE StopJoin
  BY <1>19 DEF StopJoin, TypeOK, PushProgress, HeldWhenBusy
<1>20. CASE ForceBegin
  BY <1>20 DEF ForceBegin, TypeOK, PushProgress, HeldWhenBusy
<1>21. CASE ForceNotify
  BY <1>21 DEF ForceNotify, AllPushersWoken, TypeOK, PushProgress, HeldWhenBusy
<1>22. CASE UNCHANGED vars
  BY <1>22 DEF vars, TypeOK, PushProgress, HeldWhenBusy
<1> QED
  BY <1>1, <1>2, <1>3, <1>4, <1>5, <1>6, <1>7, <1>8, <1>9, <1>10, <1>11, <1>12, <1>13,
     <1>14, <1>15, <1>16, <1>17, <1>18, <1>19, <1>20, <1>21, <1>22
     DEF Next, PusherStep, WorkerStep, StopStep, Finished

\* Every reachable state is well typed: the counter stays within its width, push() never
\* takes up more items than toItems() returned, the deques hold items.
THEOREM TypeCorrect == Spec => []TypeOK
<1>1. Spec => []TypeInv
  BY TypeInvInit, TypeInvStep, PTL DEF Spec
<1> QED
  BY <1>1, PTL DEF TypeInv

-----------------------------------------------------------------------------
(* Where items are. *)

\* Whatever sits in a deque, in a worker's hands or among the processed was accepted.
OnlyAccepted ==
  /\ \A c \in Channels : \A k \in 1 .. Len(chan[c]) : chan[c][k] \in accepted
  /\ \A w \in Channels : held[w] # NoItem => held[w] \in accepted
  /\ processed \subseteq accepted

\* A pusher numbers its items upwards, so the next one is new.
Numbered == \A p \in Pushers, n \in 1 .. MaxItems : <<p, n>> \in accepted => n <= nextItem[p]

PlaceInv == OnlyAccepted /\ Numbered /\ NoItemDuplicated

\* Appending an item adds it, and nothing else, to the queued items.
LEMMA AppendQueues ==
  ASSUME TypeOK, NEW c \in Channels, NEW item \in Items,
         chan' = [chan EXCEPT ![c] = Append(chan[c], item)], NEW i
  PROVE  InChannel(i)' <=> InChannel(i) \/ i = item
<1>0. chan \in [Channels -> Seq(Items)]
  BY DEF TypeOK
<1>1. chan[c] \in Seq(Items) /\ Len(chan[c]) \in Nat
  BY <1>0
<1>2. /\ chan'[c] = Append(chan[c], item)
      /\ \A d \in Channels : d # c => chan'[d] = chan[d]
  BY DEF TypeOK
<1>3. /\ Len(chan'[c]) = Len(chan[c]) + 1
      /\ \A k \in 1 .. Len(chan[c]) : chan'[c][k] = chan[c][k]
      /\ chan'[c][Len(chan[c]) + 1] = item
  BY <1>1, <1>2
<1>4. ASSUME InChannel(i)' PROVE InChannel(i) \/ i = item
  <2>1. PICK d \in Channels : \E k \in 1 .. Len(chan'[d]) : chan'[d][k] = i
    BY <1>4 DEF InChannel
  <2>2. CASE d # c
    BY <2>1, <2>2, <1>2 DEF InChannel
  <2>3. CASE d = c
    <3>1. PICK k \in 1 .. Len(chan'[c]) : chan'[c][k] = i
      BY <2>1, <2>3
    <3>2. CASE k \in 1 .. Len(chan[c])
      BY <3>1, <3>2, <1>3 DEF InChannel
    <3>3. CASE k = Len(chan[c]) + 1
      BY <3>1, <3>3, <1>3
    <3> QED
      BY <3>2, <3>3, <1>1, <1>3
  <2> QED
    BY <2>2, <2>3
<1>5. ASSUME InChannel(i) PROVE InChannel(i)'
  <2>1. PICK d \in Channels : \E k \in 1 .. Len(chan[d]) : chan[d][k] = i
    BY <1>5 DEF InChannel
  <2>2. CASE d # c
    BY <2>1, <2>2, <1>2 DEF InChannel
  <2>3. CASE d = c
    <3>1. PICK k \in 1 .. Len(chan[c]) : chan[c][k] = i
      BY <2>1, <2>3
    <3>2. k \in 1 .. Len(chan'[c]) /\ chan'[c][k] = i
      BY <3>1, <1>1, <1>3
    <3> QED
      BY <3>2 DEF InChannel
  <2> QED
    BY <2>2, <2>3
<1>6. InChannel(item)'
  BY <1>1, <1>3 DEF InChannel
<1> QED
  BY <1>4, <1>5, <1>6

\* Popping the front of a deque removes it, and nothing else, from the queued items.
LEMMA PopUnqueues ==
  ASSUME TypeOK, NoItemDuplicated, NEW w \in Channels, chan[w] # <<>>,
         chan' = [chan EXCEPT ![w] = Tail(chan[w])], NEW i
  PROVE  InChannel(i)' <=> InChannel(i) /\ i # Head(chan[w])
<1>0. chan \in [Channels -> Seq(Items)]
  BY DEF TypeOK
<1>1. chan[w] \in Seq(Items) /\ Len(chan[w]) \in Nat /\ Len(chan[w]) > 0
  BY <1>0
<1>2. /\ chan'[w] = Tail(chan[w])
      /\ \A d \in Channels : d # w => chan'[d] = chan[d]
  BY DEF TypeOK
<1>3. /\ Len(chan'[w]) = Len(chan[w]) - 1
      /\ \A k \in 1 .. Len(chan'[w]) : chan'[w][k] = chan[w][k + 1]
      /\ Head(chan[w]) = chan[w][1]
  <2> DEFINE q == chan[w]
  <2>1. q \in Seq(Items) /\ q # <<>>
    BY <1>1
  <2> HIDE DEF q
  <2>2. /\ Len(Tail(q)) = Len(q) - 1
        /\ \A k \in 1 .. Len(Tail(q)) : Tail(q)[k] = q[k + 1]
        /\ Head(q) = q[1]
    BY <2>1
  <2> QED
    BY <2>2, <1>2 DEF q
<1>4. \A d \in Channels : Len(chan[d]) \in Nat
  BY DEF TypeOK
<1>5. ASSUME InChannel(i)' PROVE InChannel(i) /\ i # Head(chan[w])
  <2>1. PICK d \in Channels : \E k \in 1 .. Len(chan'[d]) : chan'[d][k] = i
    BY <1>5 DEF InChannel
  <2>2. CASE d # w
    <3>1. PICK k \in 1 .. Len(chan[d]) : chan[d][k] = i
      BY <2>1, <2>2, <1>2
    <3>2. chan[d][k] # chan[w][1]
      BY <2>2, <3>1, <1>1 DEF NoItemDuplicated
    <3> QED
      BY <3>1, <3>2, <1>3 DEF InChannel
  <2>3. CASE d = w
    <3>1. PICK k \in 1 .. Len(chan'[w]) : chan'[w][k] = i
      BY <2>1, <2>3
    <3>2. k + 1 \in 1 .. Len(chan[w]) /\ chan[w][k + 1] = i /\ k + 1 # 1
      BY <3>1, <1>1, <1>3
    <3>3. chan[w][k + 1] # chan[w][1]
      BY <3>2, <1>1 DEF NoItemDuplicated
    <3> QED
      BY <3>2, <3>3, <1>3 DEF InChannel
  <2> QED
    BY <2>2, <2>3
<1>6. ASSUME InChannel(i), i # Head(chan[w]) PROVE InChannel(i)'
  <2>1. PICK d \in Channels : \E k \in 1 .. Len(chan[d]) : chan[d][k] = i
    BY <1>6 DEF InChannel
  <2>2. CASE d # w
    BY <2>1, <2>2, <1>2 DEF InChannel
  <2>3. CASE d = w
    <3>1. PICK k \in 1 .. Len(chan[w]) : chan[w][k] = i
      BY <2>1, <2>3
    <3>2. k # 1
      BY <3>1, <1>3, <1>6
    <3>3. k - 1 \in 1 .. Len(chan'[w]) /\ chan'[w][k - 1] = i
      BY <3>1, <3>2, <1>1, <1>3
    <3> QED
      BY <3>3 DEF InChannel
  <2> QED
    BY <2>2, <2>3
<1> QED
  BY <1>5, <1>6

\* Initially no item is anywhere.
LEMMA PlaceInvInit == Init => PlaceInv
  BY DEF Init, PlaceInv, OnlyAccepted, Numbered, NoItemDuplicated, InChannel

\* A step that moves no item, and passes items of a pusher over at most, keeps PlaceInv.
LEMMA PlaceFrame ==
  ASSUME TypeInv, PlaceInv, UNCHANGED <<chan, held, processed, accepted>>,
         \A p \in Pushers : nextItem'[p] \in Nat /\ nextItem[p] <= nextItem'[p]
  PROVE  PlaceInv'
<1>1. Numbered'
  <2> SUFFICES ASSUME NEW p \in Pushers, NEW n \in 1 .. MaxItems, <<p, n>> \in accepted
               PROVE  n <= nextItem'[p]
    BY DEF Numbered
  <2>1. n <= nextItem[p] /\ nextItem[p] \in Nat /\ n \in Nat
    BY ConstantTypes DEF PlaceInv, Numbered, TypeInv, TypeOK
  <2> QED
    BY <2>1
<1>2. OnlyAccepted' /\ NoItemDuplicated'
  BY DEF PlaceInv, OnlyAccepted, NoItemDuplicated, InChannel
<1> QED
  BY <1>1, <1>2 DEF PlaceInv

\* The item a pusher is about to append has not been accepted before.
LEMMA NewItemIsNew ==
  ASSUME TypeInv, PlaceInv, NEW p \in Pushers, ppc[p] = "enqueue"
  PROVE  <<p, nextItem[p] + 1>> \notin accepted
<1>1. nextItem[p] + 1 \in 1 .. MaxItems /\ nextItem[p] \in Nat
  <2>1. nextItem[p] \in 0 .. MaxItems /\ lastItem[p] \in 0 .. MaxItems
    BY DEF TypeInv, TypeOK
  <2>2. nextItem[p] < lastItem[p]
    BY DEF TypeInv, PushProgress
  <2> QED
    BY <2>1, <2>2, ConstantTypes
<1> QED
  BY <1>1 DEF PlaceInv, Numbered

\* Appending a new item keeps the places apart.
LEMMA PlaceEnqueue ==
  ASSUME TypeInv, PlaceInv, NEW p \in Pushers, PushEnqueue(p)
  PROVE  PlaceInv'
<1> DEFINE c == TargetChannel(p)
           item == <<p, nextItem[p] + 1>>
<1>1. /\ c \in Channels /\ item \in Items /\ item \notin accepted
      /\ chan' = [chan EXCEPT ![c] = Append(chan[c], item)]
      /\ accepted' = accepted \cup {item}
      /\ UNCHANGED <<held, processed>>
      /\ nextItem' = [nextItem EXCEPT ![p] = nextItem[p] + 1]
  BY TargetChannelType, NewItemType, NewItemIsNew DEF PushEnqueue, TypeInv
<1>2. Numbered'
  <2> SUFFICES ASSUME NEW q \in Pushers, NEW n \in 1 .. MaxItems, <<q, n>> \in accepted'
               PROVE  n <= nextItem'[q]
    BY DEF Numbered
  <2>1. nextItem \in [Pushers -> 0 .. MaxItems] /\ n \in Nat
    BY ConstantTypes DEF TypeInv, TypeOK
  <2>2. CASE <<q, n>> \in accepted
    <3>1. n <= nextItem[q]
      BY <2>2 DEF PlaceInv, Numbered
    <3> QED
      BY <3>1, <2>1, <1>1, ConstantTypes
  <2>3. CASE <<q, n>> = item
    BY <2>3, <2>1, <1>1, ConstantTypes
  <2> QED
    BY <2>2, <2>3, <1>1
<1> HIDE DEF c, item
<1>3. \A i : InChannel(i)' <=> InChannel(i) \/ i = item
  BY <1>1, AppendQueues DEF TypeInv
<1>4. chan[c] \in Seq(Items) /\ Len(chan[c]) \in Nat
  <2>1. chan \in [Channels -> Seq(Items)]
    BY DEF TypeInv, TypeOK
  <2> QED
    BY <2>1, <1>1
<1>5. /\ chan'[c] = Append(chan[c], item)
      /\ \A d \in Channels : d # c => chan'[d] = chan[d]
  BY <1>1 DEF TypeInv, TypeOK
<1>6. /\ Len(chan'[c]) = Len(chan[c]) + 1
      /\ \A k \in 1 .. Len(chan[c]) : chan'[c][k] = chan[c][k]
      /\ chan'[c][Len(chan[c]) + 1] = item
  BY <1>4, <1>5
<1>7. OnlyAccepted'
  <2>1. \A d \in Channels : \A k \in 1 .. Len(chan'[d]) : chan'[d][k] \in accepted'
    BY <1>1, <1>4, <1>5, <1>6 DEF PlaceInv, OnlyAccepted
  <2> QED
    BY <2>1, <1>1 DEF PlaceInv, OnlyAccepted
<1>8. ASSUME NEW d \in Channels, NEW e \in Channels, NEW j \in 1 .. Len(chan'[d]),
             NEW k \in 1 .. Len(chan'[e]), chan'[d][j] = chan'[e][k]
      PROVE  d = e /\ j = k
  <2>1. \A f \in Channels : \A m \in 1 .. Len(chan[f]) : chan[f][m] # item
    BY <1>1 DEF PlaceInv, OnlyAccepted
  <2>2. CASE d # c /\ e # c
    BY <1>5, <1>8, <2>2 DEF PlaceInv, NoItemDuplicated
  <2>3. CASE d = c /\ e = c
    <3>1. j \in 1 .. Len(chan[c]) + 1 /\ k \in 1 .. Len(chan[c]) + 1 /\ chan'[c][j] = chan'[c][k]
      BY <1>6, <1>8, <2>3
    <3>2. CASE j = Len(chan[c]) + 1
      BY <1>4, <1>6, <2>1, <3>1, <3>2, <1>1, <2>3
    <3>3. CASE k = Len(chan[c]) + 1
      BY <1>4, <1>6, <2>1, <3>1, <3>3, <1>1, <2>3
    <3>4. CASE j \in 1 .. Len(chan[c]) /\ k \in 1 .. Len(chan[c])
      BY <1>6, <3>1, <3>4, <1>1, <2>3 DEF PlaceInv, NoItemDuplicated
    <3> QED
      BY <3>1, <3>2, <3>3, <3>4, <1>4
  <2>4. CASE d = c /\ e # c
    BY <1>1, <1>4, <1>5, <1>6, <1>8, <2>1, <2>4 DEF PlaceInv, NoItemDuplicated
  <2>5. CASE d # c /\ e = c
    BY <1>1, <1>4, <1>5, <1>6, <1>8, <2>1, <2>5 DEF PlaceInv, NoItemDuplicated
  <2> QED
    BY <2>2, <2>3, <2>4, <2>5
<1>9. /\ \A w, v \in Channels : held'[w] # NoItem /\ held'[w] = held'[v] => w = v
      /\ \A w \in Channels : held'[w] # NoItem => held'[w] \notin processed'
  BY <1>1 DEF PlaceInv, NoItemDuplicated
<1>10. \A w \in Channels : held'[w] # NoItem => ~InChannel(held[w])'
  BY <1>1, <1>3 DEF PlaceInv, NoItemDuplicated, OnlyAccepted, InChannel
<1>11. \A i \in processed' : ~InChannel(i)'
  BY <1>1, <1>3 DEF PlaceInv, NoItemDuplicated, OnlyAccepted
<1> QED
  BY <1>2, <1>7, <1>8, <1>9, <1>10, <1>11 DEF PlaceInv, NoItemDuplicated

\* The three ways out of the worker's critical section.
WorkerPops(w) ==
  /\ chan[w] # <<>> /\ ~forceQuit
  /\ held' = [held EXCEPT ![w] = Head(chan[w])]
  /\ chan' = [chan EXCEPT ![w] = Tail(chan[w])]
  /\ wpc' = [wpc EXCEPT ![w] = "popped"]
WorkerStays(w) == UNCHANGED <<chan, held>> /\ \E q \in {"exited", "blocking"} : wpc' = [wpc EXCEPT ![w] = q]

\* The three branches of a worker that looks at its channel.
LEMMA WorkerTestCases ==
  ASSUME NEW w \in Channels, WorkerTest(w)
  PROVE  /\ wpc[w] = "test"
         /\ WorkerPops(w) \/ WorkerStays(w)
         /\ UNCHANGED <<pushVars, nextChannel, queuedItems, accepted, processed, lifeVars>>
  BY DEF WorkerTest, WorkerPops, WorkerStays

\* Moving the front item into the worker's hands keeps the places apart.
LEMMA PlacePop ==
  ASSUME TypeInv, PlaceInv, NEW w \in Channels, WorkerTest(w), WorkerPops(w)
  PROVE  PlaceInv'
<1> DEFINE item == Head(chan[w])
<1>1. /\ UNCHANGED <<nextItem, accepted, processed>>
      /\ held' = [held EXCEPT ![w] = item]
      /\ chan' = [chan EXCEPT ![w] = Tail(chan[w])]
      /\ chan[w] # <<>>
  BY WorkerTestCases DEF WorkerPops, pushVars
<1>2. item \in Items /\ item # NoItem
  BY <1>1, FrontType, NoItemIsNone DEF TypeInv
<1>3. chan \in [Channels -> Seq(Items)] /\ held \in [Channels -> Items \cup {NoItem}]
  BY DEF TypeInv, TypeOK
<1>4. Len(chan[w]) \in Nat /\ Len(chan[w]) > 0 /\ item = chan[w][1]
  BY <1>1, <1>3
<1>5. InChannel(item) /\ item \in accepted
  BY <1>4 DEF InChannel, PlaceInv, OnlyAccepted
<1>6. /\ chan'[w] = Tail(chan[w])
      /\ \A d \in Channels : d # w => chan'[d] = chan[d]
  BY <1>1, <1>3
<1>7. /\ Len(chan'[w]) = Len(chan[w]) - 1
      /\ \A k \in 1 .. Len(chan'[w]) : chan'[w][k] = chan[w][k + 1]
  <2> DEFINE q == chan[w]
  <2>1. q \in Seq(Items) /\ q # <<>>
    BY <1>1, <1>3
  <2> HIDE DEF q
  <2>2. /\ Len(Tail(q)) = Len(q) - 1
        /\ \A k \in 1 .. Len(Tail(q)) : Tail(q)[k] = q[k + 1]
    BY <2>1
  <2> QED
    BY <2>2, <1>6 DEF q
<1>8. \A i : InChannel(i)' <=> InChannel(i) /\ i # item
  BY <1>1, PopUnqueues DEF TypeInv, PlaceInv
<1>9. held'[w] = item /\ \A v \in Channels : v # w => held'[v] = held[v]
  BY <1>1, <1>3
<1> HIDE DEF item
<1>10. OnlyAccepted'
  <2>1. \A d \in Channels : \A k \in 1 .. Len(chan'[d]) : chan'[d][k] \in accepted'
    BY <1>1, <1>4, <1>6, <1>7 DEF PlaceInv, OnlyAccepted
  <2> QED
    BY <2>1, <1>1, <1>5, <1>9 DEF PlaceInv, OnlyAccepted
<1>11. Numbered'
  BY <1>1 DEF PlaceInv, Numbered
<1>12. ASSUME NEW d \in Channels, NEW e \in Channels, NEW j \in 1 .. Len(chan'[d]),
              NEW k \in 1 .. Len(chan'[e]), chan'[d][j] = chan'[e][k]
       PROVE  d = e /\ j = k
  <2> DEFINE old(f, m) == IF f = w THEN m + 1 ELSE m
  <2>0. Len(chan'[w]) \in Nat
    BY <1>4, <1>7
  <2>1. ASSUME NEW f \in Channels, NEW m \in 1 .. Len(chan'[f])
        PROVE  old(f, m) \in 1 .. Len(chan[f]) /\ chan'[f][m] = chan[f][old(f, m)]
    <3>1. CASE f = w
      BY <2>0, <2>1, <3>1, <1>4, <1>7, SMTT(30)
    <3>2. CASE f # w
      BY <2>1, <3>2, <1>6
    <3> QED
      BY <3>1, <3>2
  <2>2. chan[d][old(d, j)] = chan[e][old(e, k)]
    BY <2>1, <1>12
  <2>3. d = e /\ old(d, j) = old(e, k)
    <3> HIDE DEF old
    <3> QED
      BY <2>1, <2>2, SMTT(30) DEF PlaceInv, NoItemDuplicated
  <2>4. CASE d = w
    BY <2>0, <2>3, <2>4
  <2>5. CASE d # w
    BY <2>3, <2>5
  <2> QED
    BY <2>4, <2>5
<1>13. /\ \A u, v \in Channels : held'[u] # NoItem /\ held'[u] = held'[v] => u = v
       /\ \A v \in Channels : held'[v] # NoItem => held'[v] \notin processed'
  BY <1>1, <1>5, <1>9 DEF PlaceInv, NoItemDuplicated
<1>14. \A v \in Channels : held'[v] # NoItem => ~InChannel(held[v])'
  <2> SUFFICES ASSUME NEW v \in Channels, held'[v] # NoItem PROVE ~InChannel(held[v])'
    OBVIOUS
  <2>1. ~(InChannel(held'[v]) /\ held'[v] # item)
    BY <1>9 DEF PlaceInv, NoItemDuplicated
  <2> QED
    BY <2>1, <1>8 DEF InChannel
<1>15. \A i \in processed' : ~InChannel(i)'
  BY <1>1, <1>8 DEF PlaceInv, NoItemDuplicated
<1> QED
  BY <1>10, <1>11, <1>12, <1>13, <1>14, <1>15 DEF PlaceInv, NoItemDuplicated

\* Every step keeps the places of the items apart.
LEMMA PlaceInvStep == TypeInv /\ PlaceInv /\ [Next]_vars => PlaceInv'
<1> SUFFICES ASSUME TypeInv, PlaceInv, [Next]_vars PROVE PlaceInv'
  OBVIOUS
<1>0. \A p \in Pushers : nextItem[p] \in Nat /\ lastItem[p] \in Nat /\ nextItem[p] <= lastItem[p]
  BY ConstantTypes DEF TypeInv, TypeOK, PushProgress
<1> DEFINE Frame == /\ UNCHANGED <<chan, held, processed, accepted>>
                    /\ \A p \in Pushers : nextItem'[p] \in Nat /\ nextItem[p] <= nextItem'[p]
<1>1. Frame => PlaceInv'
  BY PlaceFrame
<1>2. UNCHANGED <<chan, held, processed, accepted, nextItem>> => Frame
  BY <1>0
<1>3. ASSUME NEW p \in Pushers, PushRejected(p) PROVE Frame
  BY <1>3, <1>0 DEF PushRejected, workVars, TypeInv, TypeOK
<1>4. ASSUME NEW p \in Pushers, PushTimeout(p) \/ PushRecheck(p) PROVE Frame
  <2>1. nextItem' = nextItem \/ nextItem' = [nextItem EXCEPT ![p] = lastItem[p]]
    BY <1>4 DEF PushTimeout, PushRecheck, Return
  <2>2. nextItem \in [Pushers -> 0 .. MaxItems]
    BY DEF TypeInv, TypeOK
  <2>3. UNCHANGED <<chan, held, processed, accepted>>
    BY <1>4 DEF PushTimeout, PushRecheck, workVars
  <2> QED
    BY <1>0, <2>1, <2>2, <2>3
<1>5. ASSUME NEW p \in Pushers, PusherStep(p) PROVE PlaceInv'
  <2>1. CASE PushEnqueue(p)
    BY <2>1, PlaceEnqueue
  <2>2. CASE PushTest(p) \/ PushBlock(p) \/ PushCount(p)
    BY <2>2, <1>1, <1>2 DEF PushTest, PushBlock, PushCount, workVars
  <2> QED
    BY <1>5, <2>1, <2>2, <1>1, <1>4 DEF PusherStep
<1>6. ASSUME NEW p \in Pushers, NEW n \in 1 .. MaxItems, PushBegin(p, n) PROVE PlaceInv'
  BY <1>6, <1>1, <1>2 DEF PushBegin, workVars
<1>7. ASSUME NEW p \in Pushers, PushSpuriousWakeup(p) PROVE PlaceInv'
  BY <1>7, <1>1, <1>2 DEF PushSpuriousWakeup, workVars
<1>8. ASSUME NEW w \in Channels, WorkerTest(w) PROVE PlaceInv'
  <2>1. CASE WorkerPops(w)
    BY <1>8, <2>1, PlacePop
  <2>2. CASE WorkerStays(w)
    BY <1>8, <2>2, WorkerTestCases, <1>1, <1>2 DEF WorkerStays, pushVars
  <2> QED
    BY <1>8, <2>1, <2>2, WorkerTestCases
<1>9. ASSUME NEW w \in Channels, WorkerProcess(w) PROVE PlaceInv'
  <2>1. /\ held[w] # NoItem
        /\ UNCHANGED <<chan, accepted, nextItem>>
        /\ processed' = processed \cup {held[w]}
        /\ held'[w] = NoItem
        /\ \A v \in Channels : v # w => held'[v] = held[v]
    BY <1>9 DEF WorkerProcess, pushVars, TypeInv, HeldWhenBusy, TypeOK
  <2>2. \A i : InChannel(i)' <=> InChannel(i)
    BY <2>1 DEF InChannel
  <2>3. OnlyAccepted' /\ Numbered'
    BY <2>1 DEF PlaceInv, OnlyAccepted, Numbered
  <2>4. \A v \in Channels : held'[v] # NoItem => ~InChannel(held[v])'
    BY <2>1 DEF PlaceInv, NoItemDuplicated, InChannel
  <2>5. NoItemDuplicated'
    BY <2>1, <2>2, <2>4 DEF PlaceInv, NoItemDuplicated
  <2> QED
    BY <2>3, <2>5 DEF PlaceInv
<1>10. ASSUME NEW w \in Channels,
              WorkerBlock(w) \/ WorkerIdle(w) \/ WorkerUncount(w) \/ WorkerNotify(w)
       PROVE  PlaceInv'
  BY <1>10, <1>1, <1>2 DEF WorkerBlock, WorkerIdle, WorkerUncount, WorkerNotify, pushVars
<1>11. CASE StopJoin
  <2>1. UNCHANGED <<held, processed, accepted, nextItem>> /\ chan' = [c \in Channels |-> <<>>]
    BY <1>11 DEF StopJoin, pushVars, workVars
  <2> QED
    BY <2>1 DEF PlaceInv, OnlyAccepted, Numbered, NoItemDuplicated, InChannel
<1>12. CASE StopBegin \/ StopNotify \/ ForceBegin \/ ForceNotify \/ \E c \in Channels : StopChannel(c)
  BY <1>12, <1>1, <1>2 DEF StopBegin, StopNotify, ForceBegin, ForceNotify, StopChannel, pushVars, workVars
<1>13. CASE UNCHANGED vars
  BY <1>13, <1>1, <1>2 DEF vars, pushVars, workVars
<1> QED
  BY <1>1, <1>3, <1>5, <1>6, <1>7, <1>8, <1>9, <1>10, <1>11, <1>12, <1>13
     DEF Next, WorkerStep, StopStep, Finished

\* No item is ever in two places or processed twice, whatever the pushers, workers, stop()
\* and forceStop() do.
THEOREM NeverDuplicated == Spec => []NoItemDuplicated
<1>1. Spec => [](TypeInv /\ PlaceInv)
  BY TypeInvInit, TypeInvStep, PlaceInvInit, PlaceInvStep, PTL DEF Spec
<1> QED
  BY <1>1, PTL DEF PlaceInv

-----------------------------------------------------------------------------
(* How many items are queued. *)

\* Pushers that may append one more item without testing the counter again.
Entitled ==
  {p \in Pushers : ppc[p] = "enqueue" \/ (ppc[p] = "admitted" /\ running /\ ~forceQuit)}

BoundInv ==
  Cardinality(Queued) + Cardinality(Entitled) <= QueueCapacity + Cardinality(Pushers) - 1

StopFlags == running <=> stopPc = "none"

CountInv == CounterAccounts /\ BoundInv /\ StopFlags

\* The counted sets are finite, and there are no more of them than threads.
LEMMA CountedSets ==
  ASSUME TypeInv
  PROVE  /\ IsFiniteSet(Queued) /\ Cardinality(Queued) \in Nat
         /\ IsFiniteSet(Popped) /\ Cardinality(Popped) \in Nat
         /\ IsFiniteSet(Counting) /\ Cardinality(Counting) \in Nat
         /\ IsFiniteSet(Entitled) /\ Cardinality(Entitled) \in Nat
         /\ Cardinality(Popped) <= NumWorkers
         /\ Cardinality(Counting) <= Cardinality(Pushers)
<1>1. IsFiniteSet(Items)
  <2>1. IsFiniteSet(1 .. MaxItems)
    BY ConstantTypes, FS_Interval
  <2> QED
    BY <2>1, PusherCount, FS_Product DEF Items
<1>2. Queued \subseteq Items
  BY DEF Queued, TypeInv, TypeOK
<1>3. IsFiniteSet(Channels) /\ Cardinality(Channels) = NumWorkers
  <2>1. IsFiniteSet(0 .. NumWorkers - 1) /\ Cardinality(0 .. NumWorkers - 1) = NumWorkers
    BY ConstantTypes, FS_Interval
  <2> QED
    BY <2>1
<1>4. Popped \subseteq Channels /\ Counting \subseteq Pushers /\ Entitled \subseteq Pushers
  BY DEF Popped, Counting, Entitled
<1> QED
  BY <1>1, <1>2, <1>3, <1>4, PusherCount, FS_Subset, FS_CardinalityType

\* The capacity is positive and far from the counter's width.
LEMMA CapacityTypes ==
  /\ QueueCapacity \in Nat \ {0}
  /\ Cardinality(Pushers) \in Nat \ {0}
  /\ NumWorkers \in Nat \ {0}
  /\ CounterModulus \in Nat
  /\ CounterModulus > QueueCapacity + Cardinality(Pushers) + NumWorkers
  BY PusherCount, QueuedWriterAssumption

\* Initially nothing is queued and nothing is counted.
LEMMA CountInvInit == Init => CountInv
<1> SUFFICES ASSUME Init PROVE CountInv
  OBVIOUS
<1>1. Queued = {} /\ Popped = {} /\ Counting = {} /\ Entitled = {}
  BY DEF Init, Queued, Popped, Counting, Entitled
<1>2. Net = 0
  BY <1>1, FS_EmptySet DEF Net
<1>3. CounterAccounts /\ StopFlags
  BY <1>2 DEF Init, CounterAccounts, StopFlags
<1>4. BoundInv
  BY <1>1, FS_EmptySet, CapacityTypes DEF BoundInv
<1> QED
  BY <1>3, <1>4 DEF CountInv

\* A step that changes neither the counter nor the counted sets.
LEMMA CountFrame ==
  ASSUME TypeInv, CountInv, Queued' = Queued, Popped' = Popped, Counting' = Counting,
         queuedItems' = queuedItems, Entitled' \subseteq Entitled, stopPc = "done" => stopPc' = "done"
  PROVE  CounterAccounts' /\ BoundInv'
<1>1. Net' = Net
  BY DEF Net
<1>2. Cardinality(Entitled') <= Cardinality(Entitled) /\ Cardinality(Entitled') \in Nat
  BY CountedSets, FS_Subset, FS_CardinalityType
<1>3. BoundInv'
  BY <1>2, CountedSets, CapacityTypes DEF BoundInv, CountInv
<1> QED
  BY <1>1, <1>3 DEF CountInv, CounterAccounts

\* Room seen by the predicate of the wait entitles one more pusher.
LEMMA CountAdmit ==
  ASSUME TypeInv, CountInv, NEW p \in Pushers, ppc[p] \in {"test", "asleep"}, MayProceed,
         ppc' = [ppc EXCEPT ![p] = "admitted"],
         UNCHANGED <<chan, accepted, queuedItems, wpc, running, forceQuit, stopPc>>
  PROVE  CounterAccounts' /\ BoundInv'
<1>1. Queued' = Queued /\ Popped' = Popped
  BY DEF Queued, InChannel, Popped
<1>2. Counting' = Counting
  BY DEF Counting, TypeInv, TypeOK
<1>3. CASE ~running \/ forceQuit
  <2>1. Entitled' \subseteq Entitled
    BY <1>3 DEF Entitled, TypeInv, TypeOK
  <2> QED
    BY <1>1, <1>2, <2>1, CountFrame
<1>4. CASE running /\ ~forceQuit
  <2>1. queuedItems < QueueCapacity /\ stopPc # "done"
    BY <1>4 DEF MayProceed, CountInv, StopFlags
  <2>2. Net' = Net /\ CounterAccounts'
    BY <1>1, <1>2 DEF Net, CountInv, CounterAccounts
  <2>3. Net < QueueCapacity
    <3>1. Net \in Int /\ Net >= 0 - Cardinality(Pushers)
      BY CountedSets, CapacityTypes DEF Net
    <3>2. queuedItems = IF Net < 0 THEN Net + CounterModulus ELSE Net
      BY <2>1 DEF CountInv, CounterAccounts
    <3> QED
      BY <3>1, <3>2, <2>1, CapacityTypes
  <2>4. Entitled' = Entitled \cup {p} /\ p \notin Entitled /\ p \notin Counting
    BY <1>4 DEF Entitled, Counting, TypeInv, TypeOK
  <2>5. Cardinality(Entitled') = Cardinality(Entitled) + 1
    BY <2>4, CountedSets, FS_AddElement
  <2>6. Cardinality(Entitled) + Cardinality(Counting) <= Cardinality(Pushers) - 1
    <3>1. Entitled \cap Counting = {}
      BY DEF Entitled, Counting
    <3>2. /\ IsFiniteSet(Entitled \cup Counting)
          /\ Cardinality(Entitled \cup Counting) = Cardinality(Entitled) + Cardinality(Counting)
      <4>1. /\ IsFiniteSet(Entitled \cup Counting)
            /\ Cardinality(Entitled \cup Counting) =
                 Cardinality(Entitled) + Cardinality(Counting) - Cardinality(Entitled \cap Counting)
        BY CountedSets, FS_Union
      <4>2. Cardinality(Entitled \cap Counting) = 0
        BY <3>1, FS_EmptySet
      <4> QED
        BY <4>1, <4>2, CountedSets
    <3>3. Entitled \cup Counting \subseteq Pushers \ {p}
      BY <2>4 DEF Entitled, Counting
    <3>4. IsFiniteSet(Pushers \ {p}) /\ Cardinality(Pushers \ {p}) = Cardinality(Pushers) - 1
      BY PusherCount, FS_RemoveElement
    <3> QED
      BY <3>2, <3>3, <3>4, FS_Subset
  <2>7. BoundInv'
    BY <2>3, <2>5, <2>6, <1>1, CountedSets, CapacityTypes DEF BoundInv, Net
  <2> QED
    BY <2>2, <2>7
<1> QED
  BY <1>3, <1>4

\* Appending and counting, popping and un-counting keep the counter's account.
LEMMA CountEnqueue ==
  ASSUME TypeInv, PlaceInv, CountInv, NEW p \in Pushers, PushEnqueue(p)
  PROVE  CounterAccounts' /\ BoundInv'
<1> DEFINE c == TargetChannel(p)
           item == <<p, nextItem[p] + 1>>
<1>1. /\ c \in Channels /\ item \in Items /\ item \notin accepted
      /\ chan' = [chan EXCEPT ![c] = Append(chan[c], item)]
      /\ accepted' = accepted \cup {item}
  BY TargetChannelType, NewItemType, NewItemIsNew DEF PushEnqueue, TypeInv
<1>2. /\ ppc[p] = "enqueue" /\ ppc' = [ppc EXCEPT ![p] = "count"]
      /\ wpc' = [wpc EXCEPT ![c] = IF wpc[c] = "asleep" THEN "test" ELSE wpc[c]]
      /\ UNCHANGED <<queuedItems, running, forceQuit, stopPc>>
      /\ stopPc # "done"
  BY DEF PushEnqueue, Woken, lifeVars
<1> HIDE DEF c, item
<1>3. \A i : InChannel(i)' <=> InChannel(i) \/ i = item
  BY <1>1, AppendQueues DEF TypeInv
<1>4. Queued' = Queued \cup {item} /\ item \notin Queued
  <2>1. \A i : InChannel(i) => i \in accepted
    BY DEF InChannel, PlaceInv, OnlyAccepted
  <2> QED
    BY <1>1, <1>3, <2>1 DEF Queued
<1>5. Popped' = Popped
  BY <1>1, <1>2 DEF Popped, TypeInv, TypeOK
<1>6. Counting' = Counting \cup {p} /\ p \notin Counting
  BY <1>2 DEF Counting, TypeInv, TypeOK
<1>7. Entitled' = Entitled \ {p} /\ p \in Entitled
  BY <1>2 DEF Entitled, TypeInv, TypeOK
<1>8. /\ Cardinality(Queued') = Cardinality(Queued) + 1
      /\ Cardinality(Counting') = Cardinality(Counting) + 1
      /\ Cardinality(Entitled') = Cardinality(Entitled) - 1
  BY <1>4, <1>6, <1>7, CountedSets, FS_AddElement, FS_RemoveElement
<1>9. Net' = Net
  BY <1>5, <1>8, CountedSets DEF Net
<1>10. BoundInv'
  BY <1>8, CountedSets, CapacityTypes DEF BoundInv, CountInv
<1> QED
  BY <1>2, <1>9, <1>10 DEF CountInv, CounterAccounts

\* Counting the appended item moves its pusher out of the account.
LEMMA CountCount ==
  ASSUME TypeInv, CountInv, NEW p \in Pushers, PushCount(p)
  PROVE  CounterAccounts' /\ BoundInv'
<1>1. /\ ppc[p] = "count"
      /\ ppc' = [ppc EXCEPT ![p] = IF nextItem[p] = lastItem[p] THEN "idle" ELSE "test"]
      /\ queuedItems' = IF queuedItems = CounterModulus - 1 THEN 0 ELSE queuedItems + 1
      /\ UNCHANGED <<chan, accepted, wpc, running, forceQuit, stopPc>>
  BY DEF PushCount, workVars, lifeVars
<1>2. Queued' = Queued /\ Popped' = Popped
  BY <1>1 DEF Queued, InChannel, Popped
<1>3. Counting' = Counting \ {p} /\ p \in Counting
  BY <1>1 DEF Counting, TypeInv, TypeOK
<1>4. Entitled' = Entitled
  BY <1>1 DEF Entitled, TypeInv, TypeOK
<1>5. Cardinality(Counting') = Cardinality(Counting) - 1
  BY <1>3, CountedSets, FS_RemoveElement
<1>6. Net' = Net + 1 /\ Net \in Int
  BY <1>2, <1>5, CountedSets DEF Net
<1>7. Net < CounterModulus - 1
  BY CountedSets, CapacityTypes DEF Net, CountInv, BoundInv
<1>8. CounterAccounts'
  <2> SUFFICES ASSUME stopPc # "done"
               PROVE  queuedItems' = IF Net' < 0 THEN Net' + CounterModulus ELSE Net'
    BY <1>1 DEF CounterAccounts
  <2>1. queuedItems = IF Net < 0 THEN Net + CounterModulus ELSE Net
    BY DEF CountInv, CounterAccounts
  <2> QED
    BY <2>1, <1>1, <1>6, <1>7, CapacityTypes
<1>9. BoundInv'
  BY <1>2, <1>4 DEF CountInv, BoundInv
<1> QED
  BY <1>8, <1>9

\* Popping moves an item from the deque to its worker: the account is unchanged.
LEMMA CountPop ==
  ASSUME TypeInv, PlaceInv, CountInv, NEW w \in Channels, WorkerTest(w), WorkerPops(w)
  PROVE  CounterAccounts' /\ BoundInv'
<1> DEFINE item == Head(chan[w])
<1>1. /\ chan[w] # <<>>
      /\ chan' = [chan EXCEPT ![w] = Tail(chan[w])]
      /\ wpc[w] = "test" /\ wpc' = [wpc EXCEPT ![w] = "popped"]
      /\ UNCHANGED <<ppc, accepted, queuedItems, running, forceQuit, stopPc>>
  BY WorkerTestCases DEF WorkerPops, pushVars, lifeVars
<1>2. \A i : InChannel(i)' <=> InChannel(i) /\ i # item
  BY <1>1, PopUnqueues DEF TypeInv, PlaceInv
<1>3. item \in Queued
  <2>1. chan[w] \in Seq(Items)
    BY DEF TypeInv, TypeOK
  <2>2. 1 \in 1 .. Len(chan[w]) /\ item = chan[w][1]
    BY <1>1, <2>1
  <2> QED
    BY <2>2 DEF Queued, InChannel, PlaceInv, OnlyAccepted
<1>4. Queued' = Queued \ {item}
  BY <1>1, <1>2 DEF Queued
<1>5. Popped' = Popped \cup {w} /\ w \notin Popped
  BY <1>1 DEF Popped, TypeInv, TypeOK
<1>6. Counting' = Counting /\ Entitled' = Entitled
  BY <1>1 DEF Counting, Entitled
<1>7. /\ Cardinality(Queued') = Cardinality(Queued) - 1
      /\ Cardinality(Popped') = Cardinality(Popped) + 1
  BY <1>3, <1>4, <1>5, CountedSets, FS_AddElement, FS_RemoveElement
<1>8. Net' = Net
  BY <1>6, <1>7, CountedSets DEF Net
<1>9. BoundInv'
  BY <1>6, <1>7, CountedSets, CapacityTypes DEF BoundInv, CountInv
<1> QED
  BY <1>1, <1>8, <1>9 DEF CountInv, CounterAccounts

\* Un-counting takes the worker out of the account.
LEMMA CountUncount ==
  ASSUME TypeInv, CountInv, NEW w \in Channels, WorkerUncount(w)
  PROVE  CounterAccounts' /\ BoundInv'
<1>1. /\ wpc[w] = "popped" /\ wpc' = [wpc EXCEPT ![w] = "counted"]
      /\ queuedItems' = IF queuedItems = 0 THEN CounterModulus - 1 ELSE queuedItems - 1
      /\ UNCHANGED <<chan, accepted, ppc, running, forceQuit, stopPc>>
  BY DEF WorkerUncount, pushVars, lifeVars
<1>2. Queued' = Queued /\ Counting' = Counting /\ Entitled' = Entitled
  BY <1>1 DEF Queued, InChannel, Counting, Entitled
<1>3. Popped' = Popped \ {w} /\ w \in Popped
  BY <1>1 DEF Popped, TypeInv, TypeOK
<1>4. Cardinality(Popped') = Cardinality(Popped) - 1
  BY <1>3, CountedSets, FS_RemoveElement
<1>5. Net' = Net - 1 /\ Net \in Int /\ Net >= 0 - Cardinality(Pushers)
  BY <1>2, <1>4, CountedSets, CapacityTypes DEF Net
<1>6. CounterAccounts'
  <2> SUFFICES ASSUME stopPc # "done"
               PROVE  queuedItems' = IF Net' < 0 THEN Net' + CounterModulus ELSE Net'
    BY <1>1 DEF CounterAccounts
  <2>1. queuedItems = IF Net < 0 THEN Net + CounterModulus ELSE Net
    BY DEF CountInv, CounterAccounts
  <2> QED
    BY <2>1, <1>1, <1>5, CapacityTypes
<1>7. BoundInv'
  BY <1>2 DEF CountInv, BoundInv
<1> QED
  BY <1>6, <1>7

\* A step in which nobody appends, counts, pops or un-counts, and nobody becomes entitled.
LEMMA CountQuiet ==
  ASSUME TypeInv, CountInv, UNCHANGED <<chan, accepted, queuedItems>>,
         \A w \in Channels : wpc'[w] = "popped" <=> wpc[w] = "popped",
         \A p \in Pushers : ppc'[p] = "count" <=> ppc[p] = "count",
         \A p \in Pushers : ppc'[p] = "enqueue" \/ (ppc'[p] = "admitted" /\ running' /\ ~forceQuit')
                            => ppc[p] = "enqueue" \/ (ppc[p] = "admitted" /\ running /\ ~forceQuit),
         stopPc = "done" => stopPc' = "done"
  PROVE  CounterAccounts' /\ BoundInv'
<1>1. Queued' = Queued
  BY DEF Queued, InChannel
<1>2. Popped' = Popped
  BY DEF Popped
<1>3. Counting' = Counting
  BY DEF Counting
<1>4. Entitled' \subseteq Entitled
  BY DEF Entitled
<1> QED
  BY <1>1, <1>2, <1>3, <1>4, CountFrame

\* Every step keeps the counter's account and the bound on entitled pushers.
LEMMA CountInvStep == TypeInv /\ PlaceInv /\ CountInv /\ [Next]_vars => CountInv'
<1> SUFFICES ASSUME TypeInv, PlaceInv, CountInv, [Next]_vars PROVE CountInv'
  OBVIOUS
<1> DEFINE Goal == CounterAccounts' /\ BoundInv'
           Quiet == UNCHANGED <<chan, accepted, queuedItems, running, forceQuit, stopPc>>
<1>0. ppc \in [Pushers -> PusherPoints] /\ wpc \in [Channels -> WorkerPoints]
  BY DEF TypeInv, TypeOK
<1>1. ASSUME NEW p \in Pushers, PushRejected(p) PROVE Goal
  <2>1. Quiet /\ ppc' = ppc /\ wpc' = wpc
    BY <1>1 DEF PushRejected, workVars, lifeVars
  <2> QED
    BY <2>1, CountQuiet
<1>2. ASSUME NEW p \in Pushers, NEW s \in {"test", "blocking", "asleep", "idle"},
             Quiet, wpc' = wpc, ppc' = [ppc EXCEPT ![p] = s], ppc[p] # "count"
      PROVE  Goal
  BY <1>0, <1>2, CountQuiet
<1>3. ASSUME NEW p \in Pushers, NEW n \in 1 .. MaxItems, PushBegin(p, n) PROVE Goal
  BY <1>2, <1>3 DEF PushBegin, workVars, lifeVars
<1>4. ASSUME NEW p \in Pushers, PushTest(p) PROVE Goal
  <2>1. Quiet /\ wpc' = wpc /\ ppc[p] = "test"
    BY <1>4 DEF PushTest, workVars, lifeVars
  <2>2. CASE MayProceed
    BY <2>1, <2>2, <1>4, CountAdmit DEF PushTest
  <2>3. CASE ~MayProceed
    BY <2>1, <2>3, <1>2, <1>4 DEF PushTest
  <2> QED
    BY <2>2, <2>3
<1>5. ASSUME NEW p \in Pushers, PushBlock(p) \/ PushSpuriousWakeup(p) PROVE Goal
  BY <1>2, <1>5 DEF PushBlock, PushSpuriousWakeup, workVars, lifeVars
<1>6. ASSUME NEW p \in Pushers, PushTimeout(p) PROVE Goal
  <2>1. Quiet /\ wpc' = wpc /\ ppc[p] = "asleep"
    BY <1>6 DEF PushTimeout, workVars, lifeVars
  <2>2. CASE MayProceed
    <3>1. ppc' = [ppc EXCEPT ![p] = "admitted"]
      BY <2>2, <1>6 DEF PushTimeout
    <3> QED
      BY <2>1, <2>2, <3>1, CountAdmit
  <2>3. CASE ~MayProceed
    BY <2>1, <2>3, <1>2, <1>6 DEF PushTimeout, Return
  <2> QED
    BY <2>2, <2>3
<1>7. ASSUME NEW p \in Pushers, PushRecheck(p) PROVE Goal
  <2>1. Quiet /\ wpc' = wpc /\ ppc[p] = "admitted"
    BY <1>7 DEF PushRecheck, workVars, lifeVars
  <2>2. CASE ~running \/ forceQuit
    BY <2>1, <2>2, <1>2, <1>7 DEF PushRecheck, Return
  <2>3. CASE running /\ ~forceQuit
    <3>1. ppc' = [ppc EXCEPT ![p] = "enqueue"]
      BY <2>3, <1>7 DEF PushRecheck
    <3> QED
      BY <1>0, <2>1, <2>3, <3>1, CountQuiet
  <2> QED
    BY <2>2, <2>3
<1>8. ASSUME NEW p \in Pushers, PushEnqueue(p) \/ PushCount(p) PROVE Goal
  BY <1>8, CountEnqueue, CountCount
<1>9. ASSUME NEW w \in Channels, NEW s \in WorkerPoints \ {"popped"},
             Quiet, ppc' = ppc, wpc' = [wpc EXCEPT ![w] = s], wpc[w] # "popped"
      PROVE  Goal
  BY <1>0, <1>9, CountQuiet
<1>10. ASSUME NEW w \in Channels, WorkerTest(w) PROVE Goal
  <2>1. CASE WorkerPops(w)
    BY <1>10, <2>1, CountPop
  <2>2. CASE WorkerStays(w)
    <3>1. Quiet /\ ppc' = ppc /\ wpc[w] = "test"
      BY <1>10, <2>2 DEF WorkerTest, WorkerStays, pushVars, lifeVars
    <3>2. PICK s \in {"exited", "blocking"} : wpc' = [wpc EXCEPT ![w] = s]
      BY <2>2 DEF WorkerStays
    <3> QED
      BY <3>1, <3>2, <1>9
  <2> QED
    BY <1>10, <2>1, <2>2, WorkerTestCases
<1>11. ASSUME NEW w \in Channels, WorkerBlock(w) \/ WorkerIdle(w) \/ WorkerProcess(w) PROVE Goal
  BY <1>9, <1>11 DEF WorkerBlock, WorkerIdle, WorkerProcess, pushVars, lifeVars
<1>12. ASSUME NEW w \in Channels, WorkerUncount(w) PROVE Goal
  BY <1>12, CountUncount
<1>13. ASSUME NEW w \in Channels, WorkerNotify(w) PROVE Goal
  <2>1. Quiet /\ wpc[w] = "counted" /\ wpc' = [wpc EXCEPT ![w] = "processing"]
    BY <1>13 DEF WorkerNotify, lifeVars
  <2>2. \A p \in Pushers : ppc'[p] = ppc[p] \/ (ppc[p] = "asleep" /\ ppc'[p] = "test")
    BY <1>0, <1>13 DEF WorkerNotify
  <2> QED
    BY <1>0, <2>1, <2>2, CountQuiet
<1>14. ASSUME StopBegin \/ ForceBegin PROVE Goal
  <2>1. /\ UNCHANGED <<chan, accepted, queuedItems, ppc, wpc>>
        /\ running' => running
        /\ forceQuit => forceQuit'
        /\ stopPc = "done" => stopPc' = "done"
    BY <1>14 DEF StopBegin, ForceBegin, pushVars, workVars, CountInv, StopFlags
  <2>2. Queued' = Queued /\ Popped' = Popped /\ Counting' = Counting
    BY <2>1 DEF Queued, InChannel, Popped, Counting
  <2>3. Entitled' \subseteq Entitled
    BY <2>1 DEF Entitled
  <2> QED
    BY <2>1, <2>2, <2>3, CountFrame
<1>15. ASSUME StopNotify \/ ForceNotify PROVE Goal
  <2>1. /\ UNCHANGED <<chan, accepted, queuedItems, running, forceQuit>>
        /\ stopPc = "done" => stopPc' = "done"
        /\ \A p \in Pushers : ppc'[p] = ppc[p] \/ (ppc[p] = "asleep" /\ ppc'[p] = "test")
        /\ \A w \in Channels : wpc'[w] = wpc[w] \/ (wpc[w] = "asleep" /\ wpc'[w] = "test")
    BY <1>15 DEF StopNotify, ForceNotify, AllPushersWoken, workVars
  <2>2. Queued' = Queued
    BY <2>1 DEF Queued, InChannel
  <2>3. Popped' = Popped /\ Counting' = Counting /\ Entitled' \subseteq Entitled
    BY <2>1 DEF Popped, Counting, Entitled
  <2> QED
    BY <2>1, <2>2, <2>3, CountFrame
<1>16. ASSUME NEW c \in Channels, StopChannel(c) PROVE Goal
  <2>1. /\ Quiet /\ ppc' = ppc
        /\ \A w \in Channels : wpc'[w] = wpc[w] \/ (wpc[w] = "asleep" /\ wpc'[w] = "test")
    BY <1>0, <1>16 DEF StopChannel, Woken, pushVars
  <2> QED
    BY <2>1, CountQuiet
<1>17. ASSUME StopJoin PROVE Goal
  <2>1. Queued' = {} /\ stopPc' = "done"
    BY <1>17 DEF StopJoin, Queued, InChannel
  <2>2. Entitled' = Entitled
    BY <1>17 DEF StopJoin, Entitled, pushVars
  <2>3. Cardinality(Queued') = 0
    BY <2>1, FS_EmptySet
  <2>4. BoundInv'
    <3>1. Cardinality(Queued) + Cardinality(Entitled) <= QueueCapacity + Cardinality(Pushers) - 1
      BY DEF CountInv, BoundInv
    <3>2. Cardinality(Queued') + Cardinality(Entitled') <= QueueCapacity + Cardinality(Pushers) - 1
      BY <2>2, <2>3, <3>1, CountedSets, CapacityTypes
    <3> QED
      BY <3>2 DEF BoundInv
  <2> QED
    BY <2>1, <2>4 DEF CounterAccounts
<1>18. ASSUME UNCHANGED vars PROVE Goal
  <2>1. UNCHANGED <<chan, accepted, queuedItems, ppc, wpc, running, forceQuit, stopPc>>
    BY <1>18 DEF vars, pushVars, workVars, lifeVars
  <2> QED
    BY <2>1, CountQuiet
<1>19. StopFlags'
  <2>1. \/ UNCHANGED <<running, stopPc>> \/ (running' = FALSE /\ stopPc' = "notify")
        \/ (running' = running /\ stopPc # "none" /\ stopPc' # "none")
    BY DEF Next, PusherStep, WorkerStep, StopStep, Finished, PushRejected, PushBegin, PushTest,
           PushBlock, PushSpuriousWakeup, PushTimeout, PushRecheck, PushEnqueue, PushCount,
           WorkerTest, WorkerBlock, WorkerIdle, WorkerUncount, WorkerNotify, WorkerProcess,
           StopBegin, StopNotify, StopChannel, StopJoin, ForceBegin, ForceNotify, lifeVars, vars
  <2> QED
    BY <2>1 DEF CountInv, StopFlags
<1> HIDE DEF Goal
<1>20. Goal
  BY <1>1, <1>3, <1>4, <1>5, <1>6, <1>7, <1>8, <1>10, <1>11, <1>12, <1>13, <1>14, <1>15,
     <1>16, <1>17, <1>18
     DEF Next, PusherStep, WorkerStep, StopStep, Finished
<1> QED
  BY <1>19, <1>20 DEF CountInv, Goal

\* The invariants of the counting argument hold throughout.
THEOREM CountInvariant == Spec => [](TypeInv /\ PlaceInv /\ CountInv)
  BY TypeInvInit, TypeInvStep, PlaceInvInit, PlaceInvStep, CountInvInit, CountInvStep, PTL DEF Spec

\* queuedItems_ accounts for every item of every channel, although it is changed outside
\* the mutexes that protect the channels and wraps below zero.
THEOREM CounterIsExact == Spec => []CounterAccounts
  BY CountInvariant, PTL DEF CountInv

\* However the pushers interleave, the channels never hold more than queue_capacity items
\* plus one for every pusher beyond the first.
THEOREM QueueIsBounded == Spec => []QueueBound
<1>1. TypeInv /\ PlaceInv /\ CountInv => QueueBound
  BY CountedSets, CapacityTypes DEF CountInv, BoundInv, QueueBound
<1> QED
  BY <1>1, CountInvariant, PTL

-----------------------------------------------------------------------------
(* Nothing is lost, and stop() drains, when the owner stops a writer nobody pushes to. *)

\* stop() only begins when no push() is in progress, and none begins afterwards.
QuietSinceStop == stopPc # "none" => \A p \in Pushers : ppc[p] = "idle"

\* Channels are told to shut down by stop() alone.
ShutdownByStop == shutdown # {} => stopPc \in {"channels", "done"}

\* A worker leaves its loop with an empty channel that stays empty, unless it was forced.
ExitedIsDrained ==
  \A w \in Channels : wpc[w] = "exited" => forceQuit \/ (w \in shutdown /\ chan[w] = <<>>)

\* stop() returns only after every worker has left its loop.
DoneAfterExit == stopPc = "done" => \A w \in Channels : wpc[w] = "exited"

DrainInv ==
  StopFlags /\ QuietSinceStop /\ ShutdownByStop /\ ExitedIsDrained /\ DoneAfterExit /\ NoItemLost

\* Initially nothing is accepted and no stop has begun.
LEMMA DrainInvInit == Init => DrainInv
  BY DEF Init, DrainInv, StopFlags, QuietSinceStop, ShutdownByStop, ExitedIsDrained,
         DoneAfterExit, NoItemLost

\* A step that moves no item and only forces, never unforces, keeps every item in its place.
LEMMA LostFrame ==
  ASSUME NoItemLost, UNCHANGED <<chan, held, processed, accepted>>,
         stopPc = "done" /\ forceQuit => stopPc' = "done" /\ forceQuit'
  PROVE  NoItemLost'
  BY DEF NoItemLost, InHand, InChannel

\* The appended item is in a channel.
LEMMA LostEnqueue ==
  ASSUME TypeInv, NoItemLost, NEW p \in Pushers, PushEnqueue(p)
  PROVE  NoItemLost'
<1> DEFINE c == TargetChannel(p)
           item == <<p, nextItem[p] + 1>>
<1>1. /\ c \in Channels /\ item \in Items
      /\ chan' = [chan EXCEPT ![c] = Append(chan[c], item)]
      /\ accepted' = accepted \cup {item}
      /\ UNCHANGED <<held, processed, stopPc, forceQuit>>
  BY TargetChannelType, NewItemType DEF PushEnqueue, TypeInv, lifeVars
<1> HIDE DEF c, item
<1>2. \A i : InChannel(i)' <=> InChannel(i) \/ i = item
  BY <1>1, AppendQueues DEF TypeInv
<1>3. \A i : InHand(i)' <=> InHand(i)
  BY <1>1 DEF InHand
<1> QED
  BY <1>1, <1>2, <1>3 DEF NoItemLost

\* The popped item is in the worker's hands, whose hands were empty.
LEMMA LostPop ==
  ASSUME TypeInv, PlaceInv, NoItemLost, NEW w \in Channels, WorkerTest(w), WorkerPops(w)
  PROVE  NoItemLost'
<1> DEFINE item == Head(chan[w])
<1>1. /\ chan[w] # <<>>
      /\ chan' = [chan EXCEPT ![w] = Tail(chan[w])]
      /\ held' = [held EXCEPT ![w] = item]
      /\ wpc[w] = "test"
      /\ UNCHANGED <<accepted, processed, stopPc, forceQuit>>
  BY WorkerTestCases DEF WorkerPops, lifeVars
<1>2. \A i : InChannel(i)' <=> InChannel(i) /\ i # item
  BY <1>1, PopUnqueues DEF TypeInv, PlaceInv
<1>3. held[w] = NoItem /\ held \in [Channels -> Items \cup {NoItem}]
  BY <1>1 DEF TypeInv, HeldWhenBusy, TypeOK
<1>4. held'[w] = item /\ \A v \in Channels : v # w => held'[v] = held[v]
  BY <1>1, <1>3
<1>5. \A i \in Items : InHand(i) => InHand(i)'
  BY <1>3, <1>4, NoItemIsNone DEF InHand
<1>6. \A i : i = item => InHand(i)'
  BY <1>4 DEF InHand
<1>7. accepted \subseteq Items
  BY DEF TypeInv, TypeOK
<1> HIDE DEF item
<1> QED
  BY <1>1, <1>2, <1>5, <1>6, <1>7 DEF NoItemLost

\* The item a worker lets go of is processed.
LEMMA LostProcess ==
  ASSUME TypeInv, NoItemLost, NEW w \in Channels, WorkerProcess(w)
  PROVE  NoItemLost'
<1>1. /\ UNCHANGED <<chan, accepted, stopPc, forceQuit>>
      /\ processed' = processed \cup {held[w]}
      /\ \A v \in Channels : v # w => held'[v] = held[v]
  BY DEF WorkerProcess, lifeVars, TypeInv, TypeOK
<1>2. \A i : InChannel(i)' <=> InChannel(i)
  BY <1>1 DEF InChannel
<1>3. \A i : InHand(i) => InHand(i)' \/ i = held[w]
  BY <1>1 DEF InHand
<1> QED
  BY <1>1, <1>2, <1>3 DEF NoItemLost

\* With a quiescent owner every step keeps the items accounted for.
LEMMA DrainInvStep ==
  ASSUME QuiescentStop, TypeInv, PlaceInv, DrainInv, [Next]_vars
  PROVE  DrainInv'
<1> DEFINE Life == UNCHANGED <<running, forceQuit, stopPc, forcePc, shutdown>>
<1>0. /\ ppc \in [Pushers -> PusherPoints] /\ wpc \in [Channels -> WorkerPoints]
      /\ chan \in [Channels -> Seq(Items)] /\ shutdown \subseteq Channels
  BY DEF TypeInv, TypeOK
<1>a. /\ StopFlags /\ QuietSinceStop /\ ShutdownByStop /\ ExitedIsDrained /\ DoneAfterExit
      /\ NoItemLost
  BY DEF DrainInv
\* While anybody is inside push(), stop() has not begun and no worker has left unforced.
<1>b. ASSUME NEW p \in Pushers, ppc[p] # "idle" \/ running PROVE stopPc = "none"
  BY <1>a, <1>b DEF QuietSinceStop, StopFlags
<1>1. ASSUME NEW p \in Pushers,
             Life, UNCHANGED <<chan, held, processed, accepted>>, wpc' = wpc,
             stopPc = "none" \/ ppc' = ppc
      PROVE  DrainInv'
  <2>1. NoItemLost'
    BY <1>a, <1>1, LostFrame
  <2> QED
    BY <2>1, <1>a, <1>1 DEF DrainInv, StopFlags, QuietSinceStop, ShutdownByStop,
       ExitedIsDrained, DoneAfterExit
<1>2. ASSUME NEW p \in Pushers, PushRejected(p) PROVE DrainInv'
  <2>1. Life /\ UNCHANGED <<chan, held, processed, accepted>> /\ wpc' = wpc /\ ppc' = ppc
    BY <1>2 DEF PushRejected, workVars, lifeVars
  <2> QED
    BY <2>1, <1>1
<1>3. ASSUME NEW p \in Pushers, NEW n \in 1 .. MaxItems, PushBegin(p, n) PROVE DrainInv'
  <2>1. Life /\ UNCHANGED <<chan, held, processed, accepted>> /\ wpc' = wpc /\ running
    BY <1>3 DEF PushBegin, workVars, lifeVars
  <2> QED
    BY <2>1, <1>1, <1>b
<1>4. ASSUME NEW p \in Pushers,
             \/ PushTest(p) \/ PushBlock(p) \/ PushSpuriousWakeup(p) \/ PushTimeout(p)
             \/ PushRecheck(p) \/ PushCount(p)
      PROVE  DrainInv'
  <2>1. Life /\ UNCHANGED <<chan, held, processed, accepted>> /\ wpc' = wpc /\ ppc[p] # "idle"
    BY <1>4 DEF PushTest, PushBlock, PushSpuriousWakeup, PushTimeout, PushRecheck, PushCount,
                workVars, lifeVars
  <2> QED
    BY <2>1, <1>1, <1>b
<1>5. ASSUME NEW p \in Pushers, PushEnqueue(p) PROVE DrainInv'
  <2>1. stopPc = "none" /\ Life
    BY <1>5, <1>b DEF PushEnqueue, lifeVars
  <2>2. shutdown = {}
    BY <2>1, <1>a DEF ShutdownByStop
  <2>3. \A w \in Channels : wpc'[w] = "exited" => wpc[w] = "exited"
    BY <1>0, <1>5, TargetChannelType DEF PushEnqueue, Woken, TypeInv
  <2>4. \A w \in Channels : wpc'[w] = "exited" => forceQuit'
    BY <2>1, <2>2, <2>3, <1>a DEF ExitedIsDrained
  <2>5. NoItemLost'
    BY <1>5, <1>a, LostEnqueue
  <2> QED
    BY <2>1, <2>2, <2>4, <2>5, <1>a DEF DrainInv, StopFlags, QuietSinceStop, ShutdownByStop,
       ExitedIsDrained, DoneAfterExit
\* A worker's step, once its own channel and the items are settled.
<1>6. ASSUME NEW w \in Channels, Life, wpc[w] # "exited", NoItemLost',
             stopPc = "none" \/ ppc' = ppc,
             \A v \in Channels : v # w => wpc'[v] = wpc[v] /\ chan'[v] = chan[v],
             wpc'[w] = "exited" => forceQuit \/ (w \in shutdown /\ chan'[w] = <<>>)
      PROVE  DrainInv'
  <2>1. ExitedIsDrained'
    BY <1>6, <1>a DEF ExitedIsDrained
  <2> QED
    BY <2>1, <1>6, <1>a DEF DrainInv, StopFlags, QuietSinceStop, ShutdownByStop, DoneAfterExit
<1>7. ASSUME NEW w \in Channels, WorkerTest(w) PROVE DrainInv'
  <2>1. Life /\ ppc' = ppc /\ wpc[w] = "test" /\ UNCHANGED <<accepted, processed>>
    BY <1>7, WorkerTestCases DEF pushVars, lifeVars
  <2>2. CASE WorkerPops(w)
    <3>1. NoItemLost'
      BY <1>7, <2>2, <1>a, LostPop
    <3>2. /\ \A v \in Channels : v # w => wpc'[v] = wpc[v] /\ chan'[v] = chan[v]
          /\ wpc'[w] # "exited"
      BY <2>2, <1>0 DEF WorkerPops
    <3> QED
      BY <2>1, <3>1, <3>2, <1>6
  <2>3. CASE WorkerStays(w)
    <3>1. UNCHANGED <<chan, held>>
      BY <2>3 DEF WorkerStays
    <3>2. NoItemLost'
      BY <2>1, <3>1, <1>a, LostFrame
    <3>3. \A v \in Channels : v # w => wpc'[v] = wpc[v] /\ chan'[v] = chan[v]
      BY <2>3, <3>1, <1>0 DEF WorkerStays
    <3>4. wpc'[w] = "exited" => forceQuit \/ (w \in shutdown /\ chan'[w] = <<>>)
      BY <1>7, <1>0, <3>1 DEF WorkerTest
    <3> QED
      BY <2>1, <3>2, <3>3, <3>4, <1>6
  <2> QED
    BY <1>7, <2>2, <2>3, WorkerTestCases
<1>8. ASSUME NEW w \in Channels, WorkerBlock(w) \/ WorkerIdle(w) \/ WorkerUncount(w) PROVE DrainInv'
  <2>1. /\ Life /\ ppc' = ppc /\ UNCHANGED <<chan, held, accepted, processed>>
        /\ wpc[w] # "exited" /\ wpc'[w] # "exited"
        /\ \A v \in Channels : v # w => wpc'[v] = wpc[v]
    BY <1>8, <1>0 DEF WorkerBlock, WorkerIdle, WorkerUncount, pushVars, lifeVars
  <2>2. NoItemLost'
    BY <2>1, <1>a, LostFrame
  <2> QED
    BY <2>1, <2>2, <1>6
<1>9. ASSUME NEW w \in Channels, WorkerNotify(w) PROVE DrainInv'
  <2>1. /\ Life /\ UNCHANGED <<chan, held, accepted, processed>>
        /\ wpc[w] # "exited" /\ wpc'[w] # "exited"
        /\ \A v \in Channels : v # w => wpc'[v] = wpc[v]
    BY <1>9, <1>0 DEF WorkerNotify, lifeVars
  <2>2. NoItemLost'
    BY <2>1, <1>a, LostFrame
  <2>3. stopPc = "none" \/ ppc' = ppc
    BY <1>9, <1>b DEF WorkerNotify
  <2> QED
    BY <2>1, <2>2, <2>3, <1>6
<1>10. ASSUME NEW w \in Channels, WorkerProcess(w) PROVE DrainInv'
  <2>1. /\ Life /\ ppc' = ppc /\ chan' = chan
        /\ wpc[w] # "exited" /\ wpc'[w] # "exited"
        /\ \A v \in Channels : v # w => wpc'[v] = wpc[v]
    BY <1>10, <1>0 DEF WorkerProcess, pushVars, lifeVars
  <2>2. NoItemLost'
    BY <1>10, <1>a, LostProcess
  <2> QED
    BY <2>1, <2>2, <1>6
<1>11. ASSUME StopBegin PROVE DrainInv'
  <2>1. /\ UNCHANGED <<chan, held, processed, accepted, ppc, wpc, forceQuit, shutdown>>
        /\ running /\ ~running' /\ stopPc' = "notify"
        /\ \A p \in Pushers : ppc[p] = "idle"
    BY <1>11, QuiescentStop DEF StopBegin, pushVars, workVars
  <2>2. stopPc = "none" /\ shutdown = {}
    BY <2>1, <1>a DEF StopFlags, ShutdownByStop
  <2>3. NoItemLost'
    BY <2>1, <2>2, <1>a, LostFrame
  <2> QED
    BY <2>1, <2>2, <2>3, <1>a DEF DrainInv, StopFlags, QuietSinceStop, ShutdownByStop,
       ExitedIsDrained, DoneAfterExit
<1>12. ASSUME StopNotify PROVE DrainInv'
  <2>1. /\ UNCHANGED <<chan, held, processed, accepted, wpc, running, forceQuit, shutdown>>
        /\ stopPc = "notify" /\ stopPc' = "channels"
        /\ \A p \in Pushers : ppc'[p] = IF ppc[p] = "asleep" THEN "test" ELSE ppc[p]
    BY <1>12 DEF StopNotify, workVars, AllPushersWoken
  <2>2. NoItemLost'
    BY <2>1, <1>a, LostFrame
  <2> QED
    BY <2>1, <2>2, <1>a DEF DrainInv, StopFlags, QuietSinceStop, ShutdownByStop,
       ExitedIsDrained, DoneAfterExit
<1>13. ASSUME NEW c \in Channels, StopChannel(c) PROVE DrainInv'
  <2>1. /\ UNCHANGED <<chan, held, processed, accepted, ppc, running, forceQuit, stopPc>>
        /\ stopPc = "channels" /\ shutdown' = shutdown \cup {c}
    BY <1>13 DEF StopChannel, pushVars
  <2>2. \A v \in Channels : wpc'[v] = "exited" => wpc[v] = "exited"
    BY <1>13, <1>0 DEF StopChannel, Woken
  <2>3. NoItemLost'
    BY <2>1, <1>a, LostFrame
  <2> QED
    BY <2>1, <2>2, <2>3, <1>a DEF DrainInv, StopFlags, QuietSinceStop, ShutdownByStop,
       ExitedIsDrained, DoneAfterExit
<1>14. ASSUME StopJoin PROVE DrainInv'
  <2>1. /\ UNCHANGED <<held, processed, accepted, ppc, wpc, running, forceQuit, shutdown>>
        /\ stopPc = "channels" /\ stopPc' = "done"
        /\ shutdown = Channels /\ \A c \in Channels : wpc[c] = "exited"
        /\ chan' = [c \in Channels |-> <<>>]
    BY <1>14 DEF StopJoin, pushVars, workVars
  <2>4. NoItemLost'
    <3>1. CASE forceQuit
      BY <2>1, <3>1 DEF NoItemLost
    <3>2. CASE ~forceQuit
      <4>1. \A c \in Channels : chan[c] = <<>>
        BY <2>1, <3>2, <1>a DEF ExitedIsDrained
      <4>2. chan' = chan
        BY <2>1, <4>1, <1>0
      <4> QED
        BY <2>1, <3>2, <4>2, <1>a, LostFrame
    <3> QED
      BY <3>1, <3>2
  <2> QED
    BY <2>1, <2>4, <1>a DEF DrainInv, StopFlags, QuietSinceStop, ShutdownByStop,
       ExitedIsDrained, DoneAfterExit
<1>15. ASSUME ForceBegin \/ ForceNotify PROVE DrainInv'
  <2>1. /\ UNCHANGED <<chan, held, processed, accepted, running, shutdown, stopPc>>
        /\ forceQuit => forceQuit'
        /\ \A v \in Channels : wpc'[v] = "exited" <=> wpc[v] = "exited"
        /\ \A p \in Pushers : ppc[p] = "idle" => ppc'[p] = "idle"
    <3>1. CASE ForceBegin
      BY <3>1 DEF ForceBegin, pushVars, workVars
    <3>2. CASE ForceNotify
      BY <3>2 DEF ForceNotify, AllPushersWoken
    <3> QED
      BY <1>15, <3>1, <3>2
  <2>2. NoItemLost'
    BY <2>1, <1>a, LostFrame
  <2>3. ExitedIsDrained'
    BY <2>1, <1>a DEF ExitedIsDrained
  <2> QED
    BY <2>1, <2>2, <2>3, <1>a DEF DrainInv, StopFlags, QuietSinceStop, ShutdownByStop, DoneAfterExit
<1>16. ASSUME UNCHANGED vars PROVE DrainInv'
  <2>1. Life /\ UNCHANGED <<chan, held, processed, accepted, ppc, wpc>>
    BY <1>16 DEF vars, pushVars, workVars, lifeVars
  <2>2. NoItemLost'
    BY <2>1, <1>a, LostFrame
  <2> QED
    BY <2>1, <2>2, <1>a DEF DrainInv, StopFlags, QuietSinceStop, ShutdownByStop,
       ExitedIsDrained, DoneAfterExit
<1> QED
  BY <1>2, <1>3, <1>4, <1>5, <1>7, <1>8, <1>9, <1>10, <1>11, <1>12, <1>13, <1>14, <1>15, <1>16
     DEF Next, PusherStep, WorkerStep, StopStep, Finished

\* With a quiescent owner no accepted item goes missing, for any number of threads and items.
THEOREM NeverLost == ASSUME QuiescentStop PROVE Spec => []NoItemLost
<1>1. TypeInv /\ PlaceInv /\ DrainInv /\ [Next]_vars => DrainInv'
  BY QuiescentStop, DrainInvStep
<1>2. Spec => [](TypeInv /\ PlaceInv /\ DrainInv)
  BY <1>1, TypeInvInit, TypeInvStep, PlaceInvInit, PlaceInvStep, DrainInvInit, PTL DEF Spec
<1> QED
  BY <1>2, PTL DEF DrainInv

\* With a quiescent owner an unforced stop() returns only when everything is processed.
THEOREM StopIsDrain == ASSUME QuiescentStop PROVE Spec => []StopDrains
<1>1. TypeInv /\ PlaceInv /\ DrainInv /\ [Next]_vars => DrainInv'
  BY QuiescentStop, DrainInvStep
<1>2. Spec => [](TypeInv /\ PlaceInv /\ DrainInv)
  BY <1>1, TypeInvInit, TypeInvStep, PlaceInvInit, PlaceInvStep, DrainInvInit, PTL DEF Spec
<1>3. TypeInv /\ DrainInv => StopDrains
  <2> SUFFICES ASSUME TypeInv, DrainInv, stopPc = "done", ~forceQuit
               PROVE  accepted \subseteq processed
    BY DEF StopDrains
  <2>1. \A w \in Channels : wpc[w] = "exited" /\ chan[w] = <<>>
    BY DEF DrainInv, DoneAfterExit, ExitedIsDrained
  <2>2. \A w \in Channels : held[w] = NoItem
    BY <2>1 DEF TypeInv, HeldWhenBusy
  <2>3. \A i \in Items : ~InHand(i)
    BY <2>2, NoItemIsNone DEF InHand
  <2>4. \A i : ~InChannel(i)
    BY <2>1 DEF InChannel
  <2>5. accepted \subseteq Items
    BY DEF TypeInv, TypeOK
  <2> QED
    BY <2>3, <2>4, <2>5 DEF DrainInv, NoItemLost
<1> QED
  BY <1>2, <1>3, PTL

-----------------------------------------------------------------------------
(* The items of one routing key are worked on in the order they were pushed. *)

\* A pinned pusher's items only ever sit in its channel or in the hands of its worker.
Pinned ==
  \A c \in Channels :
    /\ \A k \in 1 .. Len(chan[c]) : RouteOf[chan[c][k][1]] \in {RoundRobin, c}
    /\ held[c] # NoItem => RouteOf[held[c][1]] \in {RoundRobin, c}

\* In every deque the items of one pusher stand in the order of their numbers.
InOrder ==
  \A c \in Channels : \A j, k \in 1 .. Len(chan[c]) :
    j < k /\ chan[c][j][1] = chan[c][k][1] => chan[c][j][2] < chan[c][k][2]

\* Until stop() clears the channels every accepted item is somewhere.
Present ==
  stopPc # "done" => \A i \in accepted : i \in processed \/ InHand(i) \/ InChannel(i)

KeyInv == Pinned /\ InOrder /\ Present /\ DoneAfterExit /\ KeyOrder

\* Initially nothing is accepted.
LEMMA KeyInvInit == Init => KeyInv
<1> SUFFICES ASSUME Init PROVE KeyInv
  OBVIOUS
<1>1. /\ \A c \in Channels : chan[c] = <<>> /\ held[c] = NoItem
      /\ accepted = {} /\ stopPc = "none"
  BY DEF Init
<1>2. \A c \in Channels : 1 .. Len(chan[c]) = {}
  BY <1>1
<1> QED
  BY <1>1, <1>2 DEF KeyInv, Pinned, InOrder, Present, DoneAfterExit, KeyOrder

\* A step that moves no item.
LEMMA KeyFrame ==
  ASSUME KeyInv, UNCHANGED <<chan, held, processed, accepted>>,
         stopPc = "done" => stopPc' = "done", DoneAfterExit'
  PROVE  KeyInv'
  BY DEF KeyInv, Pinned, InOrder, Present, KeyOrder, InHand, InChannel

\* The appended item has the highest number of its pusher and goes to the pusher's channel.
LEMMA KeyEnqueue ==
  ASSUME TypeInv, PlaceInv, KeyInv, NEW p \in Pushers, PushEnqueue(p)
  PROVE  KeyInv'
<1> DEFINE c == TargetChannel(p)
           item == <<p, nextItem[p] + 1>>
<1>1. /\ c \in Channels /\ item \in Items /\ item \notin accepted
      /\ chan' = [chan EXCEPT ![c] = Append(chan[c], item)]
      /\ accepted' = accepted \cup {item}
      /\ UNCHANGED <<held, processed, stopPc>>
      /\ stopPc # "done"
  BY TargetChannelType, NewItemType, NewItemIsNew DEF PushEnqueue, TypeInv, lifeVars
<1>2. RouteOf[item[1]] \in {RoundRobin, c}
  BY DEF TargetChannel
<1>3. item[1] = p /\ item[2] = nextItem[p] + 1 /\ nextItem[p] \in Nat
  BY ConstantTypes DEF TypeInv, TypeOK
\* Every accepted item of p has a lower number.
<1>4. ASSUME NEW i \in accepted, i[1] = p PROVE i[2] \in Nat /\ i[2] < item[2]
  <2>1. PICK q \in Pushers, n \in 1 .. MaxItems : i = <<q, n>>
    BY <1>4 DEF TypeInv, TypeOK, Items
  <2>2. q = p /\ i[2] = n /\ n \in Nat
    BY <2>1, <1>4, ConstantTypes
  <2>3. n <= nextItem[p]
    BY <2>1, <2>2 DEF PlaceInv, Numbered
  <2> QED
    BY <2>2, <2>3, <1>3
<1> HIDE DEF c, item
<1>5. chan[c] \in Seq(Items) /\ Len(chan[c]) \in Nat
  <2>1. chan \in [Channels -> Seq(Items)]
    BY DEF TypeInv, TypeOK
  <2> QED
    BY <2>1, <1>1
<1>6. /\ chan'[c] = Append(chan[c], item)
      /\ \A d \in Channels : d # c => chan'[d] = chan[d]
  BY <1>1 DEF TypeInv, TypeOK
<1>7. /\ Len(chan'[c]) = Len(chan[c]) + 1
      /\ \A k \in 1 .. Len(chan[c]) : chan'[c][k] = chan[c][k]
      /\ chan'[c][Len(chan[c]) + 1] = item
  BY <1>5, <1>6
<1>8. \A i : InChannel(i)' <=> InChannel(i) \/ i = item
  BY <1>1, AppendQueues DEF TypeInv
<1>9. \A i : InHand(i)' <=> InHand(i)
  BY <1>1 DEF InHand
<1>10. Pinned'
  <2> SUFFICES ASSUME NEW d \in Channels
               PROVE  /\ \A k \in 1 .. Len(chan'[d]) : RouteOf[chan'[d][k][1]] \in {RoundRobin, d}
                      /\ held'[d] # NoItem => RouteOf[held'[d][1]] \in {RoundRobin, d}
    BY DEF Pinned
  <2>1. held'[d] # NoItem => RouteOf[held'[d][1]] \in {RoundRobin, d}
    BY <1>1 DEF KeyInv, Pinned
  <2>2. CASE d # c
    BY <2>1, <2>2, <1>6 DEF KeyInv, Pinned
  <2>3. CASE d = c
    <3> SUFFICES ASSUME NEW k \in 1 .. Len(chan'[c])
                 PROVE  RouteOf[chan'[c][k][1]] \in {RoundRobin, c}
      BY <2>1, <2>3
    <3>1. CASE k \in 1 .. Len(chan[c])
      BY <3>1, <1>1, <1>7 DEF KeyInv, Pinned
    <3>2. CASE k = Len(chan[c]) + 1
      BY <3>2, <1>2, <1>7
    <3> QED
      BY <3>1, <3>2, <1>5, <1>7
  <2> QED
    BY <2>2, <2>3
<1>11. InOrder'
  <2> SUFFICES ASSUME NEW d \in Channels, NEW j \in 1 .. Len(chan'[d]), NEW k \in 1 .. Len(chan'[d]),
                      j < k, chan'[d][j][1] = chan'[d][k][1]
               PROVE  chan'[d][j][2] < chan'[d][k][2]
    BY DEF InOrder
  <2>1. CASE d # c
    BY <2>1, <1>6 DEF KeyInv, InOrder
  <2>2. CASE d = c /\ k \in 1 .. Len(chan[c])
    <3>1. j \in 1 .. Len(chan[c])
      BY <2>2, <1>5
    <3>2. chan'[d][j] = chan[c][j] /\ chan'[d][k] = chan[c][k]
      BY <3>1, <2>2, <1>7
    <3> QED
      BY <3>1, <3>2, <2>2, <1>1 DEF KeyInv, InOrder
  <2>3. CASE d = c /\ k = Len(chan[c]) + 1
    <3>1. j \in 1 .. Len(chan[c])
      BY <2>3, <1>5, <1>7
    <3>2. chan'[d][j] = chan[c][j] /\ chan'[d][k] = item
      BY <3>1, <2>3, <1>7
    <3>3. chan[c][j] \in accepted
      BY <3>1, <1>1 DEF PlaceInv, OnlyAccepted
    <3> QED
      BY <3>2, <3>3, <1>3, <1>4
  <2> QED
    BY <2>1, <2>2, <2>3, <1>5, <1>7
<1>12. Present'
  BY <1>1, <1>8, <1>9 DEF KeyInv, Present
<1>13. DoneAfterExit'
  BY <1>1 DEF DoneAfterExit
<1>14. KeyOrder'
  <2> SUFFICES ASSUME NEW q \in Pushers, RouteOf[q] # RoundRobin,
                      NEW m \in 1 .. MaxItems, NEW n \in 1 .. MaxItems,
                      m < n, <<q, m>> \in accepted', <<q, n>> \in processed' \/ InHand(<<q, n>>)'
               PROVE  <<q, m>> \in processed'
    BY DEF KeyOrder
  <2>1. <<q, n>> \in processed \/ InHand(<<q, n>>)
    BY <1>1, <1>9
  <2>2. <<q, n>> \in accepted
    <3>1. <<q, n>> # NoItem
      BY NoItemIsNone DEF Items
    <3> QED
      BY <2>1, <3>1 DEF PlaceInv, OnlyAccepted, InHand
  <2>3. <<q, m>> # item
    <3> SUFFICES ASSUME <<q, m>> = item PROVE FALSE
      OBVIOUS
    <3>1. q = p /\ m = item[2] /\ m \in Nat
      BY <1>3, ConstantTypes
    <3>2. n \in Nat /\ n < item[2]
      BY <3>1, <2>2, <1>4
    <3> QED
      BY <3>1, <3>2
  <2>4. <<q, m>> \in accepted
    BY <2>3, <1>1
  <2> QED
    BY <2>1, <2>4, <1>1 DEF KeyInv, KeyOrder
<1> QED
  BY <1>10, <1>11, <1>12, <1>13, <1>14 DEF KeyInv

\* The front item of a channel is the oldest of its pusher that is not processed: the older
\* ones are not behind it, and no other worker holds items of this channel.
LEMMA KeyPop ==
  ASSUME TypeInv, PlaceInv, KeyInv, NEW w \in Channels, WorkerTest(w), WorkerPops(w)
  PROVE  KeyInv'
<1> DEFINE item == Head(chan[w])
<1>1. /\ UNCHANGED <<accepted, processed, stopPc>>
      /\ held' = [held EXCEPT ![w] = item]
      /\ chan' = [chan EXCEPT ![w] = Tail(chan[w])]
      /\ chan[w] # <<>> /\ wpc[w] = "test"
  BY WorkerTestCases DEF WorkerPops, lifeVars
<1>2. item \in Items /\ item # NoItem
  BY <1>1, FrontType, NoItemIsNone DEF TypeInv
<1>3. chan \in [Channels -> Seq(Items)] /\ held \in [Channels -> Items \cup {NoItem}]
  BY DEF TypeInv, TypeOK
<1>4. Len(chan[w]) \in Nat /\ Len(chan[w]) > 0 /\ item = chan[w][1]
  BY <1>1, <1>3
<1>5. stopPc # "done"
  BY <1>1 DEF KeyInv, DoneAfterExit
<1>6. /\ chan'[w] = Tail(chan[w])
      /\ \A d \in Channels : d # w => chan'[d] = chan[d]
  BY <1>1, <1>3
<1>7. /\ Len(chan'[w]) = Len(chan[w]) - 1
      /\ \A k \in 1 .. Len(chan'[w]) : chan'[w][k] = chan[w][k + 1]
  <2> DEFINE q == chan[w]
  <2>1. q \in Seq(Items) /\ q # <<>>
    BY <1>1, <1>3
  <2> HIDE DEF q
  <2>2. /\ Len(Tail(q)) = Len(q) - 1
        /\ \A k \in 1 .. Len(Tail(q)) : Tail(q)[k] = q[k + 1]
    BY <2>1
  <2> QED
    BY <2>2, <1>6 DEF q
<1>8. \A i : InChannel(i)' <=> InChannel(i) /\ i # item
  BY <1>1, PopUnqueues DEF TypeInv, PlaceInv
<1>9. /\ held'[w] = item /\ held[w] = NoItem
      /\ \A v \in Channels : v # w => held'[v] = held[v]
  BY <1>1, <1>3 DEF TypeInv, HeldWhenBusy
<1>10. \A i \in Items : InHand(i)' <=> InHand(i) \/ i = item
  BY <1>9, <1>2, NoItemIsNone DEF InHand
<1> HIDE DEF item
<1>11. \A k \in 1 .. Len(chan'[w]) : k + 1 \in 1 .. Len(chan[w])
  BY <1>4, <1>7
<1>12. Pinned'
  <2> SUFFICES ASSUME NEW d \in Channels
               PROVE  /\ \A k \in 1 .. Len(chan'[d]) : RouteOf[chan'[d][k][1]] \in {RoundRobin, d}
                      /\ held'[d] # NoItem => RouteOf[held'[d][1]] \in {RoundRobin, d}
    BY DEF Pinned
  <2>1. CASE d # w
    BY <2>1, <1>6, <1>9 DEF KeyInv, Pinned
  <2>2. CASE d = w
    <3>1. \A k \in 1 .. Len(chan'[w]) : RouteOf[chan'[w][k][1]] \in {RoundRobin, w}
      BY <1>7, <1>11 DEF KeyInv, Pinned
    <3>2. 1 \in 1 .. Len(chan[w])
      BY <1>4
    <3>3. RouteOf[held'[w][1]] \in {RoundRobin, w}
      BY <3>2, <1>4, <1>9 DEF KeyInv, Pinned
    <3> QED
      BY <2>2, <3>1, <3>3
  <2> QED
    BY <2>1, <2>2
<1>13. InOrder'
  <2> SUFFICES ASSUME NEW d \in Channels, NEW j \in 1 .. Len(chan'[d]), NEW k \in 1 .. Len(chan'[d]),
                      j < k, chan'[d][j][1] = chan'[d][k][1]
               PROVE  chan'[d][j][2] < chan'[d][k][2]
    BY DEF InOrder
  <2>1. CASE d # w
    BY <2>1, <1>6 DEF KeyInv, InOrder
  <2>2. CASE d = w
    <3>1. j + 1 \in 1 .. Len(chan[w]) /\ k + 1 \in 1 .. Len(chan[w]) /\ j + 1 < k + 1
      BY <2>2, <1>11
    <3>2. chan'[d][j] = chan[w][j + 1] /\ chan'[d][k] = chan[w][k + 1]
      BY <2>2, <1>7
    <3> QED
      BY <3>1, <3>2 DEF KeyInv, InOrder
  <2> QED
    BY <2>1, <2>2
<1>14. Present'
  <2>1. accepted \subseteq Items
    BY DEF TypeInv, TypeOK
  <2> QED
    BY <2>1, <1>1, <1>8, <1>10 DEF KeyInv, Present
<1>15. DoneAfterExit'
  BY <1>1, <1>5 DEF DoneAfterExit
<1>16. KeyOrder'
  <2> SUFFICES ASSUME NEW p \in Pushers, RouteOf[p] # RoundRobin,
                      NEW m \in 1 .. MaxItems, NEW n \in 1 .. MaxItems,
                      m < n, <<p, m>> \in accepted, <<p, n>> \in processed \/ InHand(<<p, n>>)'
               PROVE  <<p, m>> \in processed
    BY <1>1 DEF KeyOrder
  <2>0. <<p, m>> \in Items /\ <<p, n>> \in Items
    BY DEF Items
  <2>1. CASE <<p, n>> # item
    BY <2>0, <2>1, <1>10 DEF KeyInv, KeyOrder
  <2>2. CASE <<p, n>> = item
    <3>1. RouteOf[p] = w
      BY <2>2, <1>4 DEF KeyInv, Pinned
    <3>2. ~InHand(<<p, m>>)
      <4> SUFFICES ASSUME NEW v \in Channels, held[v] = <<p, m>> PROVE FALSE
        BY DEF InHand
      <4>1. held[v] # NoItem /\ held[v][1] = p
        BY <2>0, NoItemIsNone
      <4>2. v = w
        BY <4>1, <3>1 DEF KeyInv, Pinned
      <4> QED
        BY <4>1, <4>2, <1>9
    <3>3. ~InChannel(<<p, m>>)
      <4> SUFFICES ASSUME NEW d \in Channels, NEW k \in 1 .. Len(chan[d]), chan[d][k] = <<p, m>>
                   PROVE  FALSE
        BY DEF InChannel
      <4>1. d = w
        <5>1. RouteOf[chan[d][k][1]] \in {RoundRobin, d}
          BY DEF KeyInv, Pinned
        <5>2. chan[d][k][1] = p
          OBVIOUS
        <5> QED
          BY <5>1, <5>2, <3>1
      <4>2. m \in Nat /\ n \in Nat
        BY ConstantTypes
      <4>3. k # 1
        BY <4>1, <4>2, <2>2, <1>4
      <4>4. 1 \in 1 .. Len(chan[w]) /\ k \in 1 .. Len(chan[w]) /\ 1 < k
        BY <4>1, <4>3, <1>4
      <4>5. chan[w][1] = <<p, n>> /\ chan[w][k] = <<p, m>>
        BY <4>1, <2>2, <1>4
      <4>6. chan[w][1][1] = chan[w][k][1] /\ chan[w][1][2] = n /\ chan[w][k][2] = m
        BY <4>5
      <4>7. n < m
        BY <4>4, <4>6 DEF KeyInv, InOrder
      <4> QED
        BY <4>2, <4>7
    <3> QED
      BY <3>2, <3>3, <1>5 DEF KeyInv, Present
  <2> QED
    BY <2>1, <2>2
<1> QED
  BY <1>12, <1>13, <1>14, <1>15, <1>16 DEF KeyInv

\* Processing takes the item from the worker's hands to the processed ones.
LEMMA KeyProcess ==
  ASSUME TypeInv, KeyInv, NEW w \in Channels, WorkerProcess(w)
  PROVE  KeyInv'
<1>1. /\ UNCHANGED <<chan, accepted, stopPc>>
      /\ processed' = processed \cup {held[w]}
      /\ held'[w] = NoItem /\ wpc[w] = "processing"
      /\ \A v \in Channels : v # w => held'[v] = held[v]
  BY DEF WorkerProcess, lifeVars, TypeInv, TypeOK
<1>2. \A i : InChannel(i)' <=> InChannel(i)
  BY <1>1 DEF InChannel
<1>3. \A i \in Items : (i \in processed' \/ InHand(i)') <=> (i \in processed \/ InHand(i))
  BY <1>1, NoItemIsNone DEF InHand
<1>4. Pinned' /\ InOrder'
  BY <1>1 DEF KeyInv, Pinned, InOrder
<1>5. Present'
  <2>1. accepted \subseteq Items
    BY DEF TypeInv, TypeOK
  <2> QED
    BY <2>1, <1>1, <1>2, <1>3 DEF KeyInv, Present
<1>6. DoneAfterExit'
  BY <1>1 DEF KeyInv, DoneAfterExit
<1>7. KeyOrder'
  <2> SUFFICES ASSUME NEW p \in Pushers, RouteOf[p] # RoundRobin,
                      NEW m \in 1 .. MaxItems, NEW n \in 1 .. MaxItems,
                      m < n, <<p, m>> \in accepted, <<p, n>> \in processed' \/ InHand(<<p, n>>)'
               PROVE  <<p, m>> \in processed'
    BY <1>1 DEF KeyOrder
  <2>1. <<p, n>> \in processed \/ InHand(<<p, n>>)
    BY <1>3 DEF Items
  <2>2. <<p, m>> \in processed
    BY <2>1 DEF KeyInv, KeyOrder
  <2> QED
    BY <2>2, <1>1
<1> QED
  BY <1>4, <1>5, <1>6, <1>7 DEF KeyInv

\* Every step keeps the items of a routing key in order.
LEMMA KeyInvStep == TypeInv /\ PlaceInv /\ CountInv /\ KeyInv /\ [Next]_vars => KeyInv'
<1> SUFFICES ASSUME TypeInv, PlaceInv, CountInv, KeyInv, [Next]_vars PROVE KeyInv'
  OBVIOUS
<1> DEFINE Still == UNCHANGED <<chan, held, processed, accepted>>
<1>0. wpc \in [Channels -> WorkerPoints] /\ DoneAfterExit
  BY DEF TypeInv, TypeOK, KeyInv
<1>1. ASSUME Still, stopPc' = stopPc, \A w \in Channels : wpc[w] = "exited" => wpc'[w] = "exited"
      PROVE  KeyInv'
  <2>1. DoneAfterExit'
    BY <1>0, <1>1 DEF DoneAfterExit
  <2> QED
    BY <1>1, <2>1, KeyFrame
<1>2. ASSUME NEW p \in Pushers,
             \/ PushRejected(p) \/ PushSpuriousWakeup(p) \/ PushTest(p) \/ PushBlock(p)
             \/ PushRecheck(p) \/ PushCount(p) \/ PushTimeout(p)
      PROVE  KeyInv'
  <2>1. Still /\ stopPc' = stopPc /\ wpc' = wpc
    BY <1>2 DEF PushRejected, PushSpuriousWakeup, PushTest, PushBlock, PushRecheck, PushCount,
                PushTimeout, workVars, lifeVars
  <2> QED
    BY <2>1, <1>1
<1>3. ASSUME NEW p \in Pushers, NEW n \in 1 .. MaxItems, PushBegin(p, n) PROVE KeyInv'
  BY <1>3, <1>1 DEF PushBegin, workVars, lifeVars
<1>4. ASSUME NEW p \in Pushers, PushEnqueue(p) PROVE KeyInv'
  BY <1>4, KeyEnqueue
<1>5. ASSUME NEW w \in Channels, WorkerTest(w) PROVE KeyInv'
  <2>1. CASE WorkerPops(w)
    BY <1>5, <2>1, KeyPop
  <2>2. CASE WorkerStays(w)
    <3>1. /\ Still /\ stopPc' = stopPc
          /\ wpc[w] = "test" /\ \E q \in {"exited", "blocking"} : wpc' = [wpc EXCEPT ![w] = q]
      BY <1>5, <2>2, WorkerTestCases DEF WorkerStays, lifeVars
    <3>2. \A v \in Channels : wpc[v] = "exited" => wpc'[v] = "exited"
      BY <3>1, <1>0
    <3> QED
      BY <3>1, <3>2, <1>1
  <2> QED
    BY <1>5, <2>1, <2>2, WorkerTestCases
<1>6. ASSUME NEW w \in Channels,
             WorkerBlock(w) \/ WorkerIdle(w) \/ WorkerUncount(w) \/ WorkerNotify(w)
      PROVE  KeyInv'
  <2>1. Still /\ stopPc' = stopPc
    BY <1>6 DEF WorkerBlock, WorkerIdle, WorkerUncount, WorkerNotify, lifeVars
  <2>2. \A v \in Channels : wpc[v] = "exited" => wpc'[v] = "exited"
    BY <1>6, <1>0 DEF WorkerBlock, WorkerIdle, WorkerUncount, WorkerNotify
  <2> QED
    BY <2>1, <2>2, <1>1
<1>7. ASSUME NEW w \in Channels, WorkerProcess(w) PROVE KeyInv'
  BY <1>7, KeyProcess
<1>8. CASE StopBegin \/ StopNotify
  <2>1. /\ Still /\ wpc' = wpc
        /\ stopPc' # "done" /\ (StopNotify => stopPc # "done")
    BY <1>8 DEF StopBegin, StopNotify, workVars
  <2>2. stopPc # "done"
    <3>1. CASE StopNotify
      BY <2>1, <3>1
    <3>2. CASE StopBegin
      BY <3>2 DEF StopBegin, CountInv, StopFlags
    <3> QED
      BY <1>8, <3>1, <3>2
  <2> QED
    BY <2>1, <2>2, KeyFrame DEF DoneAfterExit
<1>9. ASSUME NEW c \in Channels, StopChannel(c) PROVE KeyInv'
  <2>1. Still /\ stopPc' = stopPc
    BY <1>9 DEF StopChannel
  <2>2. \A v \in Channels : wpc[v] = "exited" => wpc'[v] = "exited"
    BY <1>9, <1>0 DEF StopChannel, Woken
  <2> QED
    BY <2>1, <2>2, <1>1
<1>10. CASE StopJoin
  <2>1. /\ UNCHANGED <<held, processed, accepted, wpc>>
        /\ stopPc' = "done"
        /\ \A c \in Channels : wpc[c] = "exited" /\ chan'[c] = <<>>
    BY <1>10 DEF StopJoin, workVars
  <2>2. \A c \in Channels : 1 .. Len(chan'[c]) = {}
    BY <2>1
  <2> QED
    BY <2>1, <2>2 DEF KeyInv, Pinned, InOrder, Present, DoneAfterExit, KeyOrder, InHand
<1>11. CASE ForceBegin \/ ForceNotify
  <2>1. Still /\ stopPc' = stopPc
    BY <1>11 DEF ForceBegin, ForceNotify, workVars
  <2>2. \A v \in Channels : wpc[v] = "exited" => wpc'[v] = "exited"
    BY <1>11 DEF ForceBegin, ForceNotify, workVars
  <2> QED
    BY <2>1, <2>2, <1>1
<1>12. CASE UNCHANGED vars
  BY <1>12, <1>1 DEF vars, workVars, lifeVars
<1> QED
  BY <1>2, <1>3, <1>4, <1>5, <1>6, <1>7, <1>8, <1>9, <1>10, <1>11, <1>12
     DEF Next, PusherStep, WorkerStep, StopStep, Finished

\* Whatever the pushers, workers, stop() and forceStop() do, the items itemRoutingKey() pins
\* to one channel are processed in the order they were pushed.
THEOREM KeysStayInOrder == Spec => []KeyOrder
<1>1. Spec => []KeyInv
  BY CountInvariant, KeyInvInit, KeyInvStep, PTL DEF Spec
<1> QED
  BY <1>1, PTL DEF KeyInv

-----------------------------------------------------------------------------
(* No item is dropped unreported. *)

\* Initially no item was taken up.
LEMMA DropInit == Init => NoSilentDrop
  BY DEF Init, NoSilentDrop

\* Every step that passes an item over reports it.
LEMMA DropStep == TypeInv /\ NoSilentDrop /\ [Next]_vars => NoSilentDrop'
<1> SUFFICES ASSUME TypeInv, NoSilentDrop, [Next]_vars PROVE NoSilentDrop'
  OBVIOUS
<1>0. /\ nextItem \in [Pushers -> 0 .. MaxItems] /\ refused \in [Pushers -> BOOLEAN]
      /\ \A p \in Pushers : nextItem[p] \in Nat
  BY ConstantTypes DEF TypeInv, TypeOK
\* A step that takes up no item, and takes back no report.
<1>1. ASSUME accepted' = accepted, nextItem' = nextItem, refused' = refused,
             ~running => ~running', forceQuit => forceQuit'
      PROVE  NoSilentDrop'
  BY <1>1 DEF NoSilentDrop
\* A step of p after which p's dropped items are reported.
<1>2. ASSUME NEW p \in Pushers, accepted \subseteq accepted',
             \A q \in Pushers : q # p => nextItem'[q] = nextItem[q] /\ refused'[q] = refused[q],
             UNCHANGED <<running, forceQuit>>,
             refused'[p] \/ ~running \/ forceQuit
      PROVE  NoSilentDrop'
  BY <1>2 DEF NoSilentDrop
<1>3. ASSUME NEW p \in Pushers, PushRejected(p) PROVE NoSilentDrop'
  <2>1. /\ accepted' = accepted /\ UNCHANGED <<running, forceQuit>> /\ refused'[p]
        /\ \A q \in Pushers : q # p => nextItem'[q] = nextItem[q] /\ refused'[q] = refused[q]
    BY <1>3, <1>0 DEF PushRejected, lifeVars
  <2> QED
    BY <2>1, <1>2
<1>4. ASSUME NEW p \in Pushers, PushTimeout(p) PROVE NoSilentDrop'
  <2>1. accepted' = accepted /\ UNCHANGED <<running, forceQuit>>
    BY <1>4 DEF PushTimeout, lifeVars
  <2>2. CASE Return(p, FALSE)
    <3>1. /\ refused'[p]
          /\ \A q \in Pushers : q # p => nextItem'[q] = nextItem[q] /\ refused'[q] = refused[q]
      BY <2>2, <1>0 DEF Return
    <3> QED
      BY <2>1, <3>1, <1>2
  <2>3. CASE UNCHANGED <<nextItem, refused>>
    BY <2>1, <2>3, <1>1
  <2> QED
    BY <1>4, <2>2, <2>3 DEF PushTimeout
<1>5. ASSUME NEW p \in Pushers, PushRecheck(p) PROVE NoSilentDrop'
  <2>1. accepted' = accepted /\ UNCHANGED <<running, forceQuit>>
    BY <1>5 DEF PushRecheck, lifeVars
  <2>2. CASE (~running \/ forceQuit) /\ Return(p, enqueued[p])
    <3>1. \A q \in Pushers : q # p => nextItem'[q] = nextItem[q] /\ refused'[q] = refused[q]
      BY <2>2, <1>0 DEF Return
    <3> QED
      BY <2>1, <2>2, <3>1, <1>2
  <2>3. CASE UNCHANGED <<nextItem, refused>>
    BY <2>1, <2>3, <1>1
  <2> QED
    BY <1>5, <2>2, <2>3 DEF PushRecheck
<1>6. ASSUME NEW p \in Pushers, PushEnqueue(p) PROVE NoSilentDrop'
  <2>1. /\ accepted' = accepted \cup {<<p, nextItem[p] + 1>>}
        /\ nextItem' = [nextItem EXCEPT ![p] = nextItem[p] + 1]
        /\ UNCHANGED <<running, forceQuit, refused>>
    BY <1>6 DEF PushEnqueue, lifeVars
  <2> SUFFICES ASSUME NEW q \in Pushers, NEW n \in 1 .. nextItem'[q], <<q, n>> \notin accepted'
               PROVE  refused[q] \/ ~running \/ forceQuit
    BY <2>1 DEF NoSilentDrop
  <2>2. n \in 1 .. nextItem[q]
    <3>1. CASE q # p
      BY <3>1, <2>1, <1>0
    <3>2. CASE q = p
      BY <3>2, <2>1, <1>0
    <3> QED
      BY <3>1, <3>2
  <2> QED
    BY <2>1, <2>2 DEF NoSilentDrop
<1>7. ASSUME NEW p \in Pushers,
             \/ PushTest(p) \/ PushBlock(p) \/ PushSpuriousWakeup(p) \/ PushCount(p)
             \/ \E n \in 1 .. MaxItems : PushBegin(p, n)
      PROVE  NoSilentDrop'
  <2>1. UNCHANGED <<accepted, nextItem, refused, running, forceQuit>>
    BY <1>7 DEF PushTest, PushBlock, PushSpuriousWakeup, PushCount, PushBegin, lifeVars
  <2> QED
    BY <2>1, <1>1
<1>8. ASSUME NEW w \in Channels, WorkerStep(w) \/ WorkerIdle(w) PROVE NoSilentDrop'
  <2>1. UNCHANGED <<accepted, nextItem, refused, running, forceQuit>>
    BY <1>8 DEF WorkerStep, WorkerIdle, WorkerTest, WorkerBlock, WorkerUncount, WorkerNotify,
                WorkerProcess, pushVars, lifeVars
  <2> QED
    BY <2>1, <1>1
<1>9. CASE StopBegin \/ StopStep \/ ForceBegin \/ ForceNotify
  <2>1. /\ UNCHANGED <<accepted, nextItem, refused>>
        /\ ~running => ~running'
        /\ forceQuit => forceQuit'
    BY <1>9 DEF StopBegin, StopStep, StopNotify, StopChannel, StopJoin, ForceBegin, ForceNotify, pushVars
  <2> QED
    BY <2>1, <1>1
<1>10. CASE UNCHANGED vars
  BY <1>10, <1>1 DEF vars, pushVars, lifeVars
<1> QED
  BY <1>3, <1>4, <1>5, <1>6, <1>7, <1>8, <1>9, <1>10 DEF Next, PusherStep, Finished

\* An item push() takes up and does not append is reported by a false result, for any
\* sequence of batches, timeouts and rejections, unless the writer is being stopped.
THEOREM DropsAreReported == Spec => []NoSilentDrop
  BY TypeInvInit, TypeInvStep, DropInit, DropStep, PTL DEF Spec
=============================================================================
