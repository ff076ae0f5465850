--------------------------- MODULE EventBusProofs ---------------------------
(***************************************************************************)
(* What the abstract bus guarantees, for every set of batches and writers  *)
(* and every route table: nothing is lost and nothing is delivered twice   *)
(* or out of order.  ControllerProofs carries the results over to the      *)
(* controller through the refinement.                                      *)
(***************************************************************************)
EXTENDS EventBus, TLAPS

\* What the results ask of the constants.
Numbered == \A b \in Batches : b[2] \in Nat /\ Accepts[b[1]] \subseteq Writers

BusTypes ==
  /\ accepted \subseteq Batches
  /\ pending \in Seq(Batches)
  /\ flight \in BOOLEAN
  /\ todo \subseteq Writers
  /\ delivered \in [Writers -> Seq(Batches)]

\* The batch in flight has been given to the writers that are not waited for any more.
FlightInv ==
  /\ ~flight => todo = {}
  /\ flight => /\ pending # <<>>
               /\ todo \subseteq Accepts[Head(pending)[1]]
               /\ \A w \in Accepts[Head(pending)[1]] \ todo : IsDelivered(Head(pending), w)

\* What is pending is newer than what was delivered, but for the batch in flight, which
\* some writers have already.
AgeInv ==
  /\ \A k \in 1 .. Len(pending) : pending[k] \in accepted
  /\ \A w \in Writers : \A k \in 1 .. Len(delivered[w]) : delivered[w][k] \in accepted
  /\ \A j, k \in 1 .. Len(pending) :
       j < k /\ pending[j][1] = pending[k][1] => pending[j][2] < pending[k][2]
  /\ \A w \in Writers : \A j \in 1 .. Len(delivered[w]), k \in 1 .. Len(pending) :
       delivered[w][j][1] = pending[k][1] =>
         delivered[w][j][2] < pending[k][2] \/ (flight /\ k = 1 /\ w \notin todo)

BusInv == BusTypes /\ FlightInv /\ AgeInv /\ NoneLost /\ InOrder

-----------------------------------------------------------------------------
\* The empty bus satisfies the invariant.
LEMMA BusInvInit == Init => BusInv
<1> SUFFICES ASSUME Init PROVE BusInv
  OBVIOUS
<1>1. flight \in BOOLEAN /\ ~flight
  BY DEF Init
<1>2. BusTypes
  BY <1>1 DEF Init, BusTypes
<1>3. FlightInv /\ AgeInv /\ NoneLost /\ InOrder
  BY <1>1 DEF Init, FlightInv, AgeInv, NoneLost, InOrder
<1> QED
  BY <1>2, <1>3 DEF BusInv

\* Accepting a batch appends the newest batch of its producer.
LEMMA AcceptStep ==
  ASSUME Numbered, BusInv, NEW b \in Batches, Accept(b)
  PROVE  BusInv'
<1>t. /\ pending \in Seq(Batches) /\ accepted \subseteq Batches
      /\ delivered \in [Writers -> Seq(Batches)]
  BY DEF BusInv, BusTypes
<1>1. /\ accepted' = accepted \cup {b} /\ pending' = Append(pending, b)
      /\ UNCHANGED <<flight, todo, delivered, forced>>
      /\ \A a \in accepted : a[1] = b[1] => a[2] < b[2]
  BY DEF Accept
<1>2. /\ Len(pending') = Len(pending) + 1 /\ Len(pending) \in Nat
      /\ \A k \in 1 .. Len(pending) : pending'[k] = pending[k]
      /\ pending'[Len(pending) + 1] = b
      /\ pending' \in Seq(Batches)
  BY <1>t, <1>1
<1>3. BusTypes'
  BY <1>1, <1>2 DEF BusInv, BusTypes
<1>4. FlightInv'
  <2>1. pending # <<>> => pending' # <<>> /\ Head(pending') = Head(pending)
    BY <1>t, <1>1
  <2> QED
    BY <1>1, <2>1 DEF BusInv, FlightInv, IsDelivered
<1>5. \A k \in 1 .. Len(pending') : k \in 1 .. Len(pending) \/ k = Len(pending) + 1
  BY <1>2
<1>6. AgeInv'
  <2>1. \A k \in 1 .. Len(pending') : pending'[k] \in accepted'
    BY <1>1, <1>2, <1>5 DEF BusInv, AgeInv
  <2>2. \A w \in Writers : \A k \in 1 .. Len(delivered'[w]) : delivered'[w][k] \in accepted'
    BY <1>1 DEF BusInv, AgeInv
  <2>3. ASSUME NEW j \in 1 .. Len(pending'), NEW k \in 1 .. Len(pending'), j < k,
               pending'[j][1] = pending'[k][1]
        PROVE  pending'[j][2] < pending'[k][2]
    <3>1. j \in 1 .. Len(pending)
      BY <1>2, <2>3
    <3>2. CASE k \in 1 .. Len(pending)
      BY <1>2, <2>3, <3>1, <3>2 DEF BusInv, AgeInv
    <3>3. CASE k = Len(pending) + 1
      BY <1>1, <1>2, <2>3, <3>1, <3>3 DEF BusInv, AgeInv
    <3> QED
      BY <1>5, <3>2, <3>3
  <2>4. ASSUME NEW w \in Writers, NEW j \in 1 .. Len(delivered[w]), NEW k \in 1 .. Len(pending'),
               delivered[w][j][1] = pending'[k][1]
        PROVE  delivered[w][j][2] < pending'[k][2] \/ (flight /\ k = 1 /\ w \notin todo)
    <3>1. CASE k \in 1 .. Len(pending)
      BY <1>2, <2>4, <3>1 DEF BusInv, AgeInv
    <3>2. CASE k = Len(pending) + 1
      BY <1>1, <1>2, <2>4, <3>2 DEF BusInv, AgeInv
    <3> QED
      BY <1>5, <3>1, <3>2
  <2> QED
    BY <1>1, <2>1, <2>2, <2>3, <2>4, SMTT(30) DEF AgeInv
<1>7. NoneLost'
  <2>1. \A a \in Batches : IsPending(a) => IsPending(a)'
    BY <1>2 DEF IsPending
  <2>2. IsPending(b)'
    BY <1>2 DEF IsPending
  <2> QED
    BY <1>1, <1>t, <2>1, <2>2 DEF BusInv, NoneLost, IsDelivered
<1>8. InOrder'
  BY <1>1 DEF BusInv, InOrder
<1> QED
  BY <1>3, <1>4, <1>6, <1>7, <1>8 DEF BusInv

\* Offering the oldest batch makes every writer that takes it wait.
LEMMA OfferStep == ASSUME Numbered, BusInv, Offer PROVE BusInv'
<1>1. /\ ~flight /\ flight' = TRUE /\ pending # <<>>
      /\ todo' = Accepts[Head(pending)[1]]
      /\ UNCHANGED <<accepted, pending, delivered, forced>>
  BY DEF Offer
<1>2. Head(pending) \in Batches
  BY <1>1 DEF BusInv, BusTypes
<1>3. flight' \in BOOLEAN /\ todo' \subseteq Writers
  BY <1>1, <1>2 DEF Numbered
<1>4. BusTypes'
  BY <1>1, <1>3 DEF BusInv, BusTypes
<1>5. FlightInv'
  BY <1>1 DEF FlightInv
<1>6. AgeInv'
  BY <1>1 DEF BusInv, AgeInv
<1>7. NoneLost' /\ InOrder'
  BY <1>1 DEF BusInv, NoneLost, InOrder, IsPending, IsDelivered
<1> QED
  BY <1>4, <1>5, <1>6, <1>7 DEF BusInv

\* A writer takes the batch in flight: it is the newest the writer has seen.
LEMMA DeliverStep ==
  ASSUME Numbered, BusInv, NEW w \in Writers, Deliver(w)
  PROVE  BusInv'
<1>t. pending \in Seq(Batches) /\ delivered \in [Writers -> Seq(Batches)]
  BY DEF BusInv, BusTypes
<1>1. /\ w \in todo /\ todo' = todo \ {w} /\ flight
      /\ delivered' = [delivered EXCEPT ![w] = Append(delivered[w], Head(pending))]
      /\ UNCHANGED <<accepted, pending, flight, forced>>
  BY DEF Deliver, BusInv, FlightInv
<1>p. pending # <<>>
  BY <1>1 DEF BusInv, FlightInv
<1>b. PICK b \in Batches : b = Head(pending)
  BY <1>t, <1>p
<1>2. Len(pending) \in Nat /\ 1 \in 1 .. Len(pending) /\ b = pending[1]
  BY <1>t, <1>p, <1>b
<1>3. b \in accepted
  BY <1>2 DEF BusInv, AgeInv
<1>4. /\ delivered' \in [Writers -> Seq(Batches)]
      /\ \A v \in Writers : v # w => delivered'[v] = delivered[v]
      /\ Len(delivered[w]) \in Nat /\ Len(delivered'[w]) = Len(delivered[w]) + 1
      /\ \A k \in 1 .. Len(delivered[w]) : delivered'[w][k] = delivered[w][k]
      /\ delivered'[w][Len(delivered[w]) + 1] = b
  <2>1. /\ Append(delivered[w], b) \in Seq(Batches)
        /\ Len(Append(delivered[w], b)) = Len(delivered[w]) + 1 /\ Len(delivered[w]) \in Nat
        /\ \A k \in 1 .. Len(delivered[w]) : Append(delivered[w], b)[k] = delivered[w][k]
        /\ Append(delivered[w], b)[Len(delivered[w]) + 1] = b
    BY <1>t, <1>2
  <2>2. /\ delivered'[w] = Append(delivered[w], b)
        /\ delivered' \in [Writers -> Seq(Batches)]
        /\ \A v \in Writers : v # w => delivered'[v] = delivered[v]
    BY <1>t, <1>1, <1>b, <2>1
  <2> QED
    BY <2>1, <2>2
<1>5. \A k \in 1 .. Len(delivered'[w]) : k \in 1 .. Len(delivered[w]) \/ k = Len(delivered[w]) + 1
  BY <1>4
<1>6. \A v \in Writers, a \in Batches : IsDelivered(a, v) => IsDelivered(a, v)'
  <2> SUFFICES ASSUME NEW v \in Writers, NEW a \in Batches, IsDelivered(a, v)
               PROVE  IsDelivered(a, v)'
    OBVIOUS
  <2>1. CASE v = w
    BY <1>4, <2>1 DEF IsDelivered
  <2>2. CASE v # w
    BY <1>4, <2>2 DEF IsDelivered
  <2> QED
    BY <2>1, <2>2
<1>7. BusTypes'
  BY <1>1, <1>4 DEF BusInv, BusTypes
<1>8. FlightInv'
  <2>1. IsDelivered(b, w)'
    BY <1>4 DEF IsDelivered
  <2>3. Accepts[b[1]] \subseteq Writers
    BY DEF Numbered
  <2>4. ASSUME NEW v \in Accepts[b[1]] \ todo' PROVE IsDelivered(b, v)'
    <3>1. CASE v = w
      BY <2>1, <3>1
    <3>2. CASE v # w
      <4>1. IsDelivered(b, v)
        BY <1>1, <1>b, <2>4, <3>2 DEF BusInv, FlightInv
      <4> QED
        BY <1>6, <2>3, <4>1
    <3> QED
      BY <3>1, <3>2
  <2> QED
    BY <1>1, <1>b, <1>p, <2>4 DEF BusInv, FlightInv
<1>9. AgeInv'
  <2>1. \A k \in 1 .. Len(pending') : pending'[k] \in accepted'
    BY <1>1 DEF BusInv, AgeInv
  <2>2. ASSUME NEW v \in Writers, NEW k \in 1 .. Len(delivered'[v]) PROVE delivered'[v][k] \in accepted'
    <3>1. CASE v = w
      BY <1>1, <1>3, <1>4, <1>5, <2>2, <3>1 DEF BusInv, AgeInv
    <3>2. CASE v # w
      BY <1>1, <1>4, <2>2, <3>2 DEF BusInv, AgeInv
    <3> QED
      BY <3>1, <3>2
  <2>3. \A j, k \in 1 .. Len(pending') :
          j < k /\ pending'[j][1] = pending'[k][1] => pending'[j][2] < pending'[k][2]
    BY <1>1 DEF BusInv, AgeInv
  <2>4. ASSUME NEW v \in Writers, NEW j \in 1 .. Len(delivered'[v]), NEW k \in 1 .. Len(pending),
               delivered'[v][j][1] = pending[k][1]
        PROVE  delivered'[v][j][2] < pending[k][2] \/ (flight /\ k = 1 /\ v \notin todo')
    <3>1. CASE v # w
      BY <1>1, <1>4, <2>4, <3>1 DEF BusInv, AgeInv
    <3>2. CASE v = w /\ k = 1
      BY <1>1, <3>2
    <3>3. CASE v = w /\ k # 1
      <4>1. k \in Nat /\ 1 < k
        BY <1>2, <3>3
      <4>2. CASE j \in 1 .. Len(delivered[w])
        <5>1. delivered'[v][j] = delivered[w][j]
          BY <1>4, <3>3, <4>2
        <5> QED
          BY <2>4, <3>3, <4>2, <5>1, SMTT(30) DEF BusInv, AgeInv
      <4>3. CASE j = Len(delivered[w]) + 1
        BY <1>2, <1>4, <2>4, <3>3, <4>1, <4>3 DEF BusInv, AgeInv
      <4> QED
        BY <1>5, <2>4, <3>3, <4>2, <4>3
    <3> QED
      BY <3>1, <3>2, <3>3
  <2> QED
    BY <1>1, <2>1, <2>2, <2>3, <2>4 DEF AgeInv
<1>10. NoneLost'
  <2> SUFFICES ASSUME NEW a \in accepted
               PROVE  \/ IsPending(a)' \/ (\A v \in Accepts[a[1]] : IsDelivered(a, v)') \/ forced
    BY <1>1 DEF NoneLost
  <2>1. a \in Batches /\ Accepts[a[1]] \subseteq Writers
    BY DEF BusInv, BusTypes, Numbered
  <2>2. IsPending(a) => IsPending(a)'
    BY <1>1 DEF IsPending
  <2> QED
    BY <1>6, <2>1, <2>2 DEF BusInv, NoneLost
<1>11. InOrder'
  <2> SUFFICES ASSUME NEW v \in Writers, NEW i \in 1 .. Len(delivered'[v]),
                      NEW j \in 1 .. Len(delivered'[v]), i < j,
                      delivered'[v][i][1] = delivered'[v][j][1]
               PROVE  delivered'[v][i][2] < delivered'[v][j][2]
    BY DEF InOrder
  <2>1. CASE v # w
    BY <1>4, <2>1 DEF BusInv, InOrder
  <2>2. CASE v = w
    <3>1. i \in 1 .. Len(delivered[w])
      BY <1>4, <2>2
    <3>2. CASE j \in 1 .. Len(delivered[w])
      BY <1>4, <2>2, <3>1, <3>2 DEF BusInv, InOrder
    <3>3. CASE j = Len(delivered[w]) + 1
      BY <1>1, <1>2, <1>4, <2>2, <3>1, <3>3 DEF BusInv, AgeInv
    <3> QED
      BY <1>5, <2>2, <3>2, <3>3
  <2> QED
    BY <2>1, <2>2
<1> QED
  BY <1>7, <1>8, <1>9, <1>10, <1>11 DEF BusInv

\* Retiring the batch in flight: every writer that takes it has it.
LEMMA RetireStep == ASSUME Numbered, BusInv, Retire PROVE BusInv'
<1>t. pending \in Seq(Batches) /\ accepted \subseteq Batches
  BY DEF BusInv, BusTypes
<1>1. /\ flight /\ todo = {} /\ flight' = FALSE /\ pending' = Tail(pending)
      /\ UNCHANGED <<accepted, todo, delivered, forced>>
  BY DEF Retire
<1>2. pending # <<>>
  BY <1>1 DEF BusInv, FlightInv
<1>3. /\ pending' \in Seq(Batches) /\ Len(pending) \in Nat /\ Len(pending') = Len(pending) - 1
      /\ \A k \in 1 .. Len(pending') : pending'[k] = pending[k + 1] /\ k + 1 \in 1 .. Len(pending)
      /\ Head(pending) = pending[1]
  BY <1>t, <1>1, <1>2
<1>4. flight' \in BOOLEAN /\ ~flight'
  BY <1>1
<1>5. BusTypes'
  BY <1>1, <1>3, <1>4 DEF BusInv, BusTypes
<1>6. FlightInv'
  BY <1>1, <1>4 DEF FlightInv
<1>7. AgeInv'
  <2>1. \A k \in 1 .. Len(pending') : pending'[k] \in accepted'
    BY <1>1, <1>3 DEF BusInv, AgeInv
  <2>2. \A w \in Writers : \A k \in 1 .. Len(delivered'[w]) : delivered'[w][k] \in accepted'
    BY <1>1 DEF BusInv, AgeInv
  <2>3. ASSUME NEW j \in 1 .. Len(pending'), NEW k \in 1 .. Len(pending'), j < k,
               pending'[j][1] = pending'[k][1]
        PROVE  pending'[j][2] < pending'[k][2]
    BY <1>3, <2>3 DEF BusInv, AgeInv
  <2>4. ASSUME NEW w \in Writers, NEW j \in 1 .. Len(delivered[w]), NEW k \in 1 .. Len(pending'),
               delivered[w][j][1] = pending'[k][1]
        PROVE  delivered[w][j][2] < pending'[k][2]
    <3>1. k + 1 \in 1 .. Len(pending) /\ k + 1 # 1 /\ pending'[k] = pending[k + 1]
      BY <1>3
    <3> QED
      BY <2>4, <3>1 DEF BusInv, AgeInv
  <2> QED
    BY <1>1, <2>1, <2>2, <2>3, <2>4 DEF AgeInv
<1>8. NoneLost'
  <2> SUFFICES ASSUME NEW a \in accepted
               PROVE  \/ IsPending(a)' \/ (\A v \in Accepts[a[1]] : IsDelivered(a, v)') \/ forced
    BY <1>1 DEF NoneLost
  <2>0. \A v \in Writers : IsDelivered(a, v) => IsDelivered(a, v)'
    BY <1>1 DEF IsDelivered
  <2>1. Accepts[a[1]] \subseteq Writers
    BY DEF BusInv, BusTypes, Numbered
  <2>2. CASE a = Head(pending)
    BY <1>1, <2>0, <2>1, <2>2 DEF BusInv, FlightInv
  <2>3. CASE a # Head(pending) /\ IsPending(a)
    <3>1. PICK k \in 1 .. Len(pending) : pending[k] = a
      BY <2>3 DEF IsPending
    <3>2. k - 1 \in 1 .. Len(pending') /\ pending'[k - 1] = a
      BY <1>3, <2>3, <3>1
    <3> QED
      BY <3>2 DEF IsPending
  <2>4. CASE ~IsPending(a)
    BY <2>0, <2>1, <2>4 DEF BusInv, NoneLost
  <2> QED
    BY <2>2, <2>3, <2>4
<1>9. InOrder'
  BY <1>1 DEF BusInv, InOrder
<1> QED
  BY <1>5, <1>6, <1>7, <1>8, <1>9 DEF BusInv

\* Giving up the oldest or the newest batches leaves a piece of what was pending.
LEMMA DiscardStep == ASSUME Numbered, BusInv, Discard PROVE BusInv'
<1>t. pending \in Seq(Batches)
  BY DEF BusInv, BusTypes
<1>1. forced /\ UNCHANGED <<accepted, flight, todo, delivered, forced>>
  BY DEF Discard
<1>2. PICK m \in 1 .. Len(pending) + 1, n \in 0 .. Len(pending) :
        /\ flight => m = 1 /\ n >= 1
        /\ pending' = SubSeq(pending, m, n)
  BY DEF Discard
<1>3. /\ pending' \in Seq(Batches)
      /\ \A k \in 1 .. Len(pending') : /\ pending'[k] = pending[m + k - 1]
                                       /\ m + k - 1 \in 1 .. Len(pending)
  BY <1>t, <1>2
<1>4. flight => pending # <<>> /\ pending' # <<>> /\ Head(pending') = Head(pending)
  <2> SUFFICES ASSUME flight
               PROVE  pending # <<>> /\ pending' # <<>> /\ Head(pending') = Head(pending)
    OBVIOUS
  <2>1. m = 1 /\ n >= 1 /\ Len(pending) >= 1
    BY <1>2, <1>t
  <2>2. pending # <<>> /\ pending' # <<>> /\ pending'[1] = pending[1]
    BY <1>t, <1>2, <2>1
  <2> QED
    BY <1>t, <1>3, <2>2
<1>5. BusTypes'
  BY <1>1, <1>3 DEF BusInv, BusTypes
<1>6. FlightInv'
  BY <1>1, <1>4 DEF BusInv, FlightInv, IsDelivered
<1>7. AgeInv'
  <2>1. \A k \in 1 .. Len(pending') : pending'[k] \in accepted'
    BY <1>1, <1>3 DEF BusInv, AgeInv
  <2>2. \A w \in Writers : \A k \in 1 .. Len(delivered'[w]) : delivered'[w][k] \in accepted'
    BY <1>1 DEF BusInv, AgeInv
  <2>3. ASSUME NEW j \in 1 .. Len(pending'), NEW k \in 1 .. Len(pending'), j < k,
               pending'[j][1] = pending'[k][1]
        PROVE  pending'[j][2] < pending'[k][2]
    <3>1. /\ m + j - 1 \in 1 .. Len(pending) /\ pending'[j] = pending[m + j - 1]
          /\ m + k - 1 \in 1 .. Len(pending) /\ pending'[k] = pending[m + k - 1]
      BY <1>3
    <3>2. m + j - 1 < m + k - 1
      BY <2>3, <1>3
    <3> QED
      BY <2>3, <3>1, <3>2 DEF BusInv, AgeInv
  <2>4. ASSUME NEW w \in Writers, NEW j \in 1 .. Len(delivered[w]), NEW k \in 1 .. Len(pending'),
               delivered[w][j][1] = pending'[k][1]
        PROVE  delivered[w][j][2] < pending'[k][2] \/ (flight /\ k = 1 /\ w \notin todo)
    <3>1. m + k - 1 \in 1 .. Len(pending) /\ pending'[k] = pending[m + k - 1]
      BY <1>3
    <3>2. flight => m + k - 1 = k
      BY <1>2, <1>3
    <3> QED
      BY <2>4, <3>1, <3>2 DEF BusInv, AgeInv
  <2> QED
    BY <1>1, <2>1, <2>2, <2>3, <2>4 DEF AgeInv
<1>8. NoneLost' /\ InOrder'
  BY <1>1 DEF BusInv, NoneLost, InOrder
<1> QED
  BY <1>5, <1>6, <1>7, <1>8 DEF BusInv

\* BusInv is inductive.
LEMMA BusInvStep == ASSUME Numbered, BusInv, [Next]_busVars PROVE BusInv'
<1>1. CASE ForceStop
  <2>1. UNCHANGED <<accepted, pending, flight, todo, delivered>> /\ forced'
    BY <1>1 DEF ForceStop
  <2>2. BusTypes' /\ FlightInv'
    BY <2>1 DEF BusInv, BusTypes, FlightInv, IsDelivered
  <2>3. AgeInv' /\ NoneLost' /\ InOrder'
    BY <2>1 DEF BusInv, AgeInv, NoneLost, InOrder
  <2> QED
    BY <2>2, <2>3 DEF BusInv
<1>2. CASE UNCHANGED busVars
  <2>1. UNCHANGED <<accepted, pending, flight, todo, delivered, forced>>
    BY <1>2 DEF busVars
  <2>2. BusTypes' /\ FlightInv'
    BY <2>1 DEF BusInv, BusTypes, FlightInv, IsDelivered
  <2>3. AgeInv' /\ NoneLost' /\ InOrder'
    BY <2>1 DEF BusInv, AgeInv, NoneLost, InOrder, IsPending, IsDelivered
  <2> QED
    BY <2>2, <2>3 DEF BusInv
<1> QED
  BY <1>1, <1>2, AcceptStep, OfferStep, DeliverStep, RetireStep, DiscardStep DEF Next

\* The bus keeps what it promises: no accepted batch is lost unless a forced stop gave it
\* up, and every writer is given a producer's batches once each and in order.
THEOREM BusGuarantees == ASSUME Numbered PROVE Spec => [](NoneLost /\ InOrder)
<1>1. Spec => []BusInv
  BY BusInvInit, BusInvStep, PTL DEF Spec
<1>2. BusInv => NoneLost /\ InOrder
  BY DEF BusInv
<1> QED
  BY <1>1, <1>2, PTL
=============================================================================
