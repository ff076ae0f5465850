------------------------------ MODULE EventBus ------------------------------
(***************************************************************************)
(* What IDataBus promises the producers and the writers of the driver: a   *)
(* bounded queue that hands every accepted batch, in the order of          *)
(* acceptance, to each writer that routing selects for its producer, once. *)
(* Batches are given up only after a forced stop.                          *)
(***************************************************************************)
EXTENDS Naturals, Sequences

CONSTANTS
  Batches,     \* pairs of a producer and the number it gave the batch
  Writers,     \* writer instances
  Accepts,     \* the writers that take a producer's batches
  Bound        \* most batches pending at any time

VARIABLES
  accepted,    \* batches push() has returned true for
  pending,     \* accepted batches not yet done with, oldest first
  flight,      \* the oldest one is being handed to the writers
  todo,        \* writers that have still to take it
  delivered,   \* what each writer was given, in order
  forced       \* a forced stop has begun

busVars == <<accepted, pending, flight, todo, delivered, forced>>

Init ==
  /\ accepted = {}
  /\ pending = <<>>
  /\ flight = FALSE
  /\ todo = {}
  /\ delivered = [w \in Writers |-> <<>>]
  /\ forced = FALSE

\* A producer's batches are numbered in the order it pushes them.
Accept(b) ==
  /\ \A a \in accepted : a[1] = b[1] => a[2] < b[2]
  /\ Len(pending) < Bound
  /\ accepted' = accepted \cup {b}
  /\ pending' = Append(pending, b)
  /\ UNCHANGED <<flight, todo, delivered, forced>>

Offer ==
  /\ ~flight
  /\ pending # <<>>
  /\ flight' = TRUE
  /\ todo' = Accepts[Head(pending)[1]]
  /\ UNCHANGED <<accepted, pending, delivered, forced>>

Deliver(w) ==
  /\ w \in todo
  /\ todo' = todo \ {w}
  /\ delivered' = [delivered EXCEPT ![w] = Append(@, Head(pending))]
  /\ UNCHANGED <<accepted, pending, flight, forced>>

Retire ==
  /\ flight
  /\ todo = {}
  /\ flight' = FALSE
  /\ pending' = Tail(pending)
  /\ UNCHANGED <<accepted, todo, delivered, forced>>

ForceStop ==
  /\ forced' = TRUE
  /\ UNCHANGED <<accepted, pending, flight, todo, delivered>>

\* A forced stop gives up the newest batches, or the oldest unless they are under way.
Discard ==
  /\ forced
  /\ \E m \in 1 .. Len(pending) + 1, n \in 0 .. Len(pending) :
       /\ flight => m = 1 /\ n >= 1
       /\ pending' = SubSeq(pending, m, n)
  /\ UNCHANGED <<accepted, flight, todo, delivered, forced>>

Next ==
  \/ \E b \in Batches : Accept(b)
  \/ \E w \in Writers : Deliver(w)
  \/ Offer \/ Retire \/ ForceStop \/ Discard

Spec == Init /\ [][Next]_busVars

-----------------------------------------------------------------------------
IsPending(b) == \E k \in 1 .. Len(pending) : pending[k] = b
IsDelivered(b, w) == \E k \in 1 .. Len(delivered[w]) : delivered[w][k] = b

\* An accepted batch is pending or has reached every writer that takes it, unless forced.
NoneLost ==
  \A b \in accepted :
    IsPending(b) \/ (\A w \in Accepts[b[1]] : IsDelivered(b, w)) \/ forced

\* No writer is given two batches of a producer out of order, or one of them twice.
InOrder ==
  \A w \in Writers : \A i, j \in 1 .. Len(delivered[w]) :
    i < j /\ delivered[w][i][1] = delivered[w][j][1] => delivered[w][i][2] < delivered[w][j][2]
=============================================================================
