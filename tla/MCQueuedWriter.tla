-------------------------- MODULE MCQueuedWriter ---------------------------
(* Instances of QueuedWriter for TLC. *)
EXTENDS QueuedWriter, TLC

CONSTANTS p1, p2

\* The controller's use: one pusher per writer, no routing key.
OnePusher == {p1}
OneRoute == p1 :> RoundRobin

\* A keyed pusher pinned to channel 1 and one whose items go round robin.
TwoPushers == {p1, p2}
MixedRoute == p1 :> 1 @@ p2 :> RoundRobin
=============================================================================
