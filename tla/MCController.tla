---------------------------- MODULE MCController ----------------------------
(* Instances of Controller for TLC. *)
EXTENDS Controller

CONSTANTS r1, r2, q1, w1, w2

OneReader == <<r1>>
TwoReaders == <<r1, r2>>

\* Both writers take the reader's batches, one of them the processor's.
SplitRoutes == [p \in Producers |-> IF p = q1 THEN {w2} ELSE Writers]
AllToAll == [p \in Producers |-> Writers]
=============================================================================
