---------------------------- MODULE MCMLDPWriter ----------------------------
(* Instances of MLDPWriter for TLC. *)
EXTENDS MLDPWriter

\* A small and a large request, a request that does not fit beside another, and
\* frames that are never sent.
MixedBatches == {<<1, NoColumns, 3>>, <<1, NoTimestamps>>}
SmallBatches == {<<1>>}
=============================================================================
