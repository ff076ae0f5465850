------------------------ MODULE MCAnnotationWriters ------------------------
(***************************************************************************)
(* The metadata writer with the default thread-pool of two workers.        *)
(***************************************************************************)
EXTENDS AnnotationWriters

TwoWorkers == {[kind |-> "metadata", workers |-> 2]}
=============================================================================
