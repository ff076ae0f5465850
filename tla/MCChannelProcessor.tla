------------------------ MODULE MCChannelProcessor -------------------------
(* Instances of ChannelProcessor for TLC. *)
EXTENDS ChannelProcessor

CONSTANTS s1, s2

\* One source changes the type and the number of its columns, the other never does.
Double == [columns |-> 1, type |-> "double"]
Whole == [columns |-> 1, type |-> "int"]
Pair == [columns |-> 2, type |-> "double"]
MixedShapes == [s \in Sources |-> IF s = s1 THEN {Double, Whole, Pair} ELSE {Double}]
OneShape == [s \in Sources |-> {Double}]

\* Both sources configured, one, or none; slots of two samples, unlimited or
\* latest-value (which keeps one frame, whatever the depth).
AllConfigs ==
  [required : {<<s1, s2>>, <<>>}, trigger : {"all-updated"}, latest : {FALSE}, maxDepth : {2}]
    \cup [required : {<<s1, s2>>}, trigger : {"all-updated"}, latest : {FALSE}, maxDepth : {0}]
    \cup [required : {<<s1, s2>>}, trigger : {"all-updated"}, latest : {TRUE}, maxDepth : {2}]
    \cup [required : {<<s1>>}, trigger : Triggers, latest : {FALSE}, maxDepth : {2}]
AnyUpdate == {[required |-> <<>>, trigger |-> "any-update", latest |-> FALSE, maxDepth |-> 0]}
=============================================================================
