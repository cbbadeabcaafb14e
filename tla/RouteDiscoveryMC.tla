-------------------------- MODULE RouteDiscoveryMC --------------------------
(***************************************************************************)
(* The line a - b - c for RouteDiscovery, where a and c reach each other   *)
(* through b only.                                                         *)
(***************************************************************************)
EXTENDS RouteDiscovery, TLC

LineNodes == {"a", "b", "c"}
Line == [a |-> {"b"}, b |-> {"a", "c"}, c |-> {"b"}]
LineDist == [a |-> [a |-> 0, b |-> 1, c |-> 2],
             b |-> [a |-> 1, b |-> 0, c |-> 1],
             c |-> [a |-> 2, b |-> 1, c |-> 0]]

CONSTANTS first, second, third   \* messages

\* Of these two are submitted: one to b and one to c, or both to c.
ThreeMsgs == {first, second, third}
ThreeSrc == [m \in ThreeMsgs |-> "a"]
ThreeDst == [m \in ThreeMsgs |-> IF m = first THEN "b" ELSE "c"]
SameEnds == Permutations({second, third})

\* One from a to c.
OneMsg == {second}
OneSrc == [m \in OneMsg |-> "a"]
OneDst == [m \in OneMsg |-> "c"]
=============================================================================
