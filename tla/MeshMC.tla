------------------------------- MODULE MeshMC -------------------------------
(***************************************************************************)
(* Topologies and messages for Mesh.  Pair: a - b.  Triangle: every node   *)
(* hears every other, so that each flood returns to its origin by two      *)
(* paths.                                                                  *)
(***************************************************************************)
EXTENDS Mesh

PairNodes == {"a", "b"}
Pair == [n \in PairNodes |-> PairNodes \ {n}]

ThreeNodes == {"a", "b", "c"}
Triangle == [n \in ThreeNodes |-> ThreeNodes \ {n}]

\* One unicast to c by way of b.
OneSrc == <<"a">>
OneDst == <<"c">>
OneVia == <<"b">>
OneAppId == <<0>>

\* Two unicasts from a to b; an app gave the first its packet id, above those
\* the node comes to.
TwoSrc == <<"a", "a">>
TwoDst == <<"b", "b">>
TwoVia == <<"b", "b">>
TwoAppId == <<12, 0>>

\* A broadcast of a and a unicast from b to a.
MixSrc == <<"a", "b">>
MixDst == <<Broadcast, "a">>
MixVia == <<"b", "a">>
MixAppId == <<0, 0>>
=============================================================================
