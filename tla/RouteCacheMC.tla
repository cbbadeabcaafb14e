---------------------------- MODULE RouteCacheMC ----------------------------
(***************************************************************************)
(* RouteCache for TLC: destinations and next hops are interchangeable.     *)
(***************************************************************************)
EXTENDS RouteCache, TLC

Symmetry == Permutations(Dst) \cup Permutations(Hop)
=============================================================================
