------------------------------ MODULE MCRoutingCache ------------------------------
(***************************************************************************)
(* Instance of RoutingCache: three runs with two workers each, and two     *)
(* contexts at the two ends of a road.                                     *)
(***************************************************************************)
EXTENDS RoutingCache, TLC

\* A road; the same with its end extended, which no node next to the other stop can
\* tell; and closed to a ring, with the other stop cut off.
MCRoad == {{1, 2}, {2, 3}}
MCGraphs == {MCRoad, MCRoad \cup {{0, 1}}, {{0, 1}, {1, 2}, {0, 2}}}
MCContexts == {<<1, 2>>, <<2, 3>>}
MCSymmetry == Permutations(Runs) \cup Permutations(Workers)
=================================================================================
