------------------------ MODULE MCCollectionBackends ------------------------
(***************************************************************************)
(* Values of CollectionBackends' constants for TLC: one standard name with *)
(* id 1, two others, ids from 3.                                           *)
(***************************************************************************)
EXTENDS CollectionBackends, TLC

CONSTANTS p1, p2, s1, s2, std, n1, n2

TwoClients == {p1, p2}
TwoServers == {s1, s2}
ThreeNames == {std, n1, n2}
OneStd     == std :> 1

Symmetric == Permutations(TwoClients) \cup Permutations(TwoServers) \cup Permutations({n1, n2})
=============================================================================
