--------------------------- MODULE MCRouteTable ---------------------------
(***************************************************************************)
(* RouteTable for TLC: two peers that may share a route key, so that an    *)
(* owner can be replaced, and times left out (IdleRoutes has them).        *)
(***************************************************************************)
EXTENDS RouteTable, TLC

CONSTANTS p1, p2, k1, k2

MCPeer == {p1, p2}
MCKey == {k1, k2}
Symmetry == Permutations(MCPeer) \cup Permutations(MCKey)
=============================================================================
