------------------------- MODULE MCQuicConnections -------------------------
(***************************************************************************)
(* One peer with and without a route of its own, two callers, the loops,   *)
(* and a reader for each of two connections.                               *)
(***************************************************************************)
EXTENDS QuicConnections, TLC

Sym == Permutations(Addr) \cup Permutations(Caller) \cup Permutations(Reader)
=============================================================================
