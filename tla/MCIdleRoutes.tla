--------------------------- MODULE MCIdleRoutes ---------------------------
(***************************************************************************)
(* IdleRoutes for TLC: two peers, two keys, a read-idle period of three    *)
(* units, so that routes of different ages coexist and the empty-table     *)
(* sleep (a third of the period) differs from the others.                  *)
(***************************************************************************)
EXTENDS IdleRoutes

CONSTANTS p1, p2, k1, k2

MCPeer == {p1, p2}
MCKey == {k1, k2}
=============================================================================
