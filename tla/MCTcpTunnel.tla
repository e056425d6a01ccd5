---------------------------- MODULE MCTcpTunnel ----------------------------
(***************************************************************************)
(* Small instances of TcpTunnel: channels of one frame, so that each of    *)
(* them fills, a kernel buffer of one unit, so that a write stops inside a *)
(* frame, and a last frame in each direction that is too large.            *)
(***************************************************************************)
EXTENDS TcpTunnel

=============================================================================
