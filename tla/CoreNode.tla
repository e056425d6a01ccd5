------------------------------ MODULE CoreNode ------------------------------
(***************************************************************************)
(* A node from its bind to its NAT maintenance: CoreTransportLayer::bind   *)
(* (rustp2p-quic/src/transport.rs) binds the sockets and makes the         *)
(* puncher; then the STUN loop of start_nat_maintenance (protocol.rs) and  *)
(* users of the puncher test the NAT and apply what they find, while punch *)
(* rounds run.                                                             *)
(***************************************************************************)
EXTENDS BindPorts, StunTest, Puncher

CONSTANT StunLoop  \* the task of start_nat_maintenance

ASSUME NodeConstants == StunLoop \in Applier

VARIABLES
  nat,     \* the kind of NAT the node is behind
  natInfo  \* nat_type and public_port_range of the node's NatInfo

vars == <<bind, assistantVars, roundVars, nat, natInfo>>

Up == bind.pc = "moved"

\* The sockets go to the pool and to the accept loops (UdpDispatcher,
\* TcpTunnel); the locals of bind are gone.
StartNode ==
  /\ bind.pc = "bound"
  /\ bind' = Binding("moved", CHOOSE c \in Configs : TRUE)
  /\ UNCHANGED <<assistantVars, roundVars, nat, natInfo>>

\* apply_stun_result_to_nat_info: the ports of the test's own sockets are kept
\* apart from the node's and left out here.
ApplyStunResult(result) == [natInfo EXCEPT !.type = result.type, !.range = result.range]

\* One turn of the loop: the result is written to the node's NatInfo, then
\* applied.
DetectInLoop ==
  /\ Up
  /\ \E result \in StunResults[nat] :
       /\ natInfo' = ApplyStunResult(result)
       /\ ApplyNatModel(StunLoop, result.type)
  /\ UNCHANGED <<bind, roundVars, nat>>

\* Another user of the puncher calls nat_info, and apply_nat_model with what it
\* says.
DetectByHand(a) ==
  /\ Up
  /\ \E result \in StunResults[nat] : ApplyNatModel(a, result.type)
  /\ UNCHANGED <<bind, roundVars, nat, natInfo>>

-----------------------------------------------------------------------------
Init ==
  /\ BindInit
  /\ PuncherInit
  /\ nat \in NatKind
  /\ natInfo = [type |-> "Cone", range |-> 0]

Next ==
  \/ BindNext /\ UNCHANGED <<assistantVars, roundVars, nat, natInfo>>
  \/ StartNode
  \/ DetectInLoop
  \/ \E a \in Applier \ {StunLoop} : DetectByHand(a)
  \/ ApplyStep /\ UNCHANGED <<bind, roundVars, nat, natInfo>>
  \/ Up /\ RoundStep /\ UNCHANGED <<bind, assistantVars, nat, natInfo>>

Spec == Init /\ [][Next]_vars

-----------------------------------------------------------------------------
\* Sockets, calls, rounds and NatInfo hold values of their types.
TypeOK ==
  /\ BindTypeOK
  /\ PuncherTypeOK
  /\ nat \in NatKind
  /\ natInfo \in [type : {"Cone", "Symmetric"}, range : Nat]

\* Behind a cone NAT the node never takes it for a symmetric one, opens no
\* assistant socket and tells peers of no port range, whatever answers of the
\* servers are lost, late or duplicated: rounds and address families are
\* judged apart (mapped_nat_type, stun_test_nat_bound, apply_nat_model).
ConeRecognised ==
  nat = "cone" => natInfo = [type |-> "Cone", range |-> 0] /\ assistants = 0
=============================================================================
