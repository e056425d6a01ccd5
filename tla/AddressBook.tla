---------------------------- MODULE AddressBook ----------------------------
(***************************************************************************)
(* What the synthetic addresses of rustp2p-quic/src/quic.rs promise quinn, *)
(* which knows peers by socket address only.  A target is a peer, or a     *)
(* peer over one route.  An address belongs to at most one target at a     *)
(* time and is free before it goes to another; the address published for a *)
(* target belongs to it for as long as it is published.                    *)
(***************************************************************************)
CONSTANTS Target, Addr, None

VARIABLES
  owner,     \* address -> the target its packets go to
  published  \* target -> the address new connections use

Init ==
  /\ owner = [a \in Addr |-> None]
  /\ published = [t \in Target |-> None]

Assign(a, t) ==
  /\ owner[a] = None
  /\ owner' = [owner EXCEPT ![a] = t]
  /\ UNCHANGED published

Publish(a, t) ==
  /\ owner[a] = t
  /\ published[t] = None
  /\ published' = [published EXCEPT ![t] = a]
  /\ UNCHANGED owner

Withdraw(t) ==
  /\ published' = [published EXCEPT ![t] = None]
  /\ UNCHANGED owner

Free(a) ==
  /\ \A t \in Target : published[t] # a
  /\ owner' = [owner EXCEPT ![a] = None]
  /\ UNCHANGED published

Next ==
  \/ \E a \in Addr, t \in Target : Assign(a, t) \/ Publish(a, t)
  \/ \E t \in Target : Withdraw(t)
  \/ \E a \in Addr : Free(a)

Spec == Init /\ [][Next]_<<owner, published>>
=============================================================================
