---------------------------- MODULE TunnelActors ----------------------------
(***************************************************************************)
(* The tasks that own tunnels: rustp2p-quic/src/transport.rs               *)
(* (CoreTransportLayer).                                                   *)
(*                                                                         *)
(* Every accepted tunnel gets an actor task, registered in `tunnels` under *)
(* its route key.  The actor moves inbound data to the bounded raw channel *)
(* and outbound data from its own bounded channel to the tunnel, and ends  *)
(* when the tunnel ends, when nobody can send to it any more, or when its  *)
(* idle timer fires.  Any task sends by looking the key up, cloning the    *)
(* channel and awaiting room in it.  Payloads are left out: an outbound    *)
(* channel is the number of packets in it, an inbound packet is its kind.  *)
(***************************************************************************)
EXTENDS Integers, Sequences, FiniteSets

CONSTANTS
  Key,          \* route keys
  TcpKey,       \* those of TCP tunnels
  Sender,       \* the tasks that call send_to_route
  Kind,         \* what an inbound packet makes the dispatcher do
  OutCapacity,  \* packets an actor's channel holds (64 in the code)
  RawCapacity,  \* packets the raw channel holds (512 in the code)
  MaxActors     \* bound: how many tunnels are ever accepted

ASSUME TunnelConstants ==
  /\ TcpKey \subseteq Key
  /\ OutCapacity \in Nat \ {0}
  /\ RawCapacity \in Nat \ {0}
  /\ MaxActors \in Nat

VARIABLES
  tunnels,  \* key -> id of the registered actor, 0 when there is none
  actors,   \* id -> the actor; ids are handed out in order
  raw,      \* the raw channel: packets on their way to the dispatcher
  sending   \* task -> id of the actor whose channel it awaits, 0 for none

actorVars == <<tunnels, actors, raw, sending>>

Packet == [key : Key, kind : Kind]

\* "raw" and "write": inside the inner select of an arm.  "leave": the loop is
\* over; "removed": so is the registration, the channels are still open.
Live    == {"select", "raw", "write"}
ActorPC == Live \cup {"leave", "removed", "dropped"}

Actor == [key : Key, pc : ActorPC, kind : Kind \cup {"none"},
          out : 0 .. OutCapacity]

Ids == 1 .. Len(actors)

\* Mutant of Without: whoever holds the key is removed.
WithoutAny(k, id) == [tunnels EXCEPT ![k] = 0]

\* tunnels after remove_if: the entry of k goes if it is id's.
Without(k, id) == IF tunnels[k] = id THEN [tunnels EXCEPT ![k] = 0] ELSE tunnels

\* Actor id goes on, with no inbound packet in its hands.
Goto(id, pc) == [actors EXCEPT ![id].pc = pc, ![id].kind = "none"]

-----------------------------------------------------------------------------
(* The actor. *)

NewActor(k) == [key |-> k, pc |-> "select", kind |-> "none", out |-> 0]

\* start_core_receiver, start_tunnel_actor: the new actor replaces the
\* entry.  A tunnel of the same key may be accepted while the actor of an ended
\* connection has not noticed the end yet.
StartTunnelActor(k) ==
  /\ Len(actors) < MaxActors
  /\ actors' = Append(actors, NewActor(k))
  /\ tunnels' = [tunnels EXCEPT ![k] = Len(actors) + 1]
  /\ UNCHANGED <<raw, sending>>

\* reader.recv() yields data and the idle timer starts anew.  (Empty data only
\* restarts the timer.)
ActorRecv(id, kind) ==
  /\ actors[id].pc = "select"
  /\ actors' = [actors EXCEPT ![id].pc = "raw", ![id].kind = kind]
  /\ UNCHANGED <<tunnels, raw, sending>>

\* reader.recv() is None: the tunnel is over.
ActorRecvNone(id) ==
  /\ actors[id].pc = "select"
  /\ actors' = Goto(id, "leave")
  /\ UNCHANGED <<tunnels, raw, sending>>

\* raw_tx.send_async: the receiver lives as long as the layer.
ActorForward(id) ==
  /\ actors[id].pc = "raw"
  /\ Len(raw) < RawCapacity
  /\ raw' = Append(raw, [key |-> actors[id].key, kind |-> actors[id].kind])
  /\ actors' = Goto(id, "select")
  /\ UNCHANGED <<tunnels, sending>>

ActorTakeOutbound(id) ==
  /\ actors[id].pc = "select"
  /\ actors[id].out > 0
  /\ actors' = [actors EXCEPT ![id].pc = "write", ![id].out = @ - 1]
  /\ UNCHANGED <<tunnels, raw, sending>>

\* writer.send returns; a TCP peer that does not read may delay it for ever.
ActorWritten(id) ==
  /\ actors[id].pc = "write"
  /\ \E pc \in {"select", "leave"} : actors' = Goto(id, pc)
  /\ UNCHANGED <<tunnels, raw, sending>>

\* outbound_rx.recv() is None: the entry was replaced and no clone is left.
ActorNoSender(id) ==
  /\ actors[id].pc = "select"
  /\ tunnels[actors[id].key] # id
  /\ \A t \in Sender : sending[t] # id
  /\ actors[id].out = 0
  /\ actors' = Goto(id, "leave")
  /\ UNCHANGED <<tunnels, raw, sending>>

\* Mutant of ActorIdleEnds: the send to the raw channel is not interrupted.
ActorIdleEndsNotRaw(id) ==
  /\ actors[id].pc \in {"select", "write"}
  /\ actors' = Goto(id, "leave")
  /\ UNCHANGED <<tunnels, raw, sending>>

\* Mutant of ActorIdleEnds: the write to the tunnel is not interrupted.
ActorIdleEndsNotWrite(id) ==
  /\ actors[id].pc \in {"select", "raw"}
  /\ actors' = Goto(id, "leave")
  /\ UNCHANGED <<tunnels, raw, sending>>

\* The idle arm, of the outer select and of both inner ones; only inbound data
\* restarts the timer.
ActorIdleEnds(id) ==
  /\ actors[id].pc \in Live
  /\ actors' = Goto(id, "leave")
  /\ UNCHANGED <<tunnels, raw, sending>>

\* After the loop: remove_if of the own entry ...
ActorUnregisters(id) ==
  /\ actors[id].pc = "leave"
  /\ tunnels' = Without(actors[id].key, id)
  /\ actors' = Goto(id, "removed")
  /\ UNCHANGED <<raw, sending>>

\* ... then the task's channels and tunnel halves are dropped; what is queued
\* is lost.
ActorDrops(id) ==
  /\ actors[id].pc = "removed"
  /\ actors' = [actors EXCEPT ![id].pc = "dropped", ![id].out = 0]
  /\ UNCHANGED <<tunnels, raw, sending>>

\* All steps but ActorRecv, whose input is the environment's.
ActorNext ==
  \/ \E k \in Key : StartTunnelActor(k)
  \/ \E id \in Ids :
       \/ ActorRecvNone(id)
       \/ ActorForward(id)
       \/ ActorTakeOutbound(id)
       \/ ActorWritten(id)
       \/ ActorNoSender(id)
       \/ ActorIdleEnds(id)
       \/ ActorUnregisters(id)
       \/ ActorDrops(id)

-----------------------------------------------------------------------------
(* send_to_route, called by task t. *)

\* There is an actor: clone its channel and await room in it.
SendToActor(t, k) ==
  /\ sending[t] = 0
  /\ tunnels[k] # 0
  /\ sending' = [sending EXCEPT ![t] = tunnels[k]]
  /\ UNCHANGED <<tunnels, actors, raw>>

\* Room in the channel (even of an actor that has left its loop).
SendAccepted(t) ==
  /\ sending[t] # 0
  /\ actors[sending[t]].pc # "dropped"
  /\ actors[sending[t]].out < OutCapacity
  /\ actors' = [actors EXCEPT ![sending[t]].out = @ + 1]
  /\ sending' = [sending EXCEPT ![t] = 0]
  /\ UNCHANGED <<tunnels, raw>>

\* The channel is closed: forget the actor; a TCP send fails, a UDP one goes
\* out through the main socket.
SendClosed(t) ==
  /\ sending[t] # 0
  /\ actors[sending[t]].pc = "dropped"
  /\ tunnels' = Without(actors[sending[t]].key, sending[t])
  /\ sending' = [sending EXCEPT ![t] = 0]
  /\ UNCHANGED <<actors, raw>>

\* recv_wire: the dispatcher takes a packet.
RecvWire ==
  /\ raw # << >>
  /\ raw' = Tail(raw)
  /\ UNCHANGED <<tunnels, actors, sending>>

-----------------------------------------------------------------------------
ActorInit ==
  /\ tunnels = [k \in Key |-> 0]
  /\ actors = << >>
  /\ raw = << >>
  /\ sending = [t \in Sender |-> 0]

ActorsNext ==
  \/ ActorNext
  \/ \E id \in Ids, kind \in Kind : ActorRecv(id, kind)
  \/ \E t \in Sender :
       (\E k \in Key : SendToActor(t, k)) \/ SendAccepted(t) \/ SendClosed(t)
  \/ RecvWire

\* The actors among tasks that send at any time.
ActorSpec == ActorInit /\ [][ActorsNext]_actorVars

\* The runtime polls a ready task, a select picks among its ready arms at
\* random, and a timer that is not restarted fires: in the inner selects it is
\* not.  How long writer.send takes is up to the remote end.
ActorFairness ==
  \A id \in 1 .. MaxActors :
    /\ WF_actorVars(id \in Ids /\ ActorForward(id))
    /\ SF_actorVars(id \in Ids /\ ActorTakeOutbound(id))
    /\ WF_actorVars(id \in Ids /\ actors[id].pc = "raw" /\ ActorIdleEnds(id))
    /\ WF_actorVars(id \in Ids /\ actors[id].pc = "write" /\ ActorIdleEnds(id))
    /\ WF_actorVars(id \in Ids /\ (ActorUnregisters(id) \/ ActorDrops(id)))

ActorTypeOK ==
  /\ actors \in Seq(Actor) /\ Len(actors) <= MaxActors
  /\ tunnels \in [Key -> 0 .. Len(actors)]
  /\ raw \in Seq(Packet) /\ Len(raw) <= RawCapacity
  /\ sending \in [Sender -> 0 .. Len(actors)]

-----------------------------------------------------------------------------
Latest(id) == \A o \in Ids : o > id => actors[o].key # actors[id].key

\* An entry of the tunnels map is the key's most recent actor and that actor
\* has not unregistered itself; the most recent actor of a key, while it runs,
\* is in the map.  So the end of an actor, and a send that finds a channel
\* closed, never take a successor's registration away (remove_if by id).
MapHoldsLatest ==
  /\ \A k \in Key : tunnels[k] # 0 =>
       /\ actors[tunnels[k]].key = k
       /\ Latest(tunnels[k])
       /\ actors[tunnels[k]].pc \in Live \cup {"leave"}
  /\ \A id \in Ids :
       actors[id].pc \in Live /\ Latest(id) => tunnels[actors[id].key] = id
=============================================================================
