--------------------------- MODULE ProtocolTasks ---------------------------
(***************************************************************************)
(* The tasks around the packet dispatcher and the bounded channels between *)
(* them: rustp2p-quic/src/protocol.rs (start_packet_dispatcher, the awaits *)
(* of handle_transport_packet, add_bootstrap), quic.rs                     *)
(* (start_transport_loop) and transport.rs (start_core_sender), composed   *)
(* with the tunnel actors.                                                 *)
(*                                                                         *)
(* One dispatcher task handles packets one after another.  What a packet   *)
(* does to the routing state is the subject of Overlay; here it is only    *)
(* what its handler waits for: room in an actor's channel, room in the     *)
(* hello channel, room in the QUIC channel, or a punch round.              *)
(***************************************************************************)
EXTENDS TunnelActors

CONSTANTS
  Caller,         \* tasks that call add_bootstrap
  BootstrapKey,   \* caller -> the key of the address it calls with
  HelloCapacity,  \* hello replies the hello channel holds (128 in the code)
  QuicCapacity,   \* payloads the QUIC channel holds (512 in the code)
  Attempts,       \* tries of one add_bootstrap (2 in the code)
  MaxReplies      \* bound: how many hello replies ever arrive

ASSUME TaskConstants ==
  /\ Sender = {"dispatcher", "sender"}
  /\ Kind \subseteq {"query", "forward", "hello", "quic", "punch", "other"}
  /\ BootstrapKey \in [Caller -> Key]
  /\ HelloCapacity \in Nat \ {0}
  /\ QuicCapacity \in Nat \ {0}
  /\ Attempts \in Nat \ {0}
  /\ MaxReplies \in Nat

VARIABLES
  dispatcher,  \* where the dispatcher is: pc and the packet it handles
  hello,       \* the hello channel: keys that replied
  quic,        \* payloads in the QUIC channel
  bootstrap,   \* caller -> where its add_bootstrap has got to
  closed,      \* Endpoint::close was called
  replies      \* hello replies that have arrived

taskVars == <<dispatcher, hello, quic, bootstrap, closed, replies>>
vars     == <<actorVars, taskVars>>

DispatcherPC == {"top", "recv", "send", "hello", "quic", "punch", "ended"}

\* wait: the hello channel is awaited; sleep: 50 ms before the next attempt.
Call == [pc : {"idle", "wait", "sleep", "found", "failed"}, tries : 0 .. Attempts]

NoPacket == [key |-> CHOOSE k \in Key : TRUE, kind |-> "none"]

\* The dispatcher goes on; at the top of its loop it holds no packet.
At(pc) ==
  dispatcher' = [pc |-> pc, packet |-> IF pc = "send" THEN dispatcher.packet
                                                      ELSE NoPacket]

-----------------------------------------------------------------------------
\* A packet arrives at an actor.
Arrive(id, kind) ==
  /\ ActorRecv(id, kind)
  /\ kind = "hello" => replies < MaxReplies
  /\ replies' = IF kind = "hello" THEN replies + 1 ELSE replies
  /\ UNCHANGED <<dispatcher, hello, quic, bootstrap, closed>>

(* The dispatcher. *)

DispatcherTop ==
  /\ dispatcher.pc = "top"
  /\ At(IF closed THEN "ended" ELSE "recv")
  /\ UNCHANGED <<actorVars, hello, quic, bootstrap, closed, replies>>

Waits(kind) ==
  CASE kind \in {"hello", "quic", "punch"} -> kind
    [] kind \in {"query", "forward"}       -> "send"
    [] OTHER                               -> "top"

\* recv_wire and the part of the handler before its first await.
DispatcherRecv ==
  /\ dispatcher.pc = "recv"
  /\ RecvWire
  /\ dispatcher' = [pc |-> Waits(Head(raw).kind),
                    packet |-> IF Waits(Head(raw).kind) = "top" THEN NoPacket
                                                                ELSE Head(raw)]
  /\ UNCHANGED <<hello, quic, bootstrap, closed, replies>>

\* A reply goes back over the packet's own key, a forwarded packet over the
\* key the route table names for its destination.
SendKey ==
  IF dispatcher.packet.kind = "forward" THEN Key ELSE {dispatcher.packet.key}

\* send_to_route: await room in the actor's channel ...
DispatcherSend ==
  /\ dispatcher.pc = "send"
  /\ \E k \in SendKey : SendToActor("dispatcher", k)
  /\ UNCHANGED taskVars

\* ... or, with no actor (or no route at all), finish at once.
DispatcherSendDirect ==
  /\ dispatcher.pc = "send"
  /\ sending["dispatcher"] = 0
  /\ \E k \in SendKey : tunnels[k] = 0
  /\ At("top")
  /\ UNCHANGED <<actorVars, hello, quic, bootstrap, closed, replies>>

DispatcherSent ==
  /\ SendAccepted("dispatcher") \/ SendClosed("dispatcher")
  /\ At("top")
  /\ UNCHANGED <<hello, quic, bootstrap, closed, replies>>

\* HelloReply: hello_tx.send_async, whether or not anybody reads hello_rx.
DispatcherHello ==
  /\ dispatcher.pc = "hello"
  /\ Len(hello) < HelloCapacity
  /\ hello' = Append(hello, dispatcher.packet.key)
  /\ At("top")
  /\ UNCHANGED <<actorVars, quic, bootstrap, closed, replies>>

\* Mutant of DispatcherQuic: the channel is unbounded.
DispatcherQuicUnbounded ==
  /\ dispatcher.pc = "quic"
  /\ quic' = quic + 1
  /\ At("top")
  /\ UNCHANGED <<actorVars, hello, bootstrap, closed, replies>>

\* QuicRelay: quic_tx.send_async.
DispatcherQuic ==
  /\ dispatcher.pc = "quic"
  /\ quic < QuicCapacity
  /\ quic' = quic + 1
  /\ At("top")
  /\ UNCHANGED <<actorVars, hello, bootstrap, closed, replies>>

\* PunchRequest, PunchReply: the punch round is awaited inline; a request is
\* then answered.
DispatcherPunch ==
  /\ dispatcher.pc = "punch"
  /\ \E pc \in {"send", "top"} : At(pc)
  /\ UNCHANGED <<actorVars, hello, quic, bootstrap, closed, replies>>

\* start_transport_loop: quinn takes the payload.
QuicTakes ==
  /\ ~closed
  /\ quic > 0
  /\ quic' = quic - 1
  /\ UNCHANGED <<actorVars, dispatcher, hello, bootstrap, closed, replies>>

-----------------------------------------------------------------------------
(* The core sender, with the unbounded queue QUIC's try_send fills. *)

\* A packet for a key with an actor; without one the send ends at once.
CoreSend(k) ==
  /\ SendToActor("sender", k)
  /\ UNCHANGED taskVars

CoreSent ==
  /\ SendAccepted("sender") \/ SendClosed("sender")
  /\ UNCHANGED taskVars

-----------------------------------------------------------------------------
(* add_bootstrap. *)

ToCall(c, pc) == bootstrap' = [bootstrap EXCEPT ![c].pc = pc]

\* add_bootstrap_once: the HelloRequest goes out over the raw socket; when
\* that fails the attempt is over.
BootstrapSend(c) ==
  /\ bootstrap[c].pc \in {"idle", "sleep"}
  /\ bootstrap[c].tries < Attempts
  /\ \E pc \in {"wait", "sleep"} :
       bootstrap' = [bootstrap EXCEPT ![c] = [pc |-> pc, tries |-> @.tries + 1]]
  /\ UNCHANGED <<actorVars, dispatcher, hello, quic, closed, replies>>

\* Each caller takes from the one channel; a reply of another address is
\* thrown away.
BootstrapTakes(c) ==
  /\ bootstrap[c].pc = "wait"
  /\ hello # << >>
  /\ hello' = Tail(hello)
  /\ ToCall(c, IF Head(hello) = BootstrapKey[c] THEN "found" ELSE "wait")
  /\ UNCHANGED <<actorVars, dispatcher, quic, closed, replies>>

\* 30 s without the reply.
BootstrapTimeout(c) ==
  /\ bootstrap[c].pc = "wait"
  /\ ToCall(c, "sleep")
  /\ UNCHANGED <<actorVars, dispatcher, hello, quic, closed, replies>>

BootstrapFails(c) ==
  /\ bootstrap[c].pc = "sleep"
  /\ bootstrap[c].tries = Attempts
  /\ ToCall(c, "failed")
  /\ UNCHANGED <<actorVars, dispatcher, hello, quic, closed, replies>>

Close ==
  /\ ~closed
  /\ closed' = TRUE
  /\ UNCHANGED <<actorVars, dispatcher, hello, quic, bootstrap, replies>>

-----------------------------------------------------------------------------
Init ==
  /\ ActorInit
  /\ dispatcher = [pc |-> "top", packet |-> NoPacket]
  /\ hello = << >>
  /\ quic = 0
  /\ bootstrap = [c \in Caller |-> [pc |-> "idle", tries |-> 0]]
  /\ closed = FALSE
  /\ replies = 0

DispatcherNext ==
  \/ DispatcherTop \/ DispatcherRecv \/ DispatcherSend \/ DispatcherSendDirect
  \/ DispatcherSent \/ DispatcherHello \/ DispatcherQuic \/ DispatcherPunch

Next ==
  \/ ActorNext /\ UNCHANGED taskVars
  \/ \E id \in Ids, kind \in Kind : Arrive(id, kind)
  \/ DispatcherNext
  \/ QuicTakes
  \/ \E k \in Key : CoreSend(k)
  \/ CoreSent
  \/ \E c \in Caller :
       BootstrapSend(c) \/ BootstrapTakes(c) \/ BootstrapTimeout(c)
       \/ BootstrapFails(c)
  \/ Close

Spec == Init /\ [][Next]_vars

\* Room in a channel goes to the tasks that wait for it in order, so none of
\* them is passed over for ever.
FairSpec ==
  /\ Spec
  /\ ActorFairness
  /\ WF_vars(DispatcherNext)
  /\ WF_vars(QuicTakes)
  /\ SF_vars(DispatcherSent)
  /\ SF_vars(CoreSent)

-----------------------------------------------------------------------------
\* Tasks and channels hold values of their types, and no channel more than its
\* capacity.
TypeOK ==
  /\ ActorTypeOK
  /\ dispatcher \in [pc : DispatcherPC, packet : Packet \cup {NoPacket}]
  /\ hello \in Seq(Key) /\ Len(hello) <= HelloCapacity
  /\ quic \in 0 .. QuicCapacity
  /\ bootstrap \in [Caller -> Call]
  /\ closed \in BOOLEAN
  /\ replies \in 0 .. MaxReplies

Busy == dispatcher.pc \in {"send", "hello", "quic", "punch"}

\* The handler of every packet returns, so that the next one is handled.  The
\* dispatcher may wait for room in the channel of an actor that itself waits
\* for the dispatcher to take a packet from the raw channel; the idle arms of
\* the actor's inner selects break the circle.
EveryPacketHandled == Busy ~> (~Busy \/ closed)

\* The same for the one task that sends for all QUIC connections: a tunnel
\* that accepts no data holds it up until its idle timer fires, not for ever.
SenderFreed == (sending["sender"] # 0) ~> (sending["sender"] = 0)
=============================================================================
