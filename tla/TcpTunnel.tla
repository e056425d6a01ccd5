----------------------------- MODULE TcpTunnel -----------------------------
(***************************************************************************)
(* One TCP connection as a tunnel: the read and the write task of          *)
(* SocketPool::tcp_tunnel and publish_tcp (rustp2p-core/src/endpoint/      *)
(* pool.rs), the task that publishes it (the accept loop of service.rs or  *)
(* connect_tcp_punch of punch/mod.rs), the two halves the application owns *)
(* (tunnel.rs) and the drop of TunnelIncoming.                             *)
(*                                                                         *)
(* A frame is a number and travels as two units, its head and its body, so *)
(* that reads and writes may stop in the middle of one.  Everything between *)
(* two awaits is one step.                                                 *)
(***************************************************************************)
EXTENDS Integers, Sequences

CONSTANTS
  ChannelCapacity,  \* frames in write_tx and in data_tx (64 in the code)
  AcceptCapacity,   \* tunnels waiting for next() (512 in the code)
  SendBuffer,       \* units the kernel takes before the peer reads them
  MaxIn, MaxOut,    \* bounds: frames the peer, the application ever send
  MaxWriters,       \* bound: write halves alive at a time
  TooLargeIn, TooLargeOut   \* the frames beyond MAX_FRAME_LEN

ASSUME TcpConstants ==
  /\ {ChannelCapacity, AcceptCapacity, SendBuffer, MaxWriters, MaxOut} \subseteq Nat \ {0}
  /\ MaxIn \in Nat
  /\ TooLargeIn \subseteq Nat /\ TooLargeOut \subseteq Nat

VARIABLES
  peer,       \* [sent, net, state]: what the remote end has done
  reader,     \* the read task: [pc, buf, hand]
  data,       \* the channel from the read task to the read half
  app,        \* [got, ended]: what the read half returned so far
  writer,     \* the write task: [pc, hand]
  out,        \* the channel from the write halves to the write task
  sent,       \* how many frames the write halves accepted
  wire,       \* [frames, torn, unread]: what the write task wrote
  halves,     \* [read, writers]: the halves that are alive
  tunnel,     \* where the tunnel is
  publisher,  \* the task that publishes it: [kind, pc]
  accept,     \* the accept queue
  incoming,   \* where the drop of TunnelIncoming has got to
  hears       \* task -> it subscribed before the shutdown signal

vars == <<peer, reader, data, app, writer, out, sent, wire, halves, tunnel,
          publisher, accept, incoming, hears>>

inVars  == <<peer, reader, data, app>>
outVars == <<writer, out, sent, wire>>
pubVars == <<tunnel, publisher, accept, incoming, hears>>

Units(n) == <<<<n, "head">>, <<n, "body">>>>

\* The shutdown signal has been sent and the task subscribed before that.
Signalled(task) == hears[task] /\ incoming # "open"

-----------------------------------------------------------------------------
(* The remote end. *)

PeerSend ==
  /\ peer.state = "open" /\ peer.sent < MaxIn
  /\ peer' = [peer EXCEPT !.sent = @ + 1, !.net = @ \o Units(peer.sent + 1)]
  /\ UNCHANGED <<reader, data, app, outVars, halves, pubVars>>

\* It closes its sending direction, or the connection breaks.
PeerClose ==
  /\ peer.state = "open"
  /\ \E s \in {"eof", "reset"} : peer' = [peer EXCEPT !.state = s]
  /\ UNCHANGED <<reader, data, app, outVars, halves, pubVars>>

PeerRead ==
  /\ wire.unread > 0
  /\ wire' = [wire EXCEPT !.unread = @ - 1]
  /\ UNCHANGED <<inVars, writer, out, sent, halves, pubVars>>

-----------------------------------------------------------------------------
(* The read task. *)

\* read_buf returns some bytes.
ReadSome ==
  /\ reader.pc = "select"
  /\ \E n \in 1 .. Len(peer.net) :
       /\ reader' = [reader EXCEPT !.pc = "decode",
                                   !.buf = @ \o SubSeq(peer.net, 1, n)]
       /\ peer' = [peer EXCEPT !.net = SubSeq(@, n + 1, Len(@))]
  /\ UNCHANGED <<data, app, outVars, halves, pubVars>>

\* read_buf returns 0 at the end of the stream, or an error.
ReadEnd ==
  /\ reader.pc = "select"
  /\ peer.state = "reset" \/ (peer.state = "eof" /\ peer.net = <<>>)
  /\ reader' = [reader EXCEPT !.pc = "done"]
  /\ UNCHANGED <<peer, data, app, outVars, halves, pubVars>>

\* Mutant of ReadStop: the select has no arm for the tunnel's own signal.
ReadStopGlobalOnly ==
  /\ reader.pc = "select"
  /\ Signalled("reader")
  /\ reader' = [reader EXCEPT !.pc = "done"]
  /\ UNCHANGED <<peer, data, app, outVars, halves, pubVars>>

\* The two shutdown arms of the select.
ReadStop ==
  /\ reader.pc = "select"
  /\ Signalled("reader") \/ halves.read = "dropped"
  /\ reader' = [reader EXCEPT !.pc = "done"]
  /\ UNCHANGED <<peer, data, app, outVars, halves, pubVars>>

\* decoder.decode: a frame too large is an error as soon as its length is
\* there, a whole frame is taken off the buffer, less than one waits.
Decode ==
  /\ reader.pc = "decode"
  /\ reader' =
       IF reader.buf # <<>> /\ reader.buf[1][1] \in TooLargeIn
       THEN [reader EXCEPT !.pc = "done"]
       ELSE IF Len(reader.buf) >= 2
            THEN [pc |-> "send", hand |-> reader.buf[1][1],
                  buf |-> SubSeq(reader.buf, 3, Len(reader.buf))]
            ELSE [reader EXCEPT !.pc = "select"]
  /\ UNCHANGED <<peer, data, app, outVars, halves, pubVars>>

\* Mutants of Deliver: a full channel drops the frame, or ends the task.
DeliverOrDrop ==
  /\ reader.pc = "send"
  /\ halves.read = "held"
  /\ data' = IF Len(data) < ChannelCapacity THEN Append(data, reader.hand) ELSE data
  /\ reader' = [reader EXCEPT !.pc = "decode", !.hand = 0]
  /\ UNCHANGED <<peer, app, outVars, halves, pubVars>>

DeliverOrQuit ==
  /\ reader.pc = "send"
  /\ halves.read = "held"
  /\ data' = IF Len(data) < ChannelCapacity THEN Append(data, reader.hand) ELSE data
  /\ reader' = [reader EXCEPT !.pc = IF Len(data) < ChannelCapacity
                                     THEN "decode" ELSE "done", !.hand = 0]
  /\ UNCHANGED <<peer, app, outVars, halves, pubVars>>

\* data_tx.send(..).await: waits for room, and for nothing else.
Deliver ==
  /\ reader.pc = "send"
  /\ halves.read = "held"
  /\ Len(data) < ChannelCapacity
  /\ data' = Append(data, reader.hand)
  /\ reader' = [reader EXCEPT !.pc = "decode", !.hand = 0]
  /\ UNCHANGED <<peer, app, outVars, halves, pubVars>>

DeliverFails ==
  /\ reader.pc = "send"
  /\ halves.read # "held"
  /\ reader' = [reader EXCEPT !.pc = "done", !.hand = 0]
  /\ UNCHANGED <<peer, data, app, outVars, halves, pubVars>>

ReaderStep == Decode \/ Deliver \/ DeliverFails

-----------------------------------------------------------------------------
(* The write task. *)

\* write_rx.recv returns a frame; encoder.encode refuses one too large.
WriteTake ==
  /\ writer.pc = "select"
  /\ out # <<>>
  /\ out' = Tail(out)
  /\ writer' = IF Head(out) \in TooLargeOut
               THEN [writer EXCEPT !.pc = "done"]
               ELSE [pc |-> "write", hand |-> Head(out)]
  /\ UNCHANGED <<inVars, sent, wire, halves, pubVars>>

\* write_all_vectored: the head, then the body, as the kernel takes them.
WriteHead ==
  /\ writer.pc = "write" /\ ~wire.torn
  /\ peer.state # "reset" /\ wire.unread < SendBuffer
  /\ wire' = [wire EXCEPT !.torn = TRUE, !.unread = @ + 1]
  /\ UNCHANGED <<inVars, writer, out, sent, halves, pubVars>>

WriteBody ==
  /\ writer.pc = "write" /\ wire.torn
  /\ peer.state # "reset" /\ wire.unread < SendBuffer
  /\ wire' = [frames |-> Append(wire.frames, writer.hand), torn |-> FALSE,
              unread |-> wire.unread + 1]
  /\ writer' = [pc |-> "select", hand |-> 0]
  /\ UNCHANGED <<inVars, out, sent, halves, pubVars>>

WriteFails ==
  /\ writer.pc = "write" /\ peer.state = "reset"
  /\ writer' = [pc |-> "done", hand |-> 0]
  /\ UNCHANGED <<inVars, out, sent, wire, halves, pubVars>>

\* Mutant of WriteStop: the write is raced against the shutdown as well.
WriteStopAnywhere ==
  /\ writer.pc \in {"select", "write"} /\ Signalled("writer")
  /\ writer' = [pc |-> "done", hand |-> 0]
  /\ UNCHANGED <<inVars, out, sent, wire, halves, pubVars>>

\* The shutdown arm of the select.
WriteStop ==
  /\ writer.pc = "select" /\ Signalled("writer")
  /\ writer' = [pc |-> "done", hand |-> 0]
  /\ UNCHANGED <<inVars, out, sent, wire, halves, pubVars>>

\* Mutant of WriteEnd: the task ends with the last write half.
WriteEndAtOnce ==
  /\ writer.pc = "select" /\ halves.writers = 0
  /\ writer' = [pc |-> "done", hand |-> 0]
  /\ UNCHANGED <<inVars, out, sent, wire, halves, pubVars>>

\* write_rx.recv returns None: no write half is left and the queue is empty.
WriteEnd ==
  /\ writer.pc = "select" /\ halves.writers = 0 /\ out = <<>>
  /\ writer' = [pc |-> "done", hand |-> 0]
  /\ UNCHANGED <<inVars, out, sent, wire, halves, pubVars>>

WriterStep == WriteTake \/ WriteHead \/ WriteBody \/ WriteFails \/ WriteEnd

-----------------------------------------------------------------------------
(* Making the tunnel and publishing it. *)

\* tcp_tunnel: the read task is spawned, then the write task; each subscribes
\* to the shutdown just before.
SpawnReader ==
  /\ publisher.pc = "select" /\ reader.pc = "none"
  /\ reader' = [reader EXCEPT !.pc = "select"]
  /\ halves' = [read |-> "held", writers |-> 1]
  /\ hears' = [hears EXCEPT !["reader"] = incoming = "open"]
  /\ publisher' = [publisher EXCEPT !.pc = "split"]
  /\ UNCHANGED <<peer, data, app, outVars, tunnel, accept, incoming>>

SpawnWriter ==
  /\ publisher.pc = "split"
  /\ writer' = [writer EXCEPT !.pc = "select"]
  /\ hears' = [hears EXCEPT !["writer"] = incoming = "open"]
  /\ tunnel' = "publishing"
  /\ publisher' = [publisher EXCEPT !.pc = IF publisher.kind = "punch"
                                           THEN "initial" ELSE "publish"]
  /\ UNCHANGED <<inVars, out, sent, wire, halves, accept, incoming>>

\* publish_tcp: a punched connection carries a first frame.
SendInitial ==
  /\ publisher.pc = "initial"
  /\ IF writer.pc # "done"
     THEN /\ out' = Append(out, sent + 1) /\ sent' = sent + 1
          /\ publisher' = [publisher EXCEPT !.pc = "publish"]
          /\ UNCHANGED tunnel
     ELSE /\ tunnel' = "dropping"
          /\ publisher' = [publisher EXCEPT !.pc = "done"]
          /\ UNCHANGED <<out, sent>>
  /\ UNCHANGED <<inVars, writer, wire, halves, accept, incoming, hears>>

\* The accept loop goes on with its select, the puncher is done.
Returned == [publisher EXCEPT !.pc = IF publisher.kind = "accept" THEN "select" ELSE "done"]

\* accept_tx.send(tunnel).await waits for room and fails when closed.
Publish ==
  /\ publisher.pc = "publish"
  /\ incoming # "closed" /\ Len(accept) < AcceptCapacity
  /\ accept' = Append(accept, "this")
  /\ tunnel' = "waiting"
  /\ publisher' = Returned
  /\ UNCHANGED <<inVars, outVars, halves, incoming, hears>>

\* Mutant of PublishFails: a closed accept queue is not noticed.
PublishFailsNever ==
  /\ publisher.pc = "publish"
  /\ incoming = "closed"
  /\ UNCHANGED vars

PublishFails ==
  /\ publisher.pc = "publish"
  /\ incoming = "closed"
  /\ tunnel' = "dropping"
  /\ publisher' = Returned
  /\ UNCHANGED <<inVars, outVars, halves, accept, incoming, hears>>

\* connect_tcp_punch gives up: connecting, or at one of publish_tcp's awaits.
PunchTimeout ==
  /\ publisher.kind = "punch" /\ publisher.pc \in {"select", "initial", "publish"}
  /\ publisher' = [publisher EXCEPT !.pc = "done"]
  /\ tunnel' = IF tunnel = "none" THEN "none" ELSE "dropping"
  /\ UNCHANGED <<inVars, outVars, halves, accept, incoming, hears>>

\* The shutdown arm of the accept loop.
AcceptLoopStops ==
  /\ publisher.kind = "accept" /\ publisher.pc = "select"
  /\ incoming # "open"
  /\ publisher' = [publisher EXCEPT !.pc = "done"]
  /\ UNCHANGED <<inVars, outVars, halves, tunnel, accept, incoming, hears>>

PublisherStep == SpawnWriter \/ SendInitial \/ Publish \/ PublishFails

-----------------------------------------------------------------------------
(* The application and TunnelIncoming. *)

\* Some other tunnel is published.
OtherArrives ==
  /\ incoming # "closed" /\ Len(accept) < AcceptCapacity
  /\ accept' = Append(accept, "other")
  /\ UNCHANGED <<inVars, outVars, halves, tunnel, publisher, incoming, hears>>

\* TunnelIncoming::next.
AcceptNext ==
  /\ incoming = "open" /\ accept # <<>>
  /\ accept' = Tail(accept)
  /\ tunnel' = IF Head(accept) = "this" THEN "owned" ELSE tunnel
  /\ UNCHANGED <<inVars, outVars, halves, publisher, incoming, hears>>

\* Drop of TunnelIncoming: shutdown signals, then the accept queue closes and
\* the tunnels in it are dropped.
ShutdownSignal ==
  /\ incoming = "open"
  /\ incoming' = "signalled"
  /\ UNCHANGED <<inVars, outVars, halves, tunnel, publisher, accept, hears>>

CloseAccept ==
  /\ incoming = "signalled"
  /\ incoming' = "closed"
  /\ UNCHANGED <<inVars, outVars, halves, tunnel, publisher, accept, hears>>

DrainAccept ==
  /\ incoming = "closed" /\ accept # <<>>
  /\ accept' = Tail(accept)
  /\ tunnel' = IF Head(accept) = "this" THEN "dropping" ELSE tunnel
  /\ UNCHANGED <<inVars, outVars, halves, publisher, incoming, hears>>

\* TunnelReadHalf::recv: a frame, or None once the read task has ended and
\* the channel is empty.
Recv ==
  /\ tunnel = "owned" /\ halves.read = "held" /\ data # <<>>
  /\ app' = [app EXCEPT !.got = Append(@, Head(data))]
  /\ data' = Tail(data)
  /\ UNCHANGED <<peer, reader, outVars, halves, pubVars>>

RecvEnd ==
  /\ tunnel = "owned" /\ halves.read = "held"
  /\ data = <<>> /\ reader.pc = "done" /\ ~app.ended
  /\ app' = [app EXCEPT !.ended = TRUE]
  /\ UNCHANGED <<peer, reader, data, outVars, halves, pubVars>>

\* Mutant of Send: the channel is unbounded.
SendUnbounded ==
  /\ tunnel = "owned" /\ halves.writers > 0 /\ writer.pc # "done"
  /\ sent < MaxOut
  /\ out' = Append(out, sent + 1)
  /\ sent' = sent + 1
  /\ UNCHANGED <<inVars, writer, wire, halves, pubVars>>

\* TunnelWriteHalf::send.
Send ==
  /\ tunnel = "owned" /\ halves.writers > 0 /\ writer.pc # "done"
  /\ sent < MaxOut /\ Len(out) < ChannelCapacity
  /\ out' = Append(out, sent + 1)
  /\ sent' = sent + 1
  /\ UNCHANGED <<inVars, writer, wire, halves, pubVars>>

CloneWriter ==
  /\ tunnel = "owned" /\ halves.writers \in 1 .. MaxWriters - 1
  /\ halves' = [halves EXCEPT !.writers = @ + 1]
  /\ UNCHANGED <<inVars, outVars, pubVars>>

\* The read half is dropped: data_rx with what is in it, then the sender of
\* read_shutdown.
DropRead ==
  /\ tunnel \in {"owned", "dropping"} /\ halves.read = "held"
  /\ halves' = [halves EXCEPT !.read = "closing"]
  /\ data' = <<>>
  /\ UNCHANGED <<peer, reader, app, outVars, pubVars>>

DropReadShutdown ==
  /\ halves.read = "closing"
  /\ halves' = [halves EXCEPT !.read = "dropped"]
  /\ UNCHANGED <<inVars, outVars, pubVars>>

\* A write half is dropped; in a tunnel that was not split, after the other.
DropWriter ==
  /\ tunnel = "owned" \/ (tunnel = "dropping" /\ halves.read = "dropped")
  /\ halves.writers > 0
  /\ halves' = [halves EXCEPT !.writers = @ - 1]
  /\ UNCHANGED <<inVars, outVars, pubVars>>

-----------------------------------------------------------------------------
Init ==
  /\ peer = [sent |-> 0, net |-> <<>>, state |-> "open"]
  /\ reader = [pc |-> "none", buf |-> <<>>, hand |-> 0]
  /\ data = <<>> /\ app = [got |-> <<>>, ended |-> FALSE]
  /\ writer = [pc |-> "none", hand |-> 0]
  /\ out = <<>> /\ sent = 0
  /\ wire = [frames |-> <<>>, torn |-> FALSE, unread |-> 0]
  /\ halves = [read |-> "none", writers |-> 0]
  /\ tunnel = "none"
  /\ publisher \in [kind : {"accept", "punch"}, pc : {"select"}]
  /\ accept = <<>> /\ incoming = "open"
  /\ hears = [task \in {"reader", "writer"} |-> FALSE]

Next ==
  \/ PeerSend \/ PeerClose \/ PeerRead
  \/ ReadSome \/ ReadEnd \/ ReadStop \/ ReaderStep
  \/ WriterStep \/ WriteStop
  \/ SpawnReader \/ PublisherStep \/ PunchTimeout \/ AcceptLoopStops
  \/ OtherArrives \/ AcceptNext \/ ShutdownSignal \/ CloseAccept \/ DrainAccept
  \/ Recv \/ RecvEnd \/ Send \/ CloneWriter
  \/ DropRead \/ DropReadShutdown \/ DropWriter

Spec == Init /\ [][Next]_vars

\* What a drop that has begun does without waiting for anybody.
DropStep ==
  \/ DropReadShutdown
  \/ CloseAccept
  \/ DrainAccept
  \/ tunnel = "dropping" /\ (DropRead \/ DropWriter)

\* The runtime polls every task that can run, a select takes an arm that
\* stays ready, a timeout fires and a drop runs to its end.  Nothing is assumed of the peer or
\* of the application.
Fairness ==
  /\ WF_vars(ReaderStep) /\ SF_vars(ReadStop)
  /\ WF_vars(WriterStep) /\ SF_vars(WriteStop)
  /\ WF_vars(PublisherStep) /\ WF_vars(PunchTimeout) /\ SF_vars(AcceptLoopStops)
  /\ WF_vars(DropStep)

FairSpec == Spec /\ Fairness

-----------------------------------------------------------------------------
(* Properties. *)

\* Every variable keeps its shape, and the channels their capacity.
TypeOK ==
  /\ peer.sent \in 0 .. MaxIn /\ peer.state \in {"open", "eof", "reset"}
  /\ reader.pc \in {"none", "select", "decode", "send", "done"}
  /\ reader.hand \in 0 .. MaxIn
  /\ Len(data) <= ChannelCapacity
  /\ writer \in [pc : {"none", "select", "write", "done"}, hand : 0 .. MaxOut]
  /\ Len(out) <= ChannelCapacity /\ sent \in 0 .. MaxOut
  /\ wire.torn \in BOOLEAN /\ wire.unread \in 0 .. SendBuffer
  /\ halves \in [read : {"none", "held", "closing", "dropped"},
                 writers : 0 .. MaxWriters]
  /\ tunnel \in {"none", "publishing", "waiting", "owned", "dropping"}
  /\ publisher \in [kind : {"accept", "punch"},
                    pc : {"select", "split", "initial", "publish", "done"}]
  /\ accept \in Seq({"this", "other"}) /\ Len(accept) <= AcceptCapacity
  /\ incoming \in {"open", "signalled", "closed"}
  /\ hears \in [{"reader", "writer"} -> BOOLEAN]

Upto(n) == [i \in 1 .. n |-> i]

\* The frames in a run of whole frames.
Frames(units) == [i \in 1 .. Len(units) \div 2 |-> units[2 * i][1]]

\* What the read half returned, is about to return, or the task holds for it.
Inbound ==
  app.got \o data
    \o IF reader.pc = "send" /\ halves.read = "held" THEN <<reader.hand>> ELSE <<>>

\* Whatever pieces the stream arrives in, and however long the channel stays
\* full, the read half gets the peer's frames in order, none lost, repeated or
\* split; while the read task runs everything else is still to come.
InOrder ==
  /\ Inbound = Upto(Len(Inbound))
  /\ reader.pc # "done" /\ halves.read \in {"none", "held"}
       => Inbound \o Frames(reader.buf \o peer.net) = Upto(peer.sent)

\* recv returns None after an orderly close only when every frame of the peer
\* has been returned: the end of the stream does not overtake the channel.
EndMeansAll ==
  /\ app.ended /\ peer.state = "eof" /\ ~Signalled("reader")
  /\ TooLargeIn \cap 1 .. peer.sent = {}
  => app.got = Upto(peer.sent)

\* As long as the connection is not broken, a write task that has ended has
\* not left half a frame behind for the peer to wait for.
WholeFrames ==
  writer.pc = "done" /\ peer.state # "reset" => ~wire.torn

\* Frames reach the wire in the order the write halves accepted them, and a
\* write task that ends because every half is gone has first written all.
Flushed ==
  /\ wire.frames = Upto(Len(wire.frames))
  /\ (/\ writer.pc = "done" /\ peer.state # "reset" /\ ~Signalled("writer")
      /\ TooLargeOut \cap 1 .. sent = {})
       => halves.writers = 0 /\ wire.frames = Upto(sent)

\* The peer has not read and the write task waits for it.
Stalled == writer.pc = "write" /\ wire.unread = SendBuffer

\* "Dropping a TCP tunnel stops both I/O tasks" (rustp2p-core/DESIGN.md:69),
\* in whatever order its halves go and wherever the tasks are, unless the peer
\* stops reading for good.
DropEndsTasks ==
  []<>~Stalled =>
    (halves.read = "dropped" /\ halves.writers = 0
       ~> reader.pc = "done" /\ writer.pc = "done")

\* A tunnel that nobody will ever take from the accept queue is not kept: once
\* TunnelIncoming is dropped the publishing task ends, also when it waited for
\* room, and the tunnel it held is dropped.
PublisherEnds ==
  incoming # "open" ~> /\ publisher.pc = "done"
                       /\ tunnel \in {"none", "owned", "dropping"}

\* "Global shutdown - kills ALL tasks (main + sub)" (pool.rs).
ShutdownKillsAll ==
  /\ Signalled("reader") ~> reader.pc = "done"
  /\ Signalled("writer") ~> writer.pc = "done"
=============================================================================
