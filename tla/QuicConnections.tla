--------------------------- MODULE QuicConnections ---------------------------
(***************************************************************************)
(* QuicEndpoint of rustp2p-quic/src/quic.rs: the cached connections, one   *)
(* per peer (connections) and one per peer and route (via_connections),    *)
(* over the synthetic addresses of VirtualPeers.  Callers of send_to,      *)
(* open_bi and their per-route forms, the transport loop that feeds        *)
(* inbound packets to quinn, the accept loop and the readers that clean up *)
(* after a connection interleave at every map operation and every await.   *)
(* quinn is external: a handshake ends well only while its address is      *)
(* mapped, and a connection may close at any time.                         *)
(***************************************************************************)
EXTENDS VirtualPeers, Integers

CONSTANTS
  Via,       \* the targets that are a peer and a route key
  Caller,    \* tasks in send_to, open_bi, ...
  Loop,      \* start_transport_loop
  Reader,    \* the readers that clean up
  MaxConns   \* bound: connections ever made

ASSUME QuicConstants ==
  /\ Via \subseteq Target
  /\ Task = Caller \cup {Loop} \cup Reader
  /\ Loop \notin Caller \cup Reader /\ Caller \cap Reader = {}
  /\ MaxConns \in Nat

VARIABLES
  call,   \* caller -> where it is in connection_to or connection_to_via
  conns,  \* the connections, in the order they were made
  cache   \* target -> its cached connection, 0 if none

quicVars == <<virtualByAddr, virtualByPeer, task, call, conns, cache>>

ConnId == 1 .. MaxConns

\* status: "handshake" if a caller makes it, "incoming" until the accept loop has
\* it, "refused" if that failed.  reaches: where its packets went during the
\* handshake.  readers: how many of its two reader tasks still run; peer: what
\* they will clean up.
Conn == [status : {"unused", "handshake", "incoming", "refused", "live", "closed"},
         addr : Addr \cup {None}, reaches : Target \cup {None}, readers : 0 .. 2,
         peer : Target \cup {None}]

NoConn == [status |-> "unused", addr |-> None, reaches |-> None, readers |-> 0,
           peer |-> None]

CallState == [pc : {"idle", "cache", "registering", "handshake", "insert", "start",
                    "failed", "returned"},
              target : Target \cup {None}, addr : Addr \cup {None}, conn : 0 .. MaxConns]

Calling(pc, t, a, i) == [pc |-> pc, target |-> t, addr |-> a, conn |-> i]

NotCalling == Calling("idle", None, None, 0)

Live(t) == cache[t] # 0 /\ conns[cache[t]].status = "live"

At(c, pc) == call[c].pc = pc

Goto(c, pc) == call' = [call EXCEPT ![c].pc = pc]

\* Addresses that nobody remembers.
Fresh ==
  Addr \ ({conns[i].addr : i \in ConnId} \cup {call[c].addr : c \in Caller})

\* The next connection is conn.
NewConn(i, conn) ==
  /\ conns[i].status = "unused"
  /\ \A j \in 1 .. i - 1 : conns[j].status # "unused"
  /\ conns' = [conns EXCEPT ![i] = conn]

-----------------------------------------------------------------------------
(* connection_to and connection_to_via. *)

\* connection_to refuses a peer that is not reachable and registers it
\* otherwise; connection_to_via looks for a cached connection first.
CallStart(c, t) ==
  /\ At(c, "idle")
  /\ task[c].pc = "idle"
  /\ \/ /\ t \in Via
        /\ call' = [call EXCEPT ![c] = Calling("cache", t, None, 0)]
        /\ UNCHANGED socketVars
     \/ /\ t \notin Via
        /\ call' = [call EXCEPT ![c] = Calling("returned", t, None, 0)]
        /\ UNCHANGED socketVars
     \/ /\ t \notin Via
        /\ call' = [call EXCEPT ![c] = Calling("registering", t, None, 0)]
        /\ Register(c, t)
  /\ UNCHANGED <<conns, cache>>

\* A live cached connection is returned.
CallCached(c) ==
  /\ At(c, "cache")
  /\ Live(call[c].target)
  /\ call' = [call EXCEPT ![c] = Calling("returned", @.target, None, 0)]
  /\ UNCHANGED <<virtualByAddr, virtualByPeer, task, conns, cache>>

CallRegister(c) ==
  /\ At(c, "cache")
  /\ call[c].target \in Via
  /\ ~Live(call[c].target)
  /\ Register(c, call[c].target)
  /\ Goto(c, "registering")
  /\ UNCHANGED <<conns, cache>>

\* connect_quic_addr starts a handshake with address a.
Connect(c, a) ==
  \E i \in ConnId :
    /\ NewConn(i, [NoConn EXCEPT !.status = "handshake", !.addr = a])
    /\ call' = [call EXCEPT ![c] = Calling("handshake", @.target, None, i)]

CallConnect(c) ==
  /\ At(c, "cache")
  /\ call[c].target \notin Via
  /\ ~Live(call[c].target)
  /\ Connect(c, call[c].addr)
  /\ UNCHANGED <<virtualByAddr, virtualByPeer, task, cache>>

CallRegistered(c) ==
  /\ At(c, "registering")
  /\ Return(c)
  /\ \/ /\ call[c].target \in Via
        /\ Connect(c, task[c].addr)
     \/ /\ call[c].target \notin Via
        /\ call' = [call EXCEPT ![c].pc = "cache", ![c].addr = task[c].addr]
        /\ UNCHANGED conns
  /\ UNCHANGED cache

\* The handshake ends, and the connection is still open 50 ms later.
Connected(c) ==
  LET i == call[c].conn
  IN  /\ At(c, "handshake")
      /\ virtualByAddr[conns[i].addr] # None
      /\ conns' = [conns EXCEPT ![i].status = "live",
                                ![i].reaches = virtualByAddr[conns[i].addr]]
      /\ Goto(c, "insert")
      /\ UNCHANGED <<virtualByAddr, virtualByPeer, task, cache>>

\* It fails, times out after 10 s, or the connection closes at once.
ConnectFails(c) ==
  /\ At(c, "handshake")
  /\ conns' = [conns EXCEPT ![call[c].conn] = [NoConn EXCEPT !.status = "closed"]]
  /\ Goto(c, "failed")
  /\ UNCHANGED <<virtualByAddr, virtualByPeer, task, cache>>

Insert(c) ==
  /\ At(c, "insert")
  /\ cache' = [cache EXCEPT ![call[c].target] = call[c].conn]
  /\ Goto(c, "start")
  /\ UNCHANGED <<virtualByAddr, virtualByPeer, task, conns>>

\* start_connection_tasks: the readers clean up for the peer the address has now.
Started(conn, owner) == [conn EXCEPT !.readers = 2, !.peer = owner]

StartConnectionTasks(c) ==
  /\ At(c, "start")
  /\ conns' = [conns EXCEPT ![call[c].conn] = Started(@, virtualByAddr[@.addr])]
  /\ call' = [call EXCEPT ![c] = Calling("returned", @.target, None, 0)]
  /\ UNCHANGED <<virtualByAddr, virtualByPeer, task, cache>>

\* remove_if(closed).
RemoveIfClosed(t) == cache' = IF Live(t) THEN cache ELSE [cache EXCEPT ![t] = 0]

ReleaseIf(c, t, release) == IF release THEN Release(c, t) ELSE UNCHANGED socketVars

\* After a failed handshake a peer's address is released unless a live
\* connection is cached; a route's is released in any case.
CallFailed(c) ==
  LET t == call[c].target
  IN  /\ At(c, "failed")
      /\ IF t \in Via THEN RemoveIfClosed(t) ELSE UNCHANGED cache
      /\ ReleaseIf(c, t, t \in Via \/ ~Live(t))
      /\ call' = [call EXCEPT ![c] = Calling("returned", t, None, 0)]
      /\ UNCHANGED conns

\* send_to, or open_bi with a stream, with or without a connection.
CallReturns(c) ==
  /\ At(c, "returned")
  /\ task[c].pc = "idle"
  /\ call' = [call EXCEPT ![c] = NotCalling]
  /\ UNCHANGED <<virtualByAddr, virtualByPeer, task, conns, cache>>

\* open_bi and open_bi_via: there is no connection, or no stream could be opened
\* on it.  A closed cached connection is dropped and the address released: a
\* peer's only if one was dropped.
OpenFails(c) ==
  LET t == call[c].target
  IN  /\ At(c, "returned")
      /\ task[c].pc = "idle"
      /\ RemoveIfClosed(t)
      /\ ReleaseIf(c, t, t \in Via \/ (cache[t] # 0 /\ ~Live(t)))
      /\ call' = [call EXCEPT ![c] = NotCalling]
      /\ UNCHANGED conns

-----------------------------------------------------------------------------
(* The loops and the end of a connection. *)

\* start_transport_loop registers the source of an inbound packet.
LoopRegister(t) ==
  /\ t \notin Via
  /\ Register(Loop, t)
  /\ UNCHANGED <<call, conns, cache>>

\* The packet may be the first of an incoming connection.
LoopInject ==
  /\ Return(Loop)
  /\ \/ UNCHANGED conns
     \/ \E i \in ConnId :
          NewConn(i, [NoConn EXCEPT !.status = "incoming", !.addr = task[Loop].addr,
                                    !.reaches = task[Loop].target])
  /\ UNCHANGED <<call, cache>>

\* start_accept_loop waits for one incoming connection after the other, and
\* ends when one fails.
Accepting(i) ==
  /\ conns[i].status = "incoming"
  /\ \A j \in ConnId : conns[j].status # "refused"
  /\ \A j \in 1 .. i - 1 : conns[j].status # "incoming"

\* An incoming connection is not cached.
Accept(i) ==
  /\ Accepting(i)
  /\ conns' = [conns EXCEPT ![i] = Started([@ EXCEPT !.status = "live"],
                                           virtualByAddr[@.addr])]
  /\ UNCHANGED <<virtualByAddr, virtualByPeer, task, call, cache>>

AcceptFails(i) ==
  /\ Accepting(i)
  /\ conns' = [conns EXCEPT ![i] = [NoConn EXCEPT !.status = "refused"]]
  /\ UNCHANGED <<virtualByAddr, virtualByPeer, task, call, cache>>

\* An idle timeout, the peer's close, or the own close of the endpoint.
Close(i) ==
  /\ conns[i].status = "live"
  /\ conns' = [conns EXCEPT ![i].status = "closed"]
  /\ UNCHANGED <<virtualByAddr, virtualByPeer, task, call, cache>>

\* Mutant of IsCached: a newer connection is dropped, too.
IsCachedAny(t, i) == t # None

\* Does the cache still hold this connection?
IsCached(t, i) == t # None /\ cache[t] = i

\* cleanup_connection and cleanup_via_connection, by a reader r of connection i
\* that ends: the cached connection goes if it is this one, and the address of
\* its peer is released.
ReaderEnds(i, r) ==
  LET t == conns[i].peer
  IN  /\ conns[i].status = "closed" /\ conns[i].readers > 0
      /\ task[r].pc = "idle"
      /\ conns' = [conns EXCEPT ![i].readers = @ - 1]
      /\ IF IsCached(t, i)
         THEN cache' = [cache EXCEPT ![t] = 0] /\ Release(r, t)
         ELSE UNCHANGED <<cache, socketVars>>
      /\ UNCHANGED call

-----------------------------------------------------------------------------

QuicInit ==
  /\ SocketInit
  /\ call = [c \in Caller |-> NotCalling]
  /\ conns = [i \in ConnId |-> NoConn]
  /\ cache = [t \in Target |-> 0]

QuicNext ==
  \/ \E k \in Task : SocketStep(k, Fresh) /\ UNCHANGED <<call, conns, cache>>
  \/ \E c \in Caller :
       \/ CallCached(c) \/ CallRegister(c) \/ CallRegistered(c) \/ CallConnect(c)
       \/ Connected(c) \/ ConnectFails(c) \/ Insert(c) \/ StartConnectionTasks(c)
       \/ CallFailed(c) \/ CallReturns(c) \/ OpenFails(c)
       \/ \E t \in Target : CallStart(c, t)
  \/ \E t \in Target : LoopRegister(t)
  \/ LoopInject
  \/ \E i \in ConnId :
       \/ Accept(i) \/ AcceptFails(i) \/ Close(i)
       \/ \E r \in Reader : ReaderEnds(i, r)

QuicSpec == QuicInit /\ [][QuicNext]_quicVars

-----------------------------------------------------------------------------
(* Properties. *)

\* Maps, calls and connections hold values of their types (a part of QuicInv).
TypeOK ==
  /\ SocketTypeOK
  /\ call \in [Caller -> CallState]
  /\ conns \in [ConnId -> Conn]
  /\ cache \in [Target -> 0 .. MaxConns]

\* The connection cached for a peer, or for a peer and a route, is one whose
\* packets went there: no interleaving of register and release hands a caller
\* a connection to somebody else (connection_to_at, connection_to_via).
CachedReaches == \A t \in Target : cache[t] # 0 => conns[cache[t]].reaches = t

\* A live cached connection leaves the cache only for a newer one: "A newer
\* connection may have already replaced it" (cleanup_connection).
LiveStaysCached ==
  [][\A t \in Target : Live(t) => cache'[t] >= 1]_quicVars
=============================================================================
