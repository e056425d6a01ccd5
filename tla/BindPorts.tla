----------------------------- MODULE BindPorts -----------------------------
(***************************************************************************)
(* TunnelIncoming::bind of rustp2p-core/src/endpoint/service.rs: the main  *)
(* UDP sockets and the TCP listeners of both address families, bound one   *)
(* after the other while other processes take and give back ports.  The    *)
(* operating system's answer to each attempt is a choice: the port, "in    *)
(* use", or another error (no IPv6, no permission).                        *)
(***************************************************************************)
EXTENDS Integers

CONSTANTS
  Port,         \* the ports there are, without 0
  Configs,      \* the configurations
  PairAttempts  \* how often a pair of ports is tried (20 in the code)

ASSUME BindConstants ==
  /\ Port \subseteq Nat \ {0}
  /\ Configs \subseteq [udp : Port \cup {0}, tcpOn : BOOLEAN, tcp : Port \cup {0},
                        ipv6 : BOOLEAN, explicit6 : BOOLEAN]
  /\ PairAttempts \in Nat \ {0}

VARIABLE
  bind  \* where bind is, its sockets (0: none), and the pairs of ports it has
        \* tried: udpTries that failed, tcpTries with the current one

Conflict == 0   \* the port is in use
Failure  == -1  \* any other error

\* What binding to a port may give; port 0 leaves the choice to the system,
\* which does not choose a port in busy.
Outcome(port, busy) ==
  (IF port = 0 THEN Port \ busy ELSE {port}) \cup {Conflict, Failure}

Ok(o) == o > 0

BindPC ==
  {"udp4", "udp6", "udp6First", "udpPair", "udpRebind", "udp4Any", "tcp4", "tcp4Any",
   "tcp6", "pair4", "pair6", "bound", "failed", "moved"}

Binding(pc, c) ==
  [pc |-> pc, config |-> c, udp4 |-> 0, udp6 |-> 0, tcp4 |-> 0, tcp6 |-> 0,
   udpTries |-> 0, tcpTries |-> 0]

\* An error: what was bound is dropped.
Fails == Binding("failed", bind.config)

\* With the UDP sockets bound, bind_tcp is next if TCP is wanted.
UdpBound(b) == [b EXCEPT !.pc = IF b.config.tcpOn THEN "tcp4" ELSE "bound"]

-----------------------------------------------------------------------------
(* bind_main_udp. *)

BindUdp4 ==
  /\ bind.pc = "udp4"
  /\ \E o \in Outcome(bind.config.udp, {}) :
       bind' = IF ~Ok(o) THEN Fails
               ELSE IF bind.config.ipv6 THEN [bind EXCEPT !.udp4 = o, !.pc = "udp6"]
               ELSE UdpBound([bind EXCEPT !.udp4 = o])

\* bind_v6_same_port.
BindUdp6 ==
  /\ bind.pc = "udp6"
  /\ \E o \in Outcome(bind.udp4, {}) :
       bind' = IF Ok(o) THEN UdpBound([bind EXCEPT !.udp6 = o])
               ELSE IF bind.config.explicit6 THEN Fails
               ELSE UdpBound(bind)

\* Port 0: IPv6 first, on a port of the system's choice.
BindUdp6First ==
  /\ bind.pc = "udp6First"
  /\ \E o \in Outcome(0, {}) :
       bind' = IF Ok(o) THEN [bind EXCEPT !.udp6 = o, !.pc = "udpPair"]
               ELSE IF bind.config.explicit6 THEN Fails
               ELSE [bind EXCEPT !.pc = "udp4Any"]

BindUdpPair ==
  /\ bind.pc = "udpPair"
  /\ \/ /\ bind.udpTries < PairAttempts
        /\ \E o \in Outcome(bind.udp6, {}) :
             bind' = IF Ok(o) THEN UdpBound([bind EXCEPT !.udp4 = o])
                     ELSE [bind EXCEPT !.pc = "udpRebind"]
     \/ /\ bind.udpTries = PairAttempts
        /\ bind' = [bind EXCEPT !.pc = "udp4Any"]

\* The old IPv6 socket is still open while the new one is bound.
RebindUdp6 ==
  /\ bind.pc = "udpRebind"
  /\ \E o \in Outcome(0, {bind.udp6}) :
       bind' = IF Ok(o)
               THEN [bind EXCEPT !.udp6 = o, !.udpTries = @ + 1, !.pc = "udpPair"]
               ELSE Fails

BindUdp4Any ==
  /\ bind.pc = "udp4Any"
  /\ \E o \in Outcome(0, {}) :
       bind' = IF Ok(o) THEN UdpBound([bind EXCEPT !.udp4 = o]) ELSE Fails

-----------------------------------------------------------------------------
(* bind_tcp_with. *)

\* Port 0 prefers the port of the UDP socket.
PreferredPort == IF bind.config.tcp = 0 THEN bind.udp4 ELSE bind.config.tcp

\* Mutant of TcpFallsBack: so does a configured one.
TcpFallsBackAlways(o) == o = Conflict

\* May another port be used instead?  A configured one is never replaced.
TcpFallsBack(o) == bind.config.tcp = 0 /\ o = Conflict

Tcp4Bound(o) ==
  [bind EXCEPT !.tcp4 = o, !.pc = IF bind.config.ipv6 THEN "tcp6" ELSE "bound"]

BindTcp4 ==
  /\ bind.pc = "tcp4"
  /\ \E o \in Outcome(PreferredPort, {}) :
       bind' = IF Ok(o) THEN Tcp4Bound(o)
               ELSE IF TcpFallsBack(o) THEN [bind EXCEPT !.pc = "tcp4Any"]
               ELSE Fails

BindTcp4Any ==
  /\ bind.pc = "tcp4Any"
  /\ \E o \in Outcome(0, {}) : bind' = IF Ok(o) THEN Tcp4Bound(o) ELSE Fails

TcpBound(o) == [bind EXCEPT !.tcp6 = IF Ok(o) THEN o ELSE 0, !.pc = "bound"]

\* IPv6 on the port of IPv4; when that is in use and none was configured,
\* IPv4 is given up and pairs of a new port are tried.
BindTcp6 ==
  /\ bind.pc = "tcp6"
  /\ \E o \in Outcome(bind.tcp4, {}) :
       bind' = IF Ok(o) THEN TcpBound(o)
               ELSE IF TcpFallsBack(o)
               THEN [bind EXCEPT !.tcp4 = 0, !.pc = "pair4", !.tcpTries = 1]
               ELSE IF bind.config.explicit6 THEN Fails
               ELSE TcpBound(o)

BindPair4 ==
  /\ bind.pc = "pair4"
  /\ \E o \in Outcome(0, {}) :
       bind' = IF Ok(o) THEN [bind EXCEPT !.tcp4 = o, !.pc = "pair6"] ELSE Fails

BindPair6 ==
  /\ bind.pc = "pair6"
  /\ \E o \in Outcome(bind.tcp4, {}) :
       bind' = IF Ok(o) THEN TcpBound(o)
               ELSE IF o = Conflict /\ bind.tcpTries < PairAttempts
               THEN [bind EXCEPT !.tcp4 = 0, !.pc = "pair4", !.tcpTries = @ + 1]
               ELSE IF bind.config.explicit6 THEN Fails
               ELSE TcpBound(o)

-----------------------------------------------------------------------------
BindInit ==
  \E c \in Configs :
    bind = Binding(IF c.ipv6 /\ c.udp = 0 THEN "udp6First" ELSE "udp4", c)

BindNext ==
  \/ BindUdp4 \/ BindUdp6 \/ BindUdp6First \/ BindUdpPair \/ RebindUdp6 \/ BindUdp4Any
  \/ BindTcp4 \/ BindTcp4Any \/ BindTcp6 \/ BindPair4 \/ BindPair6

BindTypeOK ==
  bind \in [pc : BindPC, config : Configs, udp4 : Port \cup {0}, udp6 : Port \cup {0},
            tcp4 : Port \cup {0}, tcp6 : Port \cup {0},
            udpTries : 0 .. PairAttempts, tcpTries : 0 .. PairAttempts]

-----------------------------------------------------------------------------
\* What bind returns is what was asked for, whatever ports other processes
\* hold at each attempt.  A configured port is never replaced by another.  The
\* TCP listeners share a port ("TCP must use a shared port across address
\* families").  So do the UDP sockets, except where bind_main_udp gives it up:
\* the system chose the port and every pairing failed.  IPv6 is absent if it
\* was disabled, and there if an IPv6 address was configured, as the comment in
\* bind_tcp_with has it ("An explicit IPv6 bind reports pairing failure"); the
\* comments on bind_main_udp and Config, which know silent downgrades only,
\* leave that case out.
BoundAsAsked ==
  LET c == bind.config
  IN  bind.pc = "bound" =>
        /\ bind.udp4 # 0
        /\ c.udp # 0 => bind.udp4 = c.udp
        /\ \/ bind.udp6 \in {0, bind.udp4}
           \/ c.udp = 0 /\ bind.udpTries = PairAttempts
        /\ c.tcpOn <=> bind.tcp4 # 0
        /\ c.tcpOn /\ c.tcp # 0 => bind.tcp4 = c.tcp
        /\ bind.tcp6 \in {0, bind.tcp4}
        /\ c.ipv6 /\ c.explicit6 => bind.udp6 # 0 /\ (c.tcpOn => bind.tcp6 # 0)
        /\ ~c.ipv6 => bind.udp6 = 0 /\ bind.tcp6 = 0
=============================================================================
