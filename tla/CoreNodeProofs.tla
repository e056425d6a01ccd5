--------------------------- MODULE CoreNodeProofs ---------------------------
(***************************************************************************)
(* What bind returns and which assistant sockets a node has, for every     *)
(* set of ports, configuration, number of attempts and number of tasks     *)
(* that apply a NAT model; that a scan skips no port, for every number of  *)
(* ports, of addresses and of punch tasks; what a NAT test reports, for    *)
(* every list of STUN servers; and the types of all of it.                 *)
(***************************************************************************)
EXTENDS CoreNode, FiniteSetTheorems, WellFoundedInduction, TLAPS

-----------------------------------------------------------------------------
(* bind. *)

\* The main UDP sockets are as configured.
UdpAsAsked(b) ==
  /\ b.udp4 # 0
  /\ b.config.udp # 0 => b.udp4 = b.config.udp
  /\ b.udp6 \in {0, b.udp4} \/ (b.config.udp = 0 /\ b.udpTries = PairAttempts)
  /\ b.config.ipv6 /\ b.config.explicit6 => b.udp6 # 0
  /\ ~b.config.ipv6 => b.udp6 = 0

\* What bind has done when it is at each of its steps.
UdpSteps(b) ==
  /\ b.pc \in {"udp4", "udp6First"} => b.udp6 = 0
  /\ b.pc \in {"udp4", "udp6First", "udpPair", "udpRebind", "udp4Any"} => b.udp4 = 0
  /\ b.pc = "udp4" /\ b.config.ipv6 => b.config.udp # 0
  /\ b.pc = "udp6" => b.udp6 = 0 /\ b.config.ipv6 /\ b.udp4 # 0 /\ b.udp4 = b.config.udp
  /\ b.pc \in {"udp6First", "udpPair", "udpRebind", "udp4Any"} =>
       b.config.ipv6 /\ b.config.udp = 0
  /\ b.pc \in {"udpPair", "udpRebind"} => b.udp6 # 0
  /\ b.pc = "udpRebind" => b.udpTries < PairAttempts
  /\ b.pc = "udp4Any" /\ b.config.explicit6 => b.udp6 # 0
  /\ b.pc = "udp4Any" /\ b.udp6 # 0 => b.udpTries = PairAttempts
  /\ b.pc \in {"udp4", "udp6", "udp6First", "udpPair", "udpRebind", "udp4Any"} =>
       b.tcp4 = 0 /\ b.tcp6 = 0

TcpSteps(b) ==
  /\ b.pc \in {"tcp4", "tcp4Any", "tcp6", "pair4", "pair6"} =>
       UdpAsAsked(b) /\ b.config.tcpOn /\ b.tcp6 = 0
  /\ b.pc \in {"tcp4Any", "pair4", "pair6"} => b.config.tcp = 0
  /\ b.pc \in {"tcp6", "pair4", "pair6"} => b.config.ipv6
  /\ b.pc \in {"tcp6", "pair6"} => b.tcp4 # 0
  /\ b.pc = "tcp6" /\ b.config.tcp # 0 => b.tcp4 = b.config.tcp

BindInv == BindTypeOK /\ UdpSteps(bind) /\ TcpSteps(bind) /\ BoundAsAsked

LEMMA BindStarts == BindInit => BindInv
<1> SUFFICES ASSUME BindInit PROVE BindInv
    OBVIOUS
<1>1. PICK c \in Configs :
        bind = Binding(IF c.ipv6 /\ c.udp = 0 THEN "udp6First" ELSE "udp4", c)
      BY DEF BindInit
<1> DEFINE pc == IF c.ipv6 /\ c.udp = 0 THEN "udp6First" ELSE "udp4"
<1>2. pc \in {"udp4", "udp6First"} /\ (pc = "udp4" /\ c.ipv6 => c.udp # 0)
        /\ (pc = "udp6First" => c.ipv6 /\ c.udp = 0)
      OBVIOUS
<1>3. /\ bind = [pc |-> pc, config |-> c, udp4 |-> 0, udp6 |-> 0, tcp4 |-> 0, tcp6 |-> 0,
                 udpTries |-> 0, tcpTries |-> 0]
      /\ 0 \in 0 .. PairAttempts
      BY <1>1, BindConstants DEF Binding
<1> HIDE DEF pc
<1>4. BindTypeOK
      BY <1>2, <1>3 DEF BindTypeOK, BindPC
<1> QED
    BY <1>2, <1>3, <1>4 DEF BindInv, UdpSteps, TcpSteps, BoundAsAsked

\* A step of bind: its outcome is a port or an error, never anything else.
LEMMA OutcomeTypes ==
  ASSUME NEW port \in Port \cup {0}, NEW busy, NEW o \in Outcome(port, busy)
  PROVE  /\ Ok(o) => o \in Port /\ o # 0 /\ (port # 0 => o = port)
         /\ ~Ok(o) => o \in {Conflict, Failure}
BY BindConstants DEF Outcome, Ok, Conflict, Failure

\* The end of the UDP part.
LEMMA UdpBoundKeeps ==
  ASSUME NEW b \in [pc : BindPC, config : Configs, udp4 : Port \cup {0}, udp6 : Port \cup {0},
                    tcp4 : Port \cup {0}, tcp6 : Port \cup {0},
                    udpTries : 0 .. PairAttempts, tcpTries : 0 .. PairAttempts],
         UdpAsAsked(b), b.tcp4 = 0, b.tcp6 = 0, bind' = UdpBound(b)
  PROVE  BindInv'
<1> DEFINE pc == IF b.config.tcpOn THEN "tcp4" ELSE "bound"
<1>1. /\ bind' = [b EXCEPT !.pc = pc]
      /\ b.config \in [udp : Port \cup {0}, tcpOn : BOOLEAN, tcp : Port \cup {0},
                       ipv6 : BOOLEAN, explicit6 : BOOLEAN]
      BY BindConstants DEF UdpBound
<1>2. pc \in {"tcp4", "bound"} /\ (pc = "tcp4" <=> b.config.tcpOn)
      OBVIOUS
<1> HIDE DEF pc
<1>3. /\ bind'.pc = pc /\ bind'.config = b.config
      /\ bind'.udp4 = b.udp4 /\ bind'.udp6 = b.udp6 /\ bind'.tcp4 = 0 /\ bind'.tcp6 = 0
      /\ bind'.udpTries = b.udpTries
      BY <1>1
<1>4. BindTypeOK'
      BY <1>1, <1>2 DEF BindTypeOK, BindPC
<1>5. UdpAsAsked(bind)'
      BY <1>3 DEF UdpAsAsked
<1>6. UdpSteps(bind)' /\ TcpSteps(bind)'
      BY <1>2, <1>3, <1>5 DEF UdpSteps, TcpSteps
<1>7. BoundAsAsked'
      BY <1>2, <1>3, <1>5 DEF BoundAsAsked, UdpAsAsked
<1> QED
    BY <1>4, <1>6, <1>7 DEF BindInv

\* An error.
LEMMA FailsKeeps ==
  ASSUME BindInv, bind' = Fails
  PROVE  BindInv'
<1>1. /\ bind' = [pc |-> "failed", config |-> bind.config, udp4 |-> 0, udp6 |-> 0,
                  tcp4 |-> 0, tcp6 |-> 0, udpTries |-> 0, tcpTries |-> 0]
      /\ 0 \in 0 .. PairAttempts
      BY BindConstants DEF Fails, Binding
<1>2. BindTypeOK'
      BY <1>1 DEF BindInv, BindTypeOK, BindPC
<1> QED
    BY <1>1, <1>2 DEF BindInv, UdpSteps, TcpSteps, BoundAsAsked

\* The steps of bind_main_udp.
LEMMA UdpKeeps ==
  ASSUME BindInv,
         BindUdp4 \/ BindUdp6 \/ BindUdp6First \/ BindUdpPair \/ RebindUdp6 \/ BindUdp4Any
  PROVE  BindInv'
<1> DEFINE R == [pc : BindPC, config : Configs, udp4 : Port \cup {0}, udp6 : Port \cup {0},
                 tcp4 : Port \cup {0}, tcp6 : Port \cup {0},
                 udpTries : 0 .. PairAttempts, tcpTries : 0 .. PairAttempts]
           C == [udp : Port \cup {0}, tcpOn : BOOLEAN, tcp : Port \cup {0},
                 ipv6 : BOOLEAN, explicit6 : BOOLEAN]
<1>1. /\ bind \in R /\ bind.config \in C /\ UdpSteps(bind) /\ 0 \in Port \cup {0}
      /\ bind.config.udp \in Port \cup {0} /\ bind.udp4 \in Port \cup {0}
      /\ bind.udp6 \in Port \cup {0} /\ bind.udpTries \in 0 .. PairAttempts
      /\ Port \subseteq Nat \ {0} /\ PairAttempts \in Nat \ {0}
      BY BindConstants DEF BindInv, BindTypeOK
<1>2. CASE BindUdp4
  <2>1. /\ bind.udp6 = 0 /\ bind.tcp4 = 0 /\ bind.tcp6 = 0
        /\ bind.config.ipv6 => bind.config.udp # 0
        BY <1>1, <1>2 DEF UdpSteps, BindUdp4
  <2>2. PICK o \in Outcome(bind.config.udp, {}) :
          bind' = IF ~Ok(o) THEN Fails
                  ELSE IF bind.config.ipv6 THEN [bind EXCEPT !.udp4 = o, !.pc = "udp6"]
                  ELSE UdpBound([bind EXCEPT !.udp4 = o])
        BY <1>2 DEF BindUdp4
  <2>3. Ok(o) => o \in Port /\ o # 0 /\ (bind.config.udp # 0 => o = bind.config.udp)
        BY <1>1, OutcomeTypes
  <2>4. CASE ~Ok(o)
        BY <2>2, <2>4, FailsKeeps
  <2>5. CASE Ok(o) /\ bind.config.ipv6
    <3>1. bind' = [bind EXCEPT !.udp4 = o, !.pc = "udp6"]
          BY <2>2, <2>5
    <3>2. BindTypeOK'
          BY <1>1, <2>3, <2>5, <3>1 DEF BindTypeOK, BindPC
    <3>3. /\ bind'.pc = "udp6" /\ bind'.config = bind.config /\ bind'.udp4 = o
          /\ bind'.udp6 = 0 /\ bind'.tcp4 = 0 /\ bind'.tcp6 = 0
          BY <1>1, <2>1, <3>1
    <3> QED
        BY <2>1, <2>3, <2>5, <3>2, <3>3 DEF BindInv, UdpSteps, TcpSteps, BoundAsAsked
  <2>6. CASE Ok(o) /\ ~bind.config.ipv6
    <3> DEFINE b == [bind EXCEPT !.udp4 = o]
    <3>1. /\ b \in R /\ b.tcp4 = 0 /\ b.tcp6 = 0 /\ b.udp6 = 0 /\ b.udp4 = o
          /\ b.config = bind.config
          BY <1>1, <2>1, <2>3, <2>6
    <3>2. bind' = UdpBound(b)
          BY <2>2, <2>6
    <3> HIDE DEF b
    <3>3. UdpAsAsked(b)
          BY <2>3, <2>6, <3>1 DEF UdpAsAsked
    <3> QED
        BY <3>1, <3>2, <3>3, UdpBoundKeeps
  <2> QED
      BY <2>4, <2>5, <2>6
<1>3. CASE BindUdp6
  <2>1. /\ bind.udp6 = 0 /\ bind.tcp4 = 0 /\ bind.tcp6 = 0 /\ bind.config.ipv6
        /\ bind.udp4 # 0 /\ bind.udp4 = bind.config.udp
        BY <1>1, <1>3 DEF UdpSteps, BindUdp6
  <2>2. PICK o \in Outcome(bind.udp4, {}) :
          bind' = IF Ok(o) THEN UdpBound([bind EXCEPT !.udp6 = o])
                  ELSE IF bind.config.explicit6 THEN Fails
                  ELSE UdpBound(bind)
        BY <1>3 DEF BindUdp6
  <2>3. Ok(o) => o \in Port /\ o # 0 /\ o = bind.config.udp
        BY <1>1, <2>1, OutcomeTypes
  <2>4. CASE Ok(o)
    <3> DEFINE b == [bind EXCEPT !.udp6 = o]
    <3>1. /\ b \in R /\ b.tcp4 = 0 /\ b.tcp6 = 0 /\ b.udp6 = o /\ b.udp4 = bind.udp4
          /\ b.config = bind.config
          BY <1>1, <2>1, <2>3, <2>4
    <3>2. bind' = UdpBound(b)
          BY <2>2, <2>4
    <3> HIDE DEF b
    <3>3. UdpAsAsked(b)
          BY <2>1, <2>3, <2>4, <3>1 DEF UdpAsAsked
    <3> QED
        BY <3>1, <3>2, <3>3, UdpBoundKeeps
  <2>5. CASE ~Ok(o) /\ bind.config.explicit6
        BY <2>2, <2>5, FailsKeeps
  <2>6. CASE ~Ok(o) /\ ~bind.config.explicit6
    <3>1. UdpAsAsked(bind) /\ bind' = UdpBound(bind)
          BY <2>1, <2>2, <2>6 DEF UdpAsAsked
    <3> QED
        BY <1>1, <2>1, <3>1, UdpBoundKeeps
  <2> QED
      BY <2>4, <2>5, <2>6
<1>4. CASE BindUdp6First
  <2>1. /\ bind.udp6 = 0 /\ bind.udp4 = 0 /\ bind.tcp4 = 0 /\ bind.tcp6 = 0
        /\ bind.config.ipv6 /\ bind.config.udp = 0
        BY <1>1, <1>4 DEF UdpSteps, BindUdp6First
  <2>2. PICK o \in Outcome(0, {}) :
          bind' = IF Ok(o) THEN [bind EXCEPT !.udp6 = o, !.pc = "udpPair"]
                  ELSE IF bind.config.explicit6 THEN Fails
                  ELSE [bind EXCEPT !.pc = "udp4Any"]
        BY <1>4 DEF BindUdp6First
  <2>3. Ok(o) => o \in Port /\ o # 0
        BY <1>1, OutcomeTypes
  <2>4. CASE Ok(o)
    <3>1. bind' = [bind EXCEPT !.udp6 = o, !.pc = "udpPair"]
          BY <2>2, <2>4
    <3>2. BindTypeOK'
          BY <1>1, <2>3, <2>4, <3>1 DEF BindTypeOK, BindPC
    <3>3. /\ bind'.pc = "udpPair" /\ bind'.config = bind.config /\ bind'.udp4 = 0
          /\ bind'.udp6 = o /\ bind'.tcp4 = 0 /\ bind'.tcp6 = 0
          BY <1>1, <2>1, <3>1
    <3> QED
        BY <2>1, <2>3, <2>4, <3>2, <3>3 DEF BindInv, UdpSteps, TcpSteps, BoundAsAsked
  <2>5. CASE ~Ok(o) /\ bind.config.explicit6
        BY <2>2, <2>5, FailsKeeps
  <2>6. CASE ~Ok(o) /\ ~bind.config.explicit6
    <3>1. bind' = [bind EXCEPT !.pc = "udp4Any"]
          BY <2>2, <2>6
    <3>2. BindTypeOK'
          BY <1>1, <3>1 DEF BindTypeOK, BindPC
    <3>3. /\ bind'.pc = "udp4Any" /\ bind'.config = bind.config /\ bind'.udp4 = 0
          /\ bind'.udp6 = 0 /\ bind'.tcp4 = 0 /\ bind'.tcp6 = 0
          BY <1>1, <2>1, <3>1
    <3> QED
        BY <2>1, <2>6, <3>2, <3>3 DEF BindInv, UdpSteps, TcpSteps, BoundAsAsked
  <2> QED
      BY <2>4, <2>5, <2>6
<1>5. CASE BindUdpPair
  <2>1. /\ bind.udp6 # 0 /\ bind.udp4 = 0 /\ bind.tcp4 = 0 /\ bind.tcp6 = 0
        /\ bind.config.ipv6 /\ bind.config.udp = 0
        BY <1>1, <1>5 DEF UdpSteps, BindUdpPair
  <2>2. CASE /\ bind.udpTries < PairAttempts
             /\ \E o \in Outcome(bind.udp6, {}) :
                  bind' = IF Ok(o) THEN UdpBound([bind EXCEPT !.udp4 = o])
                          ELSE [bind EXCEPT !.pc = "udpRebind"]
    <3>1. PICK o \in Outcome(bind.udp6, {}) :
            bind' = IF Ok(o) THEN UdpBound([bind EXCEPT !.udp4 = o])
                    ELSE [bind EXCEPT !.pc = "udpRebind"]
          BY <2>2
    <3>2. Ok(o) => o \in Port /\ o # 0 /\ o = bind.udp6
          BY <1>1, <2>1, OutcomeTypes
    <3>3. CASE Ok(o)
      <4> DEFINE b == [bind EXCEPT !.udp4 = o]
      <4>1. /\ b \in R /\ b.tcp4 = 0 /\ b.tcp6 = 0 /\ b.udp6 = bind.udp6 /\ b.udp4 = o
            /\ b.config = bind.config
            BY <1>1, <2>1, <3>2, <3>3
      <4>2. bind' = UdpBound(b)
            BY <3>1, <3>3
      <4> HIDE DEF b
      <4>3. UdpAsAsked(b)
            BY <2>1, <3>2, <3>3, <4>1 DEF UdpAsAsked
      <4> QED
          BY <4>1, <4>2, <4>3, UdpBoundKeeps
    <3>4. CASE ~Ok(o)
      <4>1. bind' = [bind EXCEPT !.pc = "udpRebind"]
            BY <3>1, <3>4
      <4>2. BindTypeOK'
            BY <1>1, <4>1 DEF BindTypeOK, BindPC
      <4>3. /\ bind'.pc = "udpRebind" /\ bind'.config = bind.config /\ bind'.udp4 = 0
            /\ bind'.udp6 = bind.udp6 /\ bind'.tcp4 = 0 /\ bind'.tcp6 = 0
            /\ bind'.udpTries = bind.udpTries
            BY <1>1, <2>1, <4>1
      <4> QED
          BY <2>1, <2>2, <4>2, <4>3 DEF BindInv, UdpSteps, TcpSteps, BoundAsAsked
    <3> QED
        BY <3>3, <3>4
  <2>3. CASE bind.udpTries = PairAttempts /\ bind' = [bind EXCEPT !.pc = "udp4Any"]
    <3>1. BindTypeOK'
          BY <1>1, <2>3 DEF BindTypeOK, BindPC
    <3>2. /\ bind'.pc = "udp4Any" /\ bind'.config = bind.config /\ bind'.udp4 = 0
          /\ bind'.udp6 = bind.udp6 /\ bind'.tcp4 = 0 /\ bind'.tcp6 = 0
          /\ bind'.udpTries = PairAttempts
          BY <1>1, <2>1, <2>3
    <3> QED
        BY <2>1, <3>1, <3>2 DEF BindInv, UdpSteps, TcpSteps, BoundAsAsked
  <2> QED
      BY <1>5, <2>2, <2>3 DEF BindUdpPair
<1>6. CASE RebindUdp6
  <2>1. /\ bind.udp4 = 0 /\ bind.tcp4 = 0 /\ bind.tcp6 = 0 /\ bind.udpTries < PairAttempts
        /\ bind.config.ipv6 /\ bind.config.udp = 0
        BY <1>1, <1>6 DEF UdpSteps, RebindUdp6
  <2>2. PICK o \in Outcome(0, {bind.udp6}) :
          bind' = IF Ok(o)
                  THEN [bind EXCEPT !.udp6 = o, !.udpTries = @ + 1, !.pc = "udpPair"]
                  ELSE Fails
        BY <1>6 DEF RebindUdp6
  <2>3. Ok(o) => o \in Port /\ o # 0
        BY <1>1, OutcomeTypes
  <2>4. CASE Ok(o)
    <3>1. /\ bind' = [bind EXCEPT !.udp6 = o, !.udpTries = bind.udpTries + 1, !.pc = "udpPair"]
          /\ bind.udpTries + 1 \in 0 .. PairAttempts
          BY <1>1, <2>1, <2>2, <2>4
    <3>2. BindTypeOK'
          BY <1>1, <2>3, <2>4, <3>1 DEF BindTypeOK, BindPC
    <3>3. /\ bind'.pc = "udpPair" /\ bind'.config = bind.config /\ bind'.udp4 = 0
          /\ bind'.udp6 = o /\ bind'.tcp4 = 0 /\ bind'.tcp6 = 0
          BY <1>1, <2>1, <3>1
    <3> QED
        BY <2>1, <2>3, <2>4, <3>2, <3>3 DEF BindInv, UdpSteps, TcpSteps, BoundAsAsked
  <2>5. CASE ~Ok(o)
        BY <2>2, <2>5, FailsKeeps
  <2> QED
      BY <2>4, <2>5
<1>7. CASE BindUdp4Any
  <2>1. /\ bind.tcp4 = 0 /\ bind.tcp6 = 0 /\ bind.config.ipv6 /\ bind.config.udp = 0
        /\ bind.config.explicit6 => bind.udp6 # 0
        /\ bind.udp6 # 0 => bind.udpTries = PairAttempts
        BY <1>1, <1>7 DEF UdpSteps, BindUdp4Any
  <2>2. PICK o \in Outcome(0, {}) :
          bind' = IF Ok(o) THEN UdpBound([bind EXCEPT !.udp4 = o]) ELSE Fails
        BY <1>7 DEF BindUdp4Any
  <2>3. Ok(o) => o \in Port /\ o # 0
        BY <1>1, OutcomeTypes
  <2>4. CASE Ok(o)
    <3> DEFINE b == [bind EXCEPT !.udp4 = o]
    <3>1. /\ b \in R /\ b.tcp4 = 0 /\ b.tcp6 = 0 /\ b.udp6 = bind.udp6 /\ b.udp4 = o
          /\ b.config = bind.config /\ b.udpTries = bind.udpTries
          BY <1>1, <2>1, <2>3, <2>4
    <3>2. bind' = UdpBound(b)
          BY <2>2, <2>4
    <3> HIDE DEF b
    <3>3. UdpAsAsked(b)
          BY <2>1, <2>3, <2>4, <3>1 DEF UdpAsAsked
    <3> QED
        BY <3>1, <3>2, <3>3, UdpBoundKeeps
  <2>5. CASE ~Ok(o)
        BY <2>2, <2>5, FailsKeeps
  <2> QED
      BY <2>4, <2>5
<1> QED
    BY <1>2, <1>3, <1>4, <1>5, <1>6, <1>7

\* The IPv4 listener is there.
LEMMA Tcp4BoundKeeps ==
  ASSUME BindInv, UdpAsAsked(bind), bind.config.tcpOn, bind.tcp6 = 0,
         NEW o \in Port, o # 0, bind.config.tcp # 0 => o = bind.config.tcp,
         bind' = Tcp4Bound(o)
  PROVE  BindInv'
<1> DEFINE pc == IF bind.config.ipv6 THEN "tcp6" ELSE "bound"
<1>1. /\ bind' = [bind EXCEPT !.tcp4 = o, !.pc = pc]
      /\ pc \in {"tcp6", "bound"} /\ (pc = "tcp6" <=> bind.config.ipv6)
      BY DEF Tcp4Bound, BindInv, BindTypeOK
<1> HIDE DEF pc
<1>2. BindTypeOK'
      BY <1>1 DEF BindInv, BindTypeOK, BindPC
<1>3. /\ bind'.pc = pc /\ bind'.config = bind.config /\ bind'.tcp4 = o /\ bind'.tcp6 = 0
      /\ bind'.udp4 = bind.udp4 /\ bind'.udp6 = bind.udp6
      /\ bind'.udpTries = bind.udpTries
      BY <1>1 DEF BindInv, BindTypeOK
<1>4. UdpAsAsked(bind)'
      BY <1>3 DEF UdpAsAsked
<1>5. UdpSteps(bind)' /\ TcpSteps(bind)'
      BY <1>1, <1>3, <1>4 DEF UdpSteps, TcpSteps
<1>6. BoundAsAsked'
      BY <1>1, <1>3, <1>4 DEF BoundAsAsked, UdpAsAsked
<1> QED
    BY <1>2, <1>5, <1>6 DEF BindInv

\* bind_tcp_with returns with or without an IPv6 listener.
LEMMA TcpBoundKeeps ==
  ASSUME BindInv, UdpAsAsked(bind), bind.config.tcpOn, bind.config.ipv6, bind.tcp4 # 0,
         bind.config.tcp # 0 => bind.tcp4 = bind.config.tcp,
         NEW o, Ok(o) => o = bind.tcp4, ~Ok(o) => ~bind.config.explicit6,
         bind' = TcpBound(o)
  PROVE  BindInv'
<1> DEFINE p == IF Ok(o) THEN o ELSE 0
<1>1. /\ bind' = [bind EXCEPT !.tcp6 = p, !.pc = "bound"]
      /\ p \in {0, bind.tcp4} /\ (bind.config.explicit6 => p # 0)
      BY DEF TcpBound
<1> HIDE DEF p
<1>2. BindTypeOK'
      BY <1>1 DEF BindInv, BindTypeOK, BindPC
<1>3. /\ bind'.pc = "bound" /\ bind'.config = bind.config /\ bind'.tcp4 = bind.tcp4
      /\ bind'.tcp6 = p /\ bind'.udp4 = bind.udp4 /\ bind'.udp6 = bind.udp6
      /\ bind'.udpTries = bind.udpTries
      BY <1>1 DEF BindInv, BindTypeOK
<1>4. BoundAsAsked'
      BY <1>1, <1>3 DEF BoundAsAsked, UdpAsAsked
<1> QED
    BY <1>2, <1>3, <1>4 DEF BindInv, UdpSteps, TcpSteps

\* Another step of bind_tcp_with: the listener is given up or kept, and the UDP
\* sockets stay.
LEMMA TcpGoesOn ==
  ASSUME BindInv, UdpAsAsked(bind), bind.config.tcpOn, bind.tcp6 = 0, bind.config.tcp = 0,
         NEW pc \in {"tcp4Any", "pair4", "pair6"}, NEW p \in Port \cup {0},
         NEW tries \in 0 .. PairAttempts,
         pc = "pair6" => p # 0, pc \in {"pair4", "pair6"} => bind.config.ipv6,
         bind' = [bind EXCEPT !.tcp4 = p, !.pc = pc, !.tcpTries = tries]
  PROVE  BindInv'
<1>1. BindTypeOK'
      BY DEF BindInv, BindTypeOK, BindPC
<1>2. /\ bind'.pc = pc /\ bind'.config = bind.config /\ bind'.tcp4 = p /\ bind'.tcp6 = 0
      /\ bind'.udp4 = bind.udp4 /\ bind'.udp6 = bind.udp6
      /\ bind'.udpTries = bind.udpTries
      BY DEF BindInv, BindTypeOK
<1>3. UdpAsAsked(bind)'
      BY <1>2 DEF UdpAsAsked
<1> QED
    BY <1>1, <1>2, <1>3 DEF BindInv, UdpSteps, TcpSteps, BoundAsAsked

\* The steps of bind_tcp_with.
LEMMA TcpKeeps ==
  ASSUME BindInv, BindTcp4 \/ BindTcp4Any \/ BindTcp6 \/ BindPair4 \/ BindPair6
  PROVE  BindInv'
<1> DEFINE R == [pc : BindPC, config : Configs, udp4 : Port \cup {0}, udp6 : Port \cup {0},
                 tcp4 : Port \cup {0}, tcp6 : Port \cup {0},
                 udpTries : 0 .. PairAttempts, tcpTries : 0 .. PairAttempts]
           C == [udp : Port \cup {0}, tcpOn : BOOLEAN, tcp : Port \cup {0},
                 ipv6 : BOOLEAN, explicit6 : BOOLEAN]
<1>1. /\ bind \in R /\ bind.config \in C /\ TcpSteps(bind) /\ 0 \in Port \cup {0}
      /\ bind.config.tcp \in Port \cup {0} /\ bind.udp4 \in Port \cup {0}
      /\ bind.tcp4 \in Port \cup {0} /\ bind.tcpTries \in 0 .. PairAttempts
      /\ PairAttempts \in Nat \ {0}
      BY BindConstants DEF BindInv, BindTypeOK
<1>2. CASE BindTcp4
  <2>1. UdpAsAsked(bind) /\ bind.config.tcpOn /\ bind.tcp6 = 0
        BY <1>1, <1>2 DEF TcpSteps, BindTcp4
  <2>2. PICK o \in Outcome(PreferredPort, {}) :
          bind' = IF Ok(o) THEN Tcp4Bound(o)
                  ELSE IF TcpFallsBack(o) THEN [bind EXCEPT !.pc = "tcp4Any"]
                  ELSE Fails
        BY <1>2 DEF BindTcp4
  <2>3. /\ PreferredPort \in Port \cup {0}
        /\ bind.config.tcp # 0 => PreferredPort = bind.config.tcp
        BY <1>1 DEF PreferredPort
  <2>4. CASE Ok(o)
    <3>1. o \in Port /\ o # 0 /\ (bind.config.tcp # 0 => o = bind.config.tcp)
          BY <2>3, <2>4, OutcomeTypes
    <3> QED
        BY <2>1, <2>2, <2>4, <3>1, Tcp4BoundKeeps
  <2>5. CASE ~Ok(o) /\ TcpFallsBack(o)
    <3>1. bind.config.tcp = 0
          BY <2>5 DEF TcpFallsBack
    <3>2. bind' = [bind EXCEPT !.tcp4 = bind.tcp4, !.pc = "tcp4Any", !.tcpTries = bind.tcpTries]
          BY <1>1, <2>2, <2>5
    <3> QED
        BY <1>1, <2>1, <3>1, <3>2, TcpGoesOn
  <2>6. CASE ~Ok(o) /\ ~TcpFallsBack(o)
        BY <2>2, <2>6, FailsKeeps
  <2> QED
      BY <2>4, <2>5, <2>6
<1>3. CASE BindTcp4Any
  <2>1. UdpAsAsked(bind) /\ bind.config.tcpOn /\ bind.tcp6 = 0 /\ bind.config.tcp = 0
        BY <1>1, <1>3 DEF TcpSteps, BindTcp4Any
  <2>2. PICK o \in Outcome(0, {}) : bind' = IF Ok(o) THEN Tcp4Bound(o) ELSE Fails
        BY <1>3 DEF BindTcp4Any
  <2>3. CASE Ok(o)
    <3>1. o \in Port /\ o # 0
          BY <1>1, <2>3, OutcomeTypes
    <3> QED
        BY <2>1, <2>2, <2>3, <3>1, Tcp4BoundKeeps
  <2>4. CASE ~Ok(o)
        BY <2>2, <2>4, FailsKeeps
  <2> QED
      BY <2>3, <2>4
<1>4. CASE BindTcp6
  <2>1. /\ UdpAsAsked(bind) /\ bind.config.tcpOn /\ bind.tcp6 = 0 /\ bind.config.ipv6
        /\ bind.tcp4 # 0 /\ (bind.config.tcp # 0 => bind.tcp4 = bind.config.tcp)
        BY <1>1, <1>4 DEF TcpSteps, BindTcp6
  <2>2. PICK o \in Outcome(bind.tcp4, {}) :
          bind' = IF Ok(o) THEN TcpBound(o)
                  ELSE IF TcpFallsBack(o)
                  THEN [bind EXCEPT !.tcp4 = 0, !.pc = "pair4", !.tcpTries = 1]
                  ELSE IF bind.config.explicit6 THEN Fails
                  ELSE TcpBound(o)
        BY <1>4 DEF BindTcp6
  <2>3. Ok(o) => o = bind.tcp4
        BY <1>1, <2>1, OutcomeTypes
  <2>4. CASE Ok(o) \/ (~TcpFallsBack(o) /\ ~bind.config.explicit6)
    <3>1. bind' = TcpBound(o) /\ (~Ok(o) => ~bind.config.explicit6)
          BY <2>2, <2>4
    <3> QED
        BY <2>1, <2>3, <3>1, TcpBoundKeeps
  <2>5. CASE ~Ok(o) /\ TcpFallsBack(o)
    <3>1. bind.config.tcp = 0 /\ 1 \in 0 .. PairAttempts
          BY <1>1, <2>5 DEF TcpFallsBack
    <3>2. bind' = [bind EXCEPT !.tcp4 = 0, !.pc = "pair4", !.tcpTries = 1]
          BY <2>2, <2>5
    <3> QED
        BY <1>1, <2>1, <3>1, <3>2, TcpGoesOn
  <2>6. CASE ~Ok(o) /\ ~TcpFallsBack(o) /\ bind.config.explicit6
        BY <2>2, <2>6, FailsKeeps
  <2> QED
      BY <2>4, <2>5, <2>6
<1>5. CASE BindPair4
  <2>1. /\ UdpAsAsked(bind) /\ bind.config.tcpOn /\ bind.tcp6 = 0 /\ bind.config.ipv6
        /\ bind.config.tcp = 0
        BY <1>1, <1>5 DEF TcpSteps, BindPair4
  <2>2. PICK o \in Outcome(0, {}) :
          bind' = IF Ok(o) THEN [bind EXCEPT !.tcp4 = o, !.pc = "pair6"] ELSE Fails
        BY <1>5 DEF BindPair4
  <2>3. CASE Ok(o)
    <3>1. o \in Port \cup {0} /\ o # 0
          BY <1>1, <2>3, OutcomeTypes
    <3>2. bind' = [bind EXCEPT !.tcp4 = o, !.pc = "pair6", !.tcpTries = bind.tcpTries]
          BY <1>1, <2>2, <2>3
    <3> QED
        BY <1>1, <2>1, <3>1, <3>2, TcpGoesOn
  <2>4. CASE ~Ok(o)
        BY <2>2, <2>4, FailsKeeps
  <2> QED
      BY <2>3, <2>4
<1>6. CASE BindPair6
  <2>1. /\ UdpAsAsked(bind) /\ bind.config.tcpOn /\ bind.tcp6 = 0 /\ bind.config.ipv6
        /\ bind.config.tcp = 0 /\ bind.tcp4 # 0
        BY <1>1, <1>6 DEF TcpSteps, BindPair6
  <2>2. PICK o \in Outcome(bind.tcp4, {}) :
          bind' = IF Ok(o) THEN TcpBound(o)
                  ELSE IF o = Conflict /\ bind.tcpTries < PairAttempts
                  THEN [bind EXCEPT !.tcp4 = 0, !.pc = "pair4", !.tcpTries = @ + 1]
                  ELSE IF bind.config.explicit6 THEN Fails
                  ELSE TcpBound(o)
        BY <1>6 DEF BindPair6
  <2>3. Ok(o) => o = bind.tcp4
        BY <1>1, <2>1, OutcomeTypes
  <2> DEFINE retry == o = Conflict /\ bind.tcpTries < PairAttempts
  <2>4. CASE Ok(o) \/ (~retry /\ ~bind.config.explicit6)
    <3>1. bind' = TcpBound(o) /\ (~Ok(o) => ~bind.config.explicit6)
          BY <2>2, <2>4
    <3> QED
        BY <2>1, <2>3, <3>1, TcpBoundKeeps
  <2>5. CASE ~Ok(o) /\ retry
    <3>1. /\ bind.tcpTries + 1 \in 0 .. PairAttempts
          /\ bind' = [bind EXCEPT !.tcp4 = 0, !.pc = "pair4", !.tcpTries = bind.tcpTries + 1]
          BY <1>1, <2>2, <2>5
    <3> QED
        BY <1>1, <2>1, <3>1, TcpGoesOn
  <2>6. CASE ~Ok(o) /\ ~retry /\ bind.config.explicit6
        BY <2>2, <2>6, FailsKeeps
  <2> QED
      BY <2>4, <2>5, <2>6
<1> QED
    BY <1>2, <1>3, <1>4, <1>5, <1>6

\* What the other tasks of the node do leaves the sockets of bind alone.
LEMMA BindKept == ASSUME BindInv, UNCHANGED bind PROVE BindInv'
<1>1. BindTypeOK'
      BY DEF BindInv, BindTypeOK
<1> QED
    BY <1>1 DEF BindInv, UdpSteps, TcpSteps, UdpAsAsked, BoundAsAsked

LEMMA BindPreserved == ASSUME BindInv, [Next]_vars PROVE BindInv'
<1>1. CASE BindNext
      BY <1>1, UdpKeeps, TcpKeeps DEF BindNext
<1>2. CASE StartNode
  <2> DEFINE c == CHOOSE c \in Configs : TRUE
  <2>1. bind.config \in Configs
        BY DEF BindInv, BindTypeOK
  <2>2. c \in Configs
        BY <2>1
  <2>3. bind' = Binding("moved", c)
        BY <1>2 DEF StartNode
  <2> HIDE DEF c
  <2>4. /\ bind' = [pc |-> "moved", config |-> c, udp4 |-> 0, udp6 |-> 0, tcp4 |-> 0,
                    tcp6 |-> 0, udpTries |-> 0, tcpTries |-> 0]
        /\ 0 \in 0 .. PairAttempts
        BY <2>3, BindConstants DEF Binding
  <2>5. BindTypeOK'
        BY <2>2, <2>4 DEF BindTypeOK, BindPC
  <2> QED
      BY <2>4, <2>5 DEF BindInv, UdpSteps, TcpSteps, BoundAsAsked
<1>3. CASE UNCHANGED bind
      BY <1>3, BindKept
<1> QED
    BY <1>1, <1>2, <1>3 DEF Next, vars, DetectInLoop, DetectByHand

\* THEOREM.  bind returns what was asked for, for all ports, configurations,
\* numbers of attempts and answers of the operating system.
THEOREM BindIsRight == Spec => []BoundAsAsked
<1>1. Init => BindInv
      BY BindStarts DEF Init
<1>2. BindInv /\ [Next]_vars => BindInv'
      BY BindPreserved
<1>3. BindInv => BoundAsAsked
      BY DEF BindInv
<1> QED
    BY <1>1, <1>2, <1>3, PTL DEF Spec

-----------------------------------------------------------------------------
(* apply_nat_model. *)

\* The lock is held by the call that changes the model, and what that call has
\* still to add is what is missing.
ModelInv ==
  /\ nat \in NatKind
  /\ assistants \in 0 .. MaxAssistants
  /\ modelLock \in Applier \cup {Nobody}
  /\ applier \in [Applier -> [pc : {"idle", "lock", "change"}, type : {"Cone", "Symmetric"},
                              left : 0 .. MaxAssistants]]
  /\ \A a \in Applier : applier[a].pc = "change" =>
       /\ modelLock = a
       /\ applier[a].type = "Symmetric" => assistants + applier[a].left = MaxAssistants
       /\ applier[a].type = "Cone" => applier[a].left = 0
  /\ AssistantsMatch

LEMMA RoundType ==
  ASSUME NEW k, NEW n, NEW h
  PROVE  RoundResult(k, n, h).type \in {"Cone", "Symmetric"}
<1> DEFINE mapped == [f \in Family |-> {MappedPort(k, n, f, d) : d \in h[f]}]
<1>1. RoundResult(k, n, h).type = MappedNatType(mapped)
      BY DEF RoundResult
<1> HIDE DEF mapped
<1> QED
    BY <1>1 DEF MappedNatType

\* A NAT test reports one of the two types.
LEMMA ResultType ==
  ASSUME NEW k \in NatKind, NEW result \in StunResults[k]
  PROVE  result.type \in {"Cone", "Symmetric"}
<1> DEFINE Round(n) == {RoundResult(k, n, h) : h \in Heard[Len(Servers)]}
<1>1. PICK r1 \in Round(1), r2 \in Round(2) : result = Combine(r1, r2)
      BY DEF StunResults
<1>2. r1.type \in {"Cone", "Symmetric"} /\ r2.type \in {"Cone", "Symmetric"}
      BY <1>1, RoundType
<1> HIDE DEF Round
<1> QED
    BY <1>1, <1>2 DEF Combine

\* A call of apply_nat_model begins.
LEMMA CallKeepsModel ==
  ASSUME ModelInv, NEW a \in Applier, NEW type \in {"Cone", "Symmetric"},
         ApplyNatModel(a, type), UNCHANGED nat
  PROVE  ModelInv'
<1>1. /\ applier' = [applier EXCEPT ![a] = [pc |-> "lock", type |-> type, left |-> 0]]
      /\ UNCHANGED <<assistants, modelLock, applied, nat>>
      /\ 0 \in 0 .. MaxAssistants
      BY PuncherConstants DEF ApplyNatModel
<1>2. applier' \in [Applier -> [pc : {"idle", "lock", "change"},
                                type : {"Cone", "Symmetric"}, left : 0 .. MaxAssistants]]
      BY <1>1 DEF ModelInv
<1>3. \A b \in Applier : applier'[b].pc = "change" => applier'[b] = applier[b]
      BY <1>1 DEF ModelInv
<1> QED
    BY <1>1, <1>2, <1>3 DEF ModelInv, AssistantsMatch

\* Its steps.
LEMMA ApplyKeepsModel ==
  ASSUME ModelInv, ApplyStep, UNCHANGED nat
  PROVE  ModelInv'
<1> DEFINE A == [pc : {"idle", "lock", "change"}, type : {"Cone", "Symmetric"},
                 left : 0 .. MaxAssistants]
<1>1. PICK a \in Applier : LockModel(a) \/ AddAssistant(a) \/ AddFails(a) \/ ApplyDone(a)
      BY DEF ApplyStep
<1>2. /\ applier \in [Applier -> A] /\ applier[a] \in A
      /\ applier[a].type \in {"Cone", "Symmetric"} /\ applier[a].left \in 0 .. MaxAssistants
      /\ assistants \in 0 .. MaxAssistants /\ MaxAssistants \in Nat /\ Nobody \notin Applier
      /\ NoCall \in A
      BY PuncherConstants DEF ModelInv, NoCall
<1>3. \A b \in Applier : b # a => (applier[b].pc = "change" => modelLock = b)
      BY DEF ModelInv
<1>4. CASE LockModel(a)
  <2> DEFINE m == Missing(applier[a].type)
  <2>1. /\ modelLock = Nobody /\ modelLock' = a /\ UNCHANGED <<assistants, applied>>
        /\ applier' = [applier EXCEPT ![a] = [applier[a] EXCEPT !.pc = "change", !.left = m]]
        BY <1>2, <1>4 DEF LockModel
  <2>2. /\ m \in 0 .. MaxAssistants
        /\ applier[a].type = "Symmetric" => assistants + m = MaxAssistants
        /\ applier[a].type = "Cone" => m = 0
        BY <1>2 DEF Missing
  <2> HIDE DEF m
  <2>3. applier'[a] \in A /\ applier'[a].type = applier[a].type /\ applier'[a].left = m
        BY <1>2, <2>1, <2>2
  <2>4. \A b \in Applier : b # a => applier'[b] = applier[b] /\ applier[b].pc # "change"
        BY <1>2, <1>3, <2>1
  <2>5. applier' \in [Applier -> A]
        BY <1>2, <2>1, <2>3
  <2>6. modelLock' # Nobody
        BY <1>2, <2>1
  <2> QED
      BY <2>1, <2>2, <2>3, <2>4, <2>5, <2>6 DEF ModelInv, AssistantsMatch
<1>5. CASE AddAssistant(a)
  <2>1. /\ applier[a].pc = "change" /\ applier[a].left > 0 /\ assistants' = assistants + 1
        /\ applier' = [applier EXCEPT ![a] = [applier[a] EXCEPT !.left = applier[a].left - 1]]
        /\ UNCHANGED <<modelLock, applied>>
        BY <1>2, <1>5 DEF AddAssistant
  <2>2. /\ modelLock = a /\ applier[a].type = "Symmetric"
        /\ assistants + applier[a].left = MaxAssistants
        BY <1>2, <2>1 DEF ModelInv
  <2>3. applier[a].left - 1 \in 0 .. MaxAssistants /\ assistants' \in 0 .. MaxAssistants
          /\ assistants' + (applier[a].left - 1) = MaxAssistants
        BY <1>2, <2>1, <2>2
  <2>4. /\ applier'[a] \in A /\ applier'[a].type = "Symmetric"
        /\ applier'[a].left = applier[a].left - 1
        BY <1>2, <2>1, <2>2, <2>3
  <2>5. \A b \in Applier : b # a => applier'[b] = applier[b] /\ applier[b].pc # "change"
        BY <1>2, <1>3, <2>1, <2>2
  <2>6. applier' \in [Applier -> A]
        BY <1>2, <2>1, <2>4
  <2>7. modelLock' # Nobody /\ modelLock' = a
        BY <1>2, <2>1, <2>2
  <2> QED
      BY <2>3, <2>4, <2>5, <2>6, <2>7 DEF ModelInv, AssistantsMatch
<1>6. CASE AddFails(a)
  <2>1. /\ applier[a].pc = "change" /\ modelLock' = Nobody /\ applied' = "failed"
        /\ applier' = [applier EXCEPT ![a] = NoCall] /\ UNCHANGED assistants
        BY <1>6 DEF AddFails, Unlock
  <2>2. modelLock = a
        BY <2>1 DEF ModelInv
  <2>3. \A b \in Applier : applier'[b].pc # "change"
        BY <1>2, <1>3, <2>1, <2>2 DEF NoCall
  <2>4. applier' \in [Applier -> A]
        BY <1>2, <2>1
  <2> QED
      BY <2>1, <2>3, <2>4 DEF ModelInv, AssistantsMatch
<1>7. CASE ApplyDone(a)
  <2>1. /\ applier[a].pc = "change" /\ applier[a].left = 0 /\ modelLock' = Nobody
        /\ applied' = applier[a].type /\ applier' = [applier EXCEPT ![a] = NoCall]
        /\ assistants' = IF applier[a].type = "Cone" THEN 0 ELSE assistants
        BY <1>7 DEF ApplyDone, Unlock
  <2>2. modelLock = a /\ (applier[a].type = "Symmetric" => assistants = MaxAssistants)
        BY <1>2, <2>1 DEF ModelInv
  <2>3. \A b \in Applier : applier'[b].pc # "change"
        BY <1>2, <1>3, <2>1, <2>2 DEF NoCall
  <2>4. applier' \in [Applier -> A] /\ assistants' \in 0 .. MaxAssistants
        BY <1>2, <2>1
  <2>5. AssistantsMatch'
        BY <1>2, <2>1, <2>2 DEF AssistantsMatch
  <2> QED
      BY <2>1, <2>3, <2>4, <2>5 DEF ModelInv
<1> QED
    BY <1>1, <1>4, <1>5, <1>6, <1>7

LEMMA ModelPreserved == ASSUME ModelInv, [Next]_vars PROVE ModelInv'
<1>1. CASE DetectInLoop
  <2>1. PICK result \in StunResults[nat] : ApplyNatModel(StunLoop, result.type)
        BY <1>1 DEF DetectInLoop
  <2>2. result.type \in {"Cone", "Symmetric"} /\ StunLoop \in Applier
        BY ResultType, NodeConstants DEF ModelInv
  <2> QED
      BY <1>1, <2>1, <2>2, CallKeepsModel DEF DetectInLoop
<1>2. ASSUME NEW a \in Applier, DetectByHand(a) PROVE ModelInv'
  <2>1. PICK result \in StunResults[nat] : ApplyNatModel(a, result.type)
        BY <1>2 DEF DetectByHand
  <2>2. result.type \in {"Cone", "Symmetric"}
        BY ResultType DEF ModelInv
  <2> QED
      BY <1>2, <2>1, <2>2, CallKeepsModel DEF DetectByHand
<1>3. CASE ApplyStep /\ UNCHANGED <<bind, roundVars, nat, natInfo>>
      BY <1>3, ApplyKeepsModel
<1>4. CASE UNCHANGED <<assistantVars, nat>>
      BY <1>4 DEF assistantVars, ModelInv, AssistantsMatch
<1> QED
    BY <1>1, <1>2, <1>3, <1>4 DEF Next, vars, StartNode

LEMMA ModelStarts == Init => ModelInv
      BY PuncherConstants DEF Init, PuncherInit, ModelInv, AssistantsMatch, NoCall

\* However many tasks apply whatever NAT types, the assistant sockets
\* are those of the type applied last whenever nobody is changing them.
THEOREM ModelsDoNotMix == Spec => []AssistantsMatch
<1>1. Init => ModelInv
      BY ModelStarts
<1>2. ModelInv /\ [Next]_vars => ModelInv'
      BY ModelPreserved
<1>3. ModelInv => AssistantsMatch
      BY DEF ModelInv
<1> QED
    BY <1>1, <1>2, <1>3, PTL DEF Spec

-----------------------------------------------------------------------------
(* The scan. *)

\* Packet number max is the r-th packet of port number q, for one q and one r.
LEMMA Division ==
  ASSUME NEW max \in Nat \ {0}, NEW ips \in Nat \ {0}
  PROVE  \E q \in Nat : \E r \in 1 .. ips : q * ips + r = max
<1> DEFINE q == (max - 1) \div ips
           m == (max - 1) % ips
<1>1. q \in Nat /\ m \in 0 .. ips - 1 /\ max - 1 = ips * q + m
      OBVIOUS
<1>2. ips * q = q * ips
      BY <1>1
<1> HIDE DEF q, m
<1>3. m + 1 \in 1 .. ips /\ q * ips + (m + 1) = max
      BY <1>1, <1>2
<1> QED
    BY <1>1, <1>3

LEMMA LaterPort ==
  ASSUME NEW ips \in Nat \ {0}, NEW a \in Nat, NEW b \in Nat, a < b
  PROVE  (a + 1) * ips <= b * ips
<1>1. PICK d \in Nat : b = a + 1 + d
      BY b - a - 1 \in Nat
<1>2. b * ips = (a + 1) * ips + d * ips
      BY <1>1
<1>3. d * ips \in Nat /\ (a + 1) * ips \in Nat
      OBVIOUS
<1> QED
    BY <1>2, <1>3

\* Every port that punch_symmetric counts has got all of its packets.
LEMMA CountedAreSent ==
  ASSUME NEW ports \in Nat, NEW ips \in Nat \ {0}, NEW max \in Nat \ {0}
  PROVE  /\ PunchSymmetric(ports, ips, max) \in 0 .. ports
         /\ \A i \in Nat : i < PunchSymmetric(ports, ips, max) => (i + 1) * ips < max
<1> DEFINE stop == {i \in 0 .. ports - 1 : \E ip \in 1 .. ips : i * ips + ip = max}
<1>1. PICK q \in Nat, r \in 1 .. ips : q * ips + r = max
      BY Division
<1>2. \A i \in Nat : (i + 1) * ips = i * ips + ips /\ i * ips \in Nat
      OBVIOUS
<1>3. \A i \in Nat : i < q => (i + 1) * ips < max
      BY <1>1, <1>2, LaterPort
<1>4. ASSUME NEW i \in Nat, NEW ip \in 1 .. ips, i * ips + ip = max PROVE i = q
  <2>1. ASSUME i < q PROVE FALSE
    <3>1. (i + 1) * ips < max
          BY <1>3, <2>1
    <3> QED
        BY <1>2, <1>4, <3>1
  <2>2. ASSUME q < i PROVE FALSE
    <3>1. (q + 1) * ips <= i * ips
          BY <2>2, LaterPort
    <3> QED
        BY <1>1, <1>2, <1>4, <3>1
  <2> QED
      BY <2>1, <2>2
<1>5. CASE q <= ports - 1
  <2>1. stop = {q}
        BY <1>1, <1>4, <1>5
  <2>2. Min(stop) = q
        BY <2>1 DEF Min
  <2>3. PunchSymmetric(ports, ips, max) = q
        BY <2>1, <2>2 DEF PunchSymmetric
  <2> QED
      BY <1>3, <1>5, <2>3
<1>6. CASE ~(q <= ports - 1)
  <2>1. ASSUME NEW i \in stop PROVE FALSE
    <3>1. i \in 0 .. ports - 1
          OBVIOUS
    <3>2. PICK ip \in 1 .. ips : i * ips + ip = max
          OBVIOUS
    <3>3. i = q
          BY <1>4, <3>1, <3>2
    <3> QED
        BY <1>6, <3>1, <3>3
  <2>1a. stop = {}
        BY <2>1
  <2>2. PunchSymmetric(ports, ips, max) = ports
        BY <2>1a DEF PunchSymmetric
  <2>3. \A i \in Nat : i < ports => i < q
        BY <1>6
  <2> QED
      BY <1>3, <2>2, <2>3
<1> QED
    BY <1>5, <1>6

\* What a round is about to write has been scanned.
ScanInv ==
  /\ cursor \in 0 .. NumPorts - 1
  /\ round \in [PunchTask -> RoundState]
  /\ tried \subseteq 0 .. NumPorts - 1
  /\ \A t \in PunchTask : round[t].pc = "scan" => round[t].ips # 0
  /\ \A t \in PunchTask : \A p \in 0 .. round[t].index - 1 : p \in tried
  /\ NoPortSkipped

LEMMA ScanKeeps ==
  ASSUME ScanInv, NEW t \in PunchTask, NEW max \in MaxK2, Scan(t, max)
  PROVE  ScanInv'
<1> DEFINE start == cursor
           end   == Min({start + max, NumPorts})
           ips   == round[t].ips
           n     == PunchSymmetric(end - start, ips, max)
           index == start + n
           sent  == {p \in start .. end - 1 : (p - start + 1) * ips < max}
           next  == IF index >= NumPorts THEN 0 ELSE index
<1>1. /\ start \in 0 .. NumPorts - 1 /\ NumPorts \in Nat \ {0} /\ max \in Nat \ {0}
      /\ round[t] \in RoundState /\ ips \in Nat \ {0}
      BY PuncherConstants DEF ScanInv, Scan, RoundState
<1>2. /\ tried' = tried \cup sent
      /\ round' = [round EXCEPT ![t] = InRound("write", 0, next)]
      /\ cursor' = cursor
      BY DEF Scan, ScanFrom
<1>3. end \in Nat /\ end <= NumPorts /\ start <= end
  <2>1. start + max \in Nat /\ start <= start + max /\ start <= NumPorts
        BY <1>1
  <2>2. end = start + max \/ end = NumPorts
        BY <1>1, <2>1 DEF Min
  <2>3. CASE start + max <= NumPorts
    <3>1. end = start + max
          BY <1>1, <2>1, <2>3 DEF Min
    <3> QED
        BY <1>1, <2>1, <2>3, <3>1
  <2>4. CASE ~(start + max <= NumPorts)
    <3>1. end = NumPorts
          BY <1>1, <2>1, <2>4 DEF Min
    <3> QED
        BY <1>1, <2>1, <3>1
  <2> QED
      BY <2>3, <2>4
<1> HIDE DEF end, ips
<1>4. /\ n \in 0 .. end - start
      /\ \A i \in Nat : i < n => (i + 1) * ips < max
      BY <1>1, <1>3, end - start \in Nat, CountedAreSent
<1> HIDE DEF n
<1>5. \A p \in start .. start + n - 1 : p \in sent
  <2> SUFFICES ASSUME NEW p \in start .. start + n - 1 PROVE p \in sent
      OBVIOUS
  <2>1. p - start \in Nat /\ p - start < n /\ p \in start .. end - 1
        BY <1>1, <1>3, <1>4
  <2>2. (p - start + 1) * ips < max
        BY <1>4, <2>1
  <2> QED
      BY <2>1, <2>2
<1>6. next \in 0 .. NumPorts - 1 /\ next <= start + n
      BY <1>1, <1>3, <1>4
<1>7. \A p \in 0 .. next - 1 : p \in tried'
  <2> SUFFICES ASSUME NEW p \in 0 .. next - 1 PROVE p \in tried'
      OBVIOUS
  <2>1. CASE p < start
    <3>1. p \in 0 .. cursor - 1
          BY <1>1, <1>6, <2>1
    <3>2. p \in tried
          BY <3>1 DEF ScanInv, NoPortSkipped
    <3> QED
        BY <1>2, <3>2
  <2>2. CASE ~(p < start)
    <3>1. p \in start .. start + n - 1
          BY <1>1, <1>4, <1>6, <2>2
    <3> QED
        BY <1>2, <1>5, <3>1
  <2> QED
      BY <2>1, <2>2
<1>8. tried' \subseteq 0 .. NumPorts - 1 /\ tried \subseteq tried'
  <2>1. sent \subseteq start .. end - 1
        OBVIOUS
  <2>2. start .. end - 1 \subseteq 0 .. NumPorts - 1
        BY <1>1, <1>3
  <2> HIDE DEF sent
  <2> QED
      BY <1>2, <2>1, <2>2 DEF ScanInv
<1> HIDE DEF next, index, sent
<1>9. InRound("write", 0, next) \in RoundState
      BY <1>6 DEF InRound, RoundState
<1>10. round' \in [PunchTask -> RoundState]
      BY <1>2, <1>9 DEF ScanInv
<1>11. /\ round'[t].pc = "write" /\ round'[t].index = next
       /\ \A u \in PunchTask : u # t => round'[u] = round[u]
      BY <1>2 DEF ScanInv, InRound
<1>12. \A u \in PunchTask : round'[u].pc = "scan" => round'[u].ips # 0
      BY <1>11 DEF ScanInv
<1>13. \A u \in PunchTask : \A p \in 0 .. round'[u].index - 1 : p \in tried'
      BY <1>7, <1>8, <1>11 DEF ScanInv
<1> QED
    BY <1>2, <1>8, <1>10, <1>12, <1>13 DEF ScanInv, NoPortSkipped

LEMMA RoundKeeps == ASSUME ScanInv, RoundStep PROVE ScanInv'
<1>1. \A pc \in {"idle", "tcp"} : InRound(pc, 0, 0) \in RoundState
      BY PuncherConstants DEF InRound, RoundState
<1>2. ASSUME NEW t \in PunchTask, NEW info \in PeerInfo, NEW model \in Model,
             PunchNow(t, info, model)
      PROVE  ScanInv'
  <2>1. PICK new \in RoundState :
          /\ new.pc = "scan" => new.ips # 0
          /\ new.index = 0
          /\ round' = [round EXCEPT ![t] = new]
    <3>1. CASE Scans(info, model)
      <4>1. info.ips \in Nat /\ info.ips # 0
            BY <3>1, PuncherConstants DEF Scans
      <4>2. InRound("scan", info.ips, 0) \in RoundState
            BY <4>1, PuncherConstants DEF InRound, RoundState
      <4> QED
          BY <1>2, <3>1, <4>1, <4>2 DEF PunchNow, InRound
    <3>2. CASE ~Scans(info, model)
          BY <1>1, <1>2, <3>2 DEF PunchNow, InRound
    <3> QED
        BY <3>1, <3>2
  <2>2. cursor' = cursor /\ tried' = tried
        BY <1>2 DEF PunchNow
  <2> QED
      BY <2>1, <2>2 DEF ScanInv, NoPortSkipped
<1>3. ASSUME NEW t \in PunchTask, NEW max \in MaxK2, Scan(t, max) PROVE ScanInv'
      BY <1>3, ScanKeeps
<1>4. ASSUME NEW t \in PunchTask, WriteCursor(t) PROVE ScanInv'
  <2>1. round[t] \in RoundState /\ InRound("tcp", 0, 0) \in RoundState
        BY <1>1 DEF ScanInv
  <2>2. /\ cursor' = round[t].index /\ tried' = tried
        /\ round' = [round EXCEPT ![t] = InRound("tcp", 0, 0)]
        BY <1>4 DEF WriteCursor
  <2>3. cursor' \in 0 .. NumPorts - 1
        BY <2>1, <2>2 DEF RoundState
  <2>4. NoPortSkipped'
        BY <2>2 DEF ScanInv, NoPortSkipped
  <2> QED
      BY <2>1, <2>2, <2>3, <2>4 DEF ScanInv, InRound
<1>5. ASSUME NEW t \in PunchTask, JoinTcp(t) PROVE ScanInv'
      BY <1>1, <1>5 DEF JoinTcp, NoRound, InRound, ScanInv, NoPortSkipped
<1>6. ASSUME OthersClear PROVE ScanInv'
      BY <1>6, PuncherConstants DEF OthersClear, ScanInv, NoPortSkipped
<1> QED
    BY <1>2, <1>3, <1>4, <1>5, <1>6 DEF RoundStep

LEMMA ScanPreserved == ASSUME ScanInv, [Next]_vars PROVE ScanInv'
<1>1. ASSUME UNCHANGED roundVars PROVE ScanInv'
      BY <1>1 DEF roundVars, ScanInv, NoPortSkipped
<1> QED
    BY <1>1, RoundKeeps DEF Next, vars, StartNode, DetectInLoop, DetectByHand

LEMMA ScanStarts == Init => ScanInv
<1> SUFFICES ASSUME Init PROVE ScanInv
    OBVIOUS
<1>1. NoRound \in RoundState /\ NoRound.pc = "idle" /\ NoRound.index = 0
      BY PuncherConstants DEF NoRound, InRound, RoundState
<1> QED
    BY <1>1, PuncherConstants DEF Init, PuncherInit, ScanInv, NoPortSkipped

\* Every port before the cursor has got its packet (NoPortSkipped): rounds of
\* punch_now that read port_cursor, scan and write it back without a lock, in
\* any order, never move it past a port that no scan reached.  The next cursor
\* of a round counts as scanned from the moment the round has computed it.
THEOREM ScansSkipNoPort == Spec => []NoPortSkipped
<1>1. Init => ScanInv
      BY ScanStarts
<1>2. ScanInv /\ [Next]_vars => ScanInv'
      BY ScanPreserved
<1>3. ScanInv => NoPortSkipped
      BY DEF ScanInv
<1> QED
    BY <1>1, <1>2, <1>3, PTL DEF Spec

-----------------------------------------------------------------------------
(* The NAT test. *)

\* A cone NAT maps the socket of a round and a family to one port, so that
\* whatever its servers answer there is nothing to tell apart.
LEMMA ConeFamily ==
  ASSUME NEW n \in Nat, NEW f \in Family, NEW heard,
         NEW ports, ports = {MappedPort("cone", n, f, d) : d \in heard}
  PROVE  ~(Cardinality(ports) > 1) /\ MappedPortRange(ports) = 0
<1>1. PICK p \in Int : p = 100 * n + (IF f = "v4" THEN 0 ELSE 50) + 0
      OBVIOUS
<1>2. \A d \in heard : MappedPort("cone", n, f, d) = p
      BY <1>1 DEF MappedPort
<1>3. ports = {} \/ ports = {p}
      BY <1>2
<1>4. CASE ports = {}
      BY <1>4, FS_EmptySet DEF MappedPortRange
<1>5. CASE ports = {p}
  <2>1. Cardinality(ports) = 1
        BY <1>5, FS_Singleton
  <2>2. Max({p}) = p /\ Min({p}) = p
        BY DEF Max, Min
  <2>3. MappedPortRange(ports) = p - p
        BY <1>5, <2>2 DEF MappedPortRange
  <2> QED
      BY <2>1, <2>3
<1> QED
    BY <1>3, <1>4, <1>5

LEMMA ConeRound ==
  ASSUME NEW n \in Nat, NEW h
  PROVE  RoundResult("cone", n, h) = [type |-> "Cone", range |-> 0]
<1> DEFINE mapped == [f \in Family |-> {MappedPort("cone", n, f, d) : d \in h[f]}]
           ranges == {MappedPortRange(mapped[f]) : f \in Family}
<1>1. \A f \in Family : ~(Cardinality(mapped[f]) > 1) /\ MappedPortRange(mapped[f]) = 0
      BY ConeFamily
<1>2. RoundResult("cone", n, h) = [type |-> MappedNatType(mapped), range |-> Max(ranges)]
      BY DEF RoundResult
<1> HIDE DEF mapped
<1>3. MappedNatType(mapped) = "Cone"
      BY <1>1 DEF MappedNatType
<1>4. ranges = {0}
      BY <1>1 DEF Family
<1>5. Max({0}) = 0
      BY DEF Max
<1> QED
    BY <1>2, <1>3, <1>4, <1>5

\* Every test behind a cone NAT reports one.
LEMMA ConeResult ==
  ASSUME NEW result \in StunResults["cone"]
  PROVE  result = [type |-> "Cone", range |-> 0]
<1> DEFINE Round(n) == {RoundResult("cone", n, h) : h \in Heard[Len(Servers)]}
<1>1. PICK r1 \in Round(1), r2 \in Round(2) : result = Combine(r1, r2)
      BY DEF StunResults, NatKind
<1>2. r1 = [type |-> "Cone", range |-> 0] /\ r2 = [type |-> "Cone", range |-> 0]
      BY <1>1, ConeRound
<1> HIDE DEF Round
<1>3. result = [type |-> "Cone", range |-> Max({0, 0})]
      BY <1>1, <1>2 DEF Combine
<1>4. Max({0, 0}) = 0
      BY DEF Max
<1> QED
    BY <1>3, <1>4

\* Behind a cone NAT no call of apply_nat_model is about to add a socket.
ConeInv ==
  nat = "cone" =>
    /\ natInfo = [type |-> "Cone", range |-> 0]
    /\ assistants = 0
    /\ \A a \in Applier : applier[a].type = "Cone" /\ applier[a].left = 0

LEMMA ConePreserved == ASSUME ModelInv, ConeInv, [Next]_vars PROVE ConeInv'
<1> SUFFICES ASSUME nat' = "cone" PROVE ConeInv'
    BY DEF ConeInv
<1>1. nat = "cone"
      BY DEF Next, vars, StartNode, DetectInLoop, DetectByHand
<1> DEFINE A == [pc : {"idle", "lock", "change"}, type : {"Cone", "Symmetric"},
                 left : 0 .. MaxAssistants]
<1>2. /\ natInfo = [type |-> "Cone", range |-> 0] /\ assistants = 0
      /\ applier \in [Applier -> A]
      /\ \A a \in Applier : /\ applier[a] \in A
                            /\ applier[a].type = "Cone" /\ applier[a].left = 0
      BY <1>1 DEF ConeInv, ModelInv
<1>3. ASSUME NEW a \in Applier, ApplyNatModel(a, "Cone")
      PROVE  /\ assistants' = 0
             /\ \A b \in Applier : applier'[b].type = "Cone" /\ applier'[b].left = 0
      BY <1>2, <1>3 DEF ApplyNatModel
<1>4. CASE DetectInLoop
  <2>1. PICK result \in StunResults[nat] :
          natInfo' = ApplyStunResult(result) /\ ApplyNatModel(StunLoop, result.type)
        BY <1>4 DEF DetectInLoop
  <2>2. result = [type |-> "Cone", range |-> 0]
        BY <1>1, ConeResult
  <2>3. natInfo' = [type |-> "Cone", range |-> 0] /\ ApplyNatModel(StunLoop, "Cone")
        BY <1>2, <2>1, <2>2 DEF ApplyStunResult
  <2> QED
      BY <1>3, <2>3, NodeConstants DEF ConeInv
<1>5. ASSUME NEW a \in Applier, DetectByHand(a) PROVE ConeInv'
  <2>1. PICK result \in StunResults[nat] : ApplyNatModel(a, result.type)
        BY <1>5 DEF DetectByHand
  <2>2. result = [type |-> "Cone", range |-> 0]
        BY <1>1, ConeResult
  <2>3. ApplyNatModel(a, "Cone") /\ natInfo' = natInfo
        BY <1>5, <2>1, <2>2 DEF DetectByHand
  <2> QED
      BY <1>2, <1>3, <2>3 DEF ConeInv
<1>6. CASE ApplyStep /\ UNCHANGED <<bind, roundVars, nat, natInfo>>
  <2>1. PICK a \in Applier : LockModel(a) \/ AddAssistant(a) \/ AddFails(a) \/ ApplyDone(a)
        BY <1>6 DEF ApplyStep
  <2>2. CASE LockModel(a)
    <3>1. Missing(applier[a].type) = 0
          BY <1>2 DEF Missing
    <3>2. /\ applier' = [applier EXCEPT ![a] = [applier[a] EXCEPT !.pc = "change", !.left = 0]]
          /\ assistants' = assistants
          BY <1>2, <2>2, <3>1 DEF LockModel
    <3> QED
        BY <1>2, <1>6, <3>2 DEF ConeInv
  <2>3. ~AddAssistant(a) /\ ~AddFails(a)
        BY <1>2 DEF AddAssistant, AddFails
  <2>4. CASE ApplyDone(a)
    <3>1. /\ applier' = [applier EXCEPT ![a] = NoCall] /\ assistants' = 0
          /\ NoCall.type = "Cone" /\ NoCall.left = 0
          BY <1>2, <2>4 DEF ApplyDone, Unlock, NoCall
    <3> QED
        BY <1>2, <1>6, <3>1 DEF ConeInv
  <2> QED
      BY <2>1, <2>2, <2>3, <2>4
<1>7. CASE UNCHANGED <<assistantVars, natInfo>>
      BY <1>2, <1>7 DEF assistantVars, ConeInv
<1> QED
    BY <1>4, <1>5, <1>6, <1>7 DEF Next, vars, StartNode

\* Behind a cone NAT no test, whatever answers of however many servers are
\* lost, late or duplicated, takes it for a symmetric one: the node opens no
\* assistant socket and tells its peers of no port range (ConeRecognised).
THEOREM ConesAreRecognised == Spec => []ConeRecognised
<1>1. Init => ModelInv /\ ConeInv
  <2>1. Init => ModelInv
        BY ModelStarts
  <2>2. Init => ConeInv
        BY DEF Init, PuncherInit, ConeInv, NoCall
  <2> QED
      BY <2>1, <2>2
<1>2. ModelInv /\ ConeInv /\ [Next]_vars => ModelInv' /\ ConeInv'
      BY ModelPreserved, ConePreserved
<1>3. ConeInv => ConeRecognised
      BY DEF ConeInv, ConeRecognised
<1> QED
    BY <1>1, <1>2, <1>3, PTL DEF Spec

-----------------------------------------------------------------------------
(* Type correctness.  What a NAT test hears is a recursive function of the   *)
(* number of servers it has asked: both that the function is well defined    *)
(* and what its values are follow from there being no first exception.       *)

\* A non-empty set of numbers has a smallest one.
LEMMA SmallestExists ==
  ASSUME NEW T, T \subseteq Nat, T # {}
  PROVE  \E x \in T : \A y \in T : x <= y
<1> DEFINE R == OpToRel(<, Nat)
<1>1. IsWellFoundedOn(R, Nat)
      BY NatLessThanWellFounded
<1>2. \A x, y \in Nat : y < x => <<y, x>> \in R
      BY DEF OpToRel
<1> HIDE DEF R
<1>3. PICK x \in T : \A y \in T : ~(<<y, x>> \in R)
      BY <1>1, WFMin
<1>4. ASSUME NEW y \in T PROVE x <= y
  <2>1. x \in Nat /\ y \in Nat /\ ~(y < x)
        BY <1>2, <1>3
  <2> QED
      BY <2>1
<1> QED
    BY <1>4

\* The extremes of a bounded set.
LEMMA Extremes ==
  ASSUME NEW b \in Nat, NEW S, S \subseteq 0 .. b, S # {}
  PROVE  Max(S) \in S /\ Min(S) \in S /\ Max(S) - Min(S) \in Nat
<1>1. PICK low \in S : \A y \in S : low <= y
      BY S \subseteq Nat, SmallestExists
<1> DEFINE T == {b - y : y \in S}
<1>2. T \subseteq Nat /\ T # {}
      OBVIOUS
<1>3. PICK x \in T : \A y \in T : x <= y
  <2> HIDE DEF T
  <2> QED
      BY <1>2, SmallestExists
<1>4. PICK high \in S : x = b - high
      OBVIOUS
<1>5. \A y \in S : high >= y
  <2> SUFFICES ASSUME NEW y \in S PROVE high >= y
      OBVIOUS
  <2>1. b - high <= b - y /\ high \in Nat /\ y \in Nat
        BY <1>3, <1>4
  <2> QED
      BY <2>1
<1>6. Min(S) \in S /\ \A y \in S : Min(S) <= y
      BY <1>1 DEF Min
<1>7. Max(S) \in S /\ \A y \in S : Max(S) >= y
      BY <1>5 DEF Max
<1>8. PICK h \in Nat, l \in Nat : h = Max(S) /\ l = Min(S)
  <2>1. S \subseteq Nat
        OBVIOUS
  <2> QED
      BY ONLY <1>6, <1>7, <2>1
<1>9. h >= l
      BY <1>6, <1>7, <1>8
<1>10. h - l \in Nat
      BY ONLY h \in Nat, l \in Nat, <1>9
<1> QED
    BY <1>6, <1>7, <1>8, <1>10

\* What the sockets may have heard after server i, from before it.
HeardAfter(i, before) ==
  LET f == Servers[i].family
  IN  UNION {{[h EXCEPT ![f] = @ \cup new] :
                new \in TestNat(f, Servers[i].dest, Asked(i))} : h \in before}

HeardUpTo(n, g) ==
  g = [i \in 0 .. n |-> IF i = 0 THEN {[f \in Family |-> {}]} ELSE HeardAfter(i, g[i - 1])]

\* One more server.
LEMMA OneMoreServer ==
  ASSUME NEW n \in Nat \ {0}, NEW g, HeardUpTo(n - 1, g)
  PROVE  \E next : HeardUpTo(n, next)
<1> DEFINE next == [i \in 0 .. n |-> IF i = n THEN HeardAfter(n, g[n - 1]) ELSE g[i]]
           first == {[f \in Family |-> {}]}
<1>1. \A i \in 0 .. n - 1 :
        g[i] = IF i = 0 THEN first ELSE HeardAfter(i, g[i - 1])
      BY DEF HeardUpTo
<1>2. /\ \A i \in 0 .. n : i # n => i \in 0 .. n - 1
      /\ \A i \in 0 .. n : i # 0 => i - 1 \in 0 .. n /\ i - 1 # n
      /\ n \in 0 .. n /\ n # 0
      OBVIOUS
<1> HIDE DEF first
<1>3. \A i \in 0 .. n : next[i] = IF i = 0 THEN first ELSE HeardAfter(i, next[i - 1])
  <2> SUFFICES ASSUME NEW i \in 0 .. n
               PROVE  next[i] = IF i = 0 THEN first ELSE HeardAfter(i, next[i - 1])
      OBVIOUS
  <2>1. i # 0 => next[i - 1] = g[i - 1]
        BY <1>2
  <2>2. CASE i = n
        BY <1>2, <2>1, <2>2
  <2>3. CASE i # n
    <3>1. next[i] = g[i]
          BY <2>3
    <3> HIDE DEF next
    <3> QED
        BY <1>1, <1>2, <2>1, <2>3, <3>1
  <2> QED
      BY <2>2, <2>3
<1>4. next = [i \in 0 .. n |-> next[i]]
      OBVIOUS
<1> HIDE DEF next
<1>5. next = [i \in 0 .. n |-> IF i = 0 THEN first ELSE HeardAfter(i, next[i - 1])]
      BY <1>3, <1>4
<1> QED
    BY <1>5 DEF HeardUpTo, first

\* The recursive definition of Heard defines a function.
LEMMA HeardExists == ASSUME NEW n \in Nat PROVE \E g : HeardUpTo(n, g)
<1> DEFINE T == {m \in Nat : ~ \E g : HeardUpTo(m, g)}
<1>1. T = {}
  <2> SUFFICES ASSUME T # {} PROVE FALSE
      OBVIOUS
  <2>1. PICK m \in T : \A k \in T : m <= k
    <3>1. T \subseteq Nat
          OBVIOUS
    <3> HIDE DEF T
    <3> QED
        BY <3>1, SmallestExists
  <2>2. CASE m = 0
    <3> DEFINE g == [i \in 0 .. 0 |-> {[f \in Family |-> {}]}]
    <3>1. g = [i \in 0 .. 0 |-> IF i = 0 THEN {[f \in Family |-> {}]}
                                         ELSE HeardAfter(i, g[i - 1])]
          OBVIOUS
    <3> HIDE DEF g
    <3>2. HeardUpTo(m, g)
          BY <2>2, <3>1 DEF HeardUpTo
    <3> QED
        BY <3>2
  <2>3. CASE m # 0
    <3>1. m \in Nat \ {0} /\ m - 1 \in Nat /\ ~(m <= m - 1)
          BY <2>3
    <3>2. m - 1 \notin T
          BY <2>1, <3>1
    <3>3. PICK g : HeardUpTo(m - 1, g)
          BY <3>1, <3>2
    <3>4. \E next : HeardUpTo(m, next)
          BY <3>1, <3>3, OneMoreServer
    <3> QED
        BY <3>4
  <2> QED
      BY <2>2, <2>3
<1> QED
    BY <1>1

LEMMA HeardUnfolds == HeardUpTo(Len(Servers), Heard)
<1>1. Len(Servers) \in Nat
      BY StunConstants
<1>2. \E g : HeardUpTo(Len(Servers), g)
      BY <1>1, HeardExists
<1>3. Heard = CHOOSE g : HeardUpTo(Len(Servers), g)
      BY DEF Heard, HeardUpTo, HeardAfter
<1> QED
    BY <1>2, <1>3

LEMMA SeqFacts ==
  ASSUME NEW S, NEW s \in Seq(S)
  PROVE  Len(s) \in Nat /\ DOMAIN s = 1 .. Len(s) /\ \A j \in DOMAIN s : s[j] \in S
OBVIOUS

\* The servers.
LEMMA ServerFacts ==
  /\ Len(Servers) \in Nat /\ DOMAIN Servers = 1 .. Len(Servers) /\ MaxDest \in Nat
  /\ \A j \in DOMAIN Servers : /\ Servers[j].family \in Family
                               /\ Servers[j].dest \in 1 .. MaxDest
<1> DEFINE S == [family : Family, dest : 1 .. MaxDest]
<1>1. Servers \in Seq(S) /\ MaxDest \in Nat
      BY StunConstants
<1>2. \A s \in S : s.family \in Family /\ s.dest \in 1 .. MaxDest
      OBVIOUS
<1> HIDE DEF S
<1>3. /\ Len(Servers) \in Nat /\ DOMAIN Servers = 1 .. Len(Servers)
      /\ \A j \in DOMAIN Servers : Servers[j] \in S
      BY ONLY <1>1, SeqFacts
<1> QED
    BY <1>1, <1>2, <1>3

\* What one server adds.
LEMMA AskedDests ==
  ASSUME NEW i \in DOMAIN Servers
  PROVE  Asked(i) \subseteq 1 .. MaxDest
<1> DEFINE Named(j) == {Servers[j].dest, Changed[Servers[j].family][Servers[j].dest]}
           before == {j \in 1 .. i - 1 : Servers[j].family = Servers[i].family}
<1>1. Len(Servers) \in Nat /\ DOMAIN Servers = 1 .. Len(Servers) /\ MaxDest \in Nat
      BY ServerFacts
<1>2. \A j \in 1 .. i - 1 : j \in DOMAIN Servers
      BY <1>1
<1>3. ASSUME NEW j \in before PROVE Named(j) \subseteq 0 .. MaxDest
  <2>1. Servers[j].family \in Family /\ Servers[j].dest \in 1 .. MaxDest
        BY <1>2, ServerFacts
  <2>2. Changed[Servers[j].family][Servers[j].dest] \in 0 .. MaxDest
        BY <2>1, StunConstants
  <2>3. 1 .. MaxDest \subseteq 0 .. MaxDest
        BY <1>1
  <2> QED
      BY <2>1, <2>2, <2>3
<1>4. Asked(i) = (UNION {Named(j) : j \in before}) \ {0}
      BY Zenon DEF Asked
<1> HIDE DEF Named, before
<1>5. Asked(i) \subseteq (0 .. MaxDest) \ {0}
      BY <1>3, <1>4
<1>6. (0 .. MaxDest) \ {0} \subseteq 1 .. MaxDest
      BY <1>1
<1> QED
    BY <1>5, <1>6

LEMMA TestNatDests ==
  ASSUME NEW f \in Family, NEW d \in 1 .. MaxDest, NEW asked, asked \subseteq 1 .. MaxDest,
         NEW new \in TestNat(f, d, asked)
  PROVE  new \subseteq 1 .. MaxDest
<1>1. \A c \in 1 .. MaxDest : Answer(c, asked \cup {d}) \ {0} \subseteq 1 .. MaxDest
      BY DEF Answer
<1>2. Answer(d, asked) \ {0} \subseteq 1 .. MaxDest
      BY DEF Answer
<1>3. CASE new = {}
      BY <1>3
<1>4. CASE new # {}
  <2>1. PICK first \in Answer(d, asked) \ {0} :
          LET c == Changed[f][first]
          IN  new \in {{first}} \cup
                (IF c = 0 THEN {}
                 ELSE {{first, second} : second \in Answer(c, asked \cup {d}) \ {0}})
        BY <1>4 DEF TestNat
  <2>2. first \in 1 .. MaxDest
        BY <1>2
  <2>3. PICK c \in 0 .. MaxDest : c = Changed[f][first]
        BY <2>2, StunConstants
  <2>4. \/ new = {first}
        \/ c # 0 /\ \E second \in Answer(c, asked \cup {d}) \ {0} : new = {first, second}
        BY <2>1, <2>3
  <2>5. c # 0 => c \in 1 .. MaxDest
        BY StunConstants
  <2> QED
      BY <1>1, <2>2, <2>4, <2>5
<1> QED
    BY <1>3, <1>4

\* What the sockets have heard are destinations, after any number of servers.
LEMMA HeardDests ==
  \A h \in Heard[Len(Servers)] : h \in [Family -> SUBSET (1 .. MaxDest)]
<1> DEFINE L == Len(Servers)
           D == [Family -> SUBSET (1 .. MaxDest)]
           T == {m \in 0 .. L : ~(Heard[m] \subseteq D)}
<1>1. L \in Nat /\ DOMAIN Servers = 1 .. L
      BY ServerFacts
<1>2. \A i \in 0 .. L : Heard[i] = IF i = 0 THEN {[f \in Family |-> {}]}
                                            ELSE HeardAfter(i, Heard[i - 1])
      BY HeardUnfolds DEF HeardUpTo
<1> HIDE DEF L
<1>3. ASSUME NEW i \in 1 .. L, Heard[i - 1] \subseteq D PROVE HeardAfter(i, Heard[i - 1]) \subseteq D
  <2> SUFFICES ASSUME NEW out \in HeardAfter(i, Heard[i - 1]) PROVE out \in D
      OBVIOUS
  <2>1. i \in DOMAIN Servers
        BY <1>1
  <2>2. PICK f \in Family, d \in 1 .. MaxDest : f = Servers[i].family /\ d = Servers[i].dest
        BY <2>1, ServerFacts
  <2>3. Asked(i) \subseteq 1 .. MaxDest
        BY <2>1, AskedDests
  <2>4. PICK h \in Heard[i - 1], new \in TestNat(f, d, Asked(i)) :
          out = [h EXCEPT ![f] = @ \cup new]
    <3> DEFINE From(h) == {[h EXCEPT ![f] = @ \cup new] : new \in TestNat(f, d, Asked(i))}
    <3>1. HeardAfter(i, Heard[i - 1]) = UNION {From(h) : h \in Heard[i - 1]}
          BY ONLY <2>2 DEF HeardAfter
    <3>2. PICK h \in Heard[i - 1] : out \in From(h)
      <4> HIDE DEF From
      <4> QED
          BY <3>1
    <3> QED
        BY <3>2
  <2>5. new \subseteq 1 .. MaxDest
        BY <2>3, TestNatDests
  <2>6. h \in D
        BY <1>3
  <2> QED
      BY <2>4, <2>5, <2>6
<1>4. [f \in Family |-> {}] \in D
      OBVIOUS
<1> HIDE DEF D
<1>5. T = {}
  <2> SUFFICES ASSUME T # {} PROVE FALSE
      OBVIOUS
  <2>1. PICK m \in T : \A k \in T : m <= k
    <3>1. T \subseteq Nat
          OBVIOUS
    <3> HIDE DEF T
    <3> QED
        BY <3>1, SmallestExists
  <2>2. CASE m = 0
        BY <1>2, <1>4, <2>2
  <2>3. CASE m # 0
    <3>1. m \in 1 .. L /\ m - 1 \in 0 .. L /\ ~(m <= m - 1)
          BY <1>1, <2>3
    <3>2. Heard[m - 1] \subseteq D
          BY <2>1, <3>1
    <3>3. Heard[m] \subseteq D
          BY <1>2, <1>3, <2>3, <3>1, <3>2
    <3> QED
        BY <3>3
  <2> QED
      BY <2>2, <2>3
<1>6. L \in 0 .. L
      BY <1>1
<1> QED
    BY <1>5, <1>6 DEF D, L

\* The range a test reports is a number.
LEMMA RangeOfFamily ==
  ASSUME NEW k, NEW n \in {1, 2}, NEW f, NEW heard \in SUBSET (1 .. MaxDest),
         NEW ports, ports = {MappedPort(k, n, f, d) : d \in heard}
  PROVE  MappedPortRange(ports) \in Nat
<1>1. MaxDest \in Nat
      BY StunConstants
<1>2. \A d \in heard : MappedPort(k, n, f, d) \in 0 .. 250 + MaxDest
      BY <1>1 DEF MappedPort
<1>3. 250 + MaxDest \in Nat /\ ports \subseteq 0 .. 250 + MaxDest
      BY <1>1, <1>2
<1>4. ports # {} => Max(ports) - Min(ports) \in Nat
      BY ONLY <1>3, Extremes
<1> QED
    BY <1>4 DEF MappedPortRange

LEMMA RangeOfRound ==
  ASSUME NEW k, NEW n \in {1, 2}, NEW h \in [Family -> SUBSET (1 .. MaxDest)]
  PROVE  RoundResult(k, n, h).range \in Nat
<1> DEFINE mapped == [f \in Family |-> {MappedPort(k, n, f, d) : d \in h[f]}]
           ranges == {MappedPortRange(mapped[f]) : f \in Family}
<1>1. ASSUME NEW f \in Family PROVE MappedPortRange(mapped[f]) \in Nat
  <2>1. PICK heard \in SUBSET (1 .. MaxDest) : heard = h[f]
        OBVIOUS
  <2>2. PICK ports : ports = {MappedPort(k, n, f, d) : d \in heard}
        OBVIOUS
  <2>3. MappedPortRange(ports) \in Nat
        BY ONLY <2>2, RangeOfFamily, n \in {1, 2}
  <2>4. mapped[f] = ports
        BY <2>1, <2>2
  <2> QED
      BY <2>3, <2>4
<1>2. RoundResult(k, n, h).range = Max(ranges)
      BY DEF RoundResult
<1> HIDE DEF mapped
<1>3. PICK a \in Nat, b \in Nat : ranges = {a, b}
      BY <1>1 DEF Family
<1>4. Max({a, b}) \in Nat
      BY DEF Max
<1> QED
    BY <1>2, <1>3, <1>4

LEMMA ResultRange ==
  ASSUME NEW k \in NatKind, NEW result \in StunResults[k]
  PROVE  result.range \in Nat
<1> DEFINE Round(n) == {RoundResult(k, n, h) : h \in Heard[Len(Servers)]}
<1>1. PICK r1 \in Round(1), r2 \in Round(2) : result = Combine(r1, r2)
      BY DEF StunResults
<1>2. r1.range \in Nat /\ r2.range \in Nat
      BY <1>1, HeardDests, RangeOfRound
<1> HIDE DEF Round
<1>3. PICK a \in Nat, b \in Nat : a = r1.range /\ b = r2.range
      BY <1>2
<1>4. Max({a, b}) \in Nat
      BY DEF Max
<1> QED
    BY <1>1, <1>3, <1>4 DEF Combine

\* The types of the node's NatInfo.
NatInfoInv ==
  /\ nat \in NatKind
  /\ natInfo \in [type : {"Cone", "Symmetric"}, range : Nat]
  /\ applied \in {"none", "failed", "Cone", "Symmetric"}

LEMMA NatInfoPreserved == ASSUME ModelInv, NatInfoInv, [Next]_vars PROVE NatInfoInv'
<1>1. CASE DetectInLoop
  <2>1. PICK result \in StunResults[nat] :
          /\ natInfo' = ApplyStunResult(result)
          /\ ApplyNatModel(StunLoop, result.type)
        BY <1>1 DEF DetectInLoop
  <2>2. result.type \in {"Cone", "Symmetric"} /\ result.range \in Nat
        BY ResultType, ResultRange DEF NatInfoInv
  <2>3. natInfo' \in [type : {"Cone", "Symmetric"}, range : Nat]
        BY <2>1, <2>2 DEF ApplyStunResult, NatInfoInv
  <2>4. UNCHANGED <<nat, applied>>
        BY <1>1, <2>1 DEF DetectInLoop, ApplyNatModel
  <2> QED
      BY <2>3, <2>4 DEF NatInfoInv
<1>2. ASSUME NEW a \in Applier, DetectByHand(a) PROVE NatInfoInv'
      BY <1>2 DEF DetectByHand, ApplyNatModel, NatInfoInv
<1>3. CASE ApplyStep /\ UNCHANGED <<bind, roundVars, nat, natInfo>>
  <2>1. PICK a \in Applier : LockModel(a) \/ AddAssistant(a) \/ AddFails(a) \/ ApplyDone(a)
        BY <1>3 DEF ApplyStep
  <2>2. applier[a].type \in {"Cone", "Symmetric"}
        BY DEF ModelInv
  <2>3. applied' \in {applied, "failed", applier[a].type}
        BY <2>1 DEF LockModel, AddAssistant, AddFails, ApplyDone, Unlock
  <2> QED
      BY <1>3, <2>2, <2>3 DEF NatInfoInv
<1>4. CASE UNCHANGED <<assistantVars, nat, natInfo>>
      BY <1>4 DEF assistantVars, NatInfoInv
<1> QED
    BY <1>1, <1>2, <1>3, <1>4 DEF Next, vars, StartNode

\* Sockets, calls of apply_nat_model, rounds, the port cursor and what a NAT
\* test reports stay within their types (TypeOK): no more assistants than
\* max_assistant_sockets, a cursor inside shuffled_ports.
THEOREM NodeTypes == Spec => []TypeOK
<1> DEFINE NodeInv == BindInv /\ ModelInv /\ ScanInv /\ NatInfoInv
<1>1. Init => NodeInv
  <2> SUFFICES ASSUME Init PROVE NodeInv
      OBVIOUS
  <2>1. BindInv
        BY BindStarts DEF Init
  <2>2. ModelInv
        BY ModelStarts
  <2>3. ScanInv
        BY ScanStarts
  <2>4. NatInfoInv
        BY DEF Init, PuncherInit, NatInfoInv
  <2> QED
      BY <2>1, <2>2, <2>3, <2>4
<1>2. NodeInv /\ [Next]_vars => NodeInv'
      BY BindPreserved, ModelPreserved, ScanPreserved, NatInfoPreserved
<1>3. NodeInv => TypeOK
      BY DEF BindInv, ModelInv, ScanInv, NatInfoInv, TypeOK, PuncherTypeOK
<1> QED
    BY <1>1, <1>2, <1>3, PTL DEF Spec
=============================================================================
