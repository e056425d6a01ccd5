----------------------------- MODULE MCCoreNode -----------------------------
(***************************************************************************)
(* Configurations with and without a port of their own, TCP and IPv6;      *)
(* three STUN servers, one of them with a second address and one on IPv6;  *)
(* two assistants; four ports to scan in parts of two or three packets.    *)
(***************************************************************************)
EXTENDS CoreNode

MCConfigs ==
  {c \in [udp : {0, 1}, tcpOn : BOOLEAN, tcp : {0, 2}, ipv6 : BOOLEAN, explicit6 : BOOLEAN] :
     /\ ~c.tcpOn => c.tcp = 0
     /\ ~c.ipv6 => ~c.explicit6}

MCServers ==
  <<[family |-> "v4", dest |-> 1], [family |-> "v4", dest |-> 3],
    [family |-> "v6", dest |-> 1]>>
MCChanged == [f \in Family |-> [d \in 1 .. 3 |-> IF f = "v4" /\ d = 1 THEN 2 ELSE 0]]

MCPeerInfo ==
  {[type |-> "Cone", ips |-> 1], [type |-> "Symmetric", ips |-> 0],
   [type |-> "Symmetric", ips |-> 1], [type |-> "Symmetric", ips |-> 2]}

Udp4 == {"IPv4Udp", "IPv4Tcp"}
Udp6 == {"IPv6Udp", "IPv6Tcp"}
MCModel == {{Udp4 \cup Udp6}, {Udp4 \cup Udp6, Udp6}, {}}

=============================================================================
