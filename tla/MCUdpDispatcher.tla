-------------------------- MODULE MCUdpDispatcher --------------------------
\* One main socket and two assistants that are given the same port.
EXTENDS UdpDispatcher

CONSTANTS m, a1, a2, lm, la

MCReader  == {m, a1, a2}
MCLocalOf == [r \in MCReader |-> IF r = m THEN lm ELSE la]
=============================================================================
