-------------------------- MODULE MCProtocolTasks --------------------------
\* One tunnel key, or two; channels of capacity one.
EXTENDS ProtocolTasks

CONSTANTS k1, k2, c1, c2

MCBootstrapKey == [c \in Caller |-> IF c = c1 THEN k1 ELSE k2]
=============================================================================
