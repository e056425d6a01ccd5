--------------------------- MODULE MCTunnelActors ---------------------------
\* Two keys, three tunnels, two sending tasks.
EXTENDS TunnelActors
=============================================================================
