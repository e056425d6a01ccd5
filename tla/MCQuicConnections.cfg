SPECIFICATION QuicSpec
CONSTANTS
  Target = {peer, route}
  Via = {route}
  Addr = {a1, a2}
  Caller = {c1, c2}
  Loop = loop
  Reader = {r1, r2}
  Task = {c1, c2, loop, r1, r2}
  None = None
  MaxConns = 2
INVARIANTS
  CachedReaches
PROPERTIES
  ImplementsBook
  LiveStaysCached
SYMMETRY Sym
CHECK_DEADLOCK FALSE
