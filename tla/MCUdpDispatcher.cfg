SPECIFICATION FairSpec
CONSTANTS
  m = m
  a1 = a1
  a2 = a2
  lm = lm
  la = la
  Local = {lm, la}
  Remote = {p}
  Main = {m}
  Reader <- MCReader
  LocalOf <- MCLocalOf
  TUNNEL_CHANNEL_CAPACITY = 1
  AcceptCapacity = 1
  MaxTunnels = 2
INVARIANTS
  TypeOK
  RegisteredIsHeld
  RegistrationHasReader
  HeldIsRegistered
  FirstDatagramKept
PROPERTY
  ReadersStop
CHECK_DEADLOCK FALSE
