SPECIFICATION Spec
CONSTANTS
  s1 = s1
  s2 = s2
  c1 = c1
  c2 = c2
  Nobody = Nobody
  Servers = {s1, s2}
  Clients = {c1, c2}
  MaxServer = 1
  SockBuf = 1
INVARIANTS
  TypeOK
  OnlyServersStayOpen
  AckedIsRegistered
  NotRefusedAfterAck
PROPERTY
  HandshakeReturns
CHECK_DEADLOCK FALSE
