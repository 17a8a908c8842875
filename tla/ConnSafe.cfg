SPECIFICATION Spec
CONSTANTS
  w1 = w1
  w2 = w2
  c1 = c1
  c2 = c2
  Nobody = Nobody
  Workers = {w1, w2}
  Conns = {c1, c2}
  PoolSize = 2
  BufSize = 4
  ReqSize = 2
  RespSize = 2
  SndBuf = 1
  Pipelined = TRUE
  MaxSent = 4
INVARIANTS
  TypeOK
  OwnContext
  ArmedForState
  ClosedByClient
SYMMETRY ConnSymmetry
CHECK_DEADLOCK FALSE
