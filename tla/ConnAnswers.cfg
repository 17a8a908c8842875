SPECIFICATION Spec
CONSTANTS
  w1 = w1
  w2 = w2
  c1 = c1
  c2 = c2
  Nobody = Nobody
  Workers = {w1}
  Conns = {c1, c2}
  PoolSize = 1
  BufSize = 3
  ReqSize = 2
  RespSize = 2
  SndBuf = 1
  Pipelined = FALSE
  MaxSent = 4
PROPERTY
  RequestAnswered
CHECK_DEADLOCK FALSE
