SPECIFICATION Spec
CONSTANTS
  k1 = k1
  s1 = s1
  t1 = t1
  v1 = v1
  NoVal = NoVal
  Callers = {t1}
  Keys = {k1}
  Vals = {v1}
  Shards = {s1}
  ShardOf <- MCShardOf
  Cap = 4
  IdxMod = 16
  ArenaSize = 2
  MaxCalls = 1
PROPERTY
  GetReturns
CHECK_DEADLOCK FALSE
