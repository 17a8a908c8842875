SPECIFICATION Spec
CONSTANTS
  w1 = w1
  w2 = w2
  r1 = r1
  r2 = r2
  r3 = r3
  NoReq = NoReq
  Writers = {w1}
  Reqs = {r1, r2}
  Cap = 4
  MaxWrites = 9
  MaxReads = 9
INVARIANT
  UnreadKept
CHECK_DEADLOCK FALSE
