SPECIFICATION Spec
CONSTANTS
  w1 = w1
  w2 = w2
  r1 = r1
  r2 = r2
  r3 = r3
  NoReq = NoReq
  Writers = {w1}
  Reqs = {r1, r2, r3}
  Cap = 4
  MaxWrites = 8
  MaxReads = 3
INVARIANTS
  TypeOK
  FirstLapRoom
PROPERTIES
  FalseMeansFull
  EveryIndexRead
  RefinesFifo
