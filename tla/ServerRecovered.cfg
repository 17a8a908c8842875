SPECIFICATION Spec
CONSTANTS
  w1 = w1
  w2 = w2
  a = a
  b = b
  v1 = v1
  v2 = v2
  NoKey = NoKey
  Bare = {"PUT"}
  NoVal = NoVal
  Garbled = Garbled
  Nobody = Nobody
  Workers = {w1}
  Keys = {a}
  Vals = {v1}
  MayFailOpen = FALSE
  MaxRequests = 2
  MaxCrashes = 1
  MaxFails = 0
  MaxTime = 0
INVARIANT
  RecoveredIsReadable
CHECK_DEADLOCK FALSE
