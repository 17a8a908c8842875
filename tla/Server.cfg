SPECIFICATION Spec
CONSTANTS
  w1 = w1
  w2 = w2
  a = a
  b = b
  v1 = v1
  v2 = v2
  NoKey = NoKey
  Bare = {"PUT"}
  NoVal = NoVal
  Garbled = Garbled
  Nobody = Nobody
  Workers = {w1, w2}
  Keys = {a}
  Vals = {v1}
  MayFailOpen = TRUE
  MaxRequests = 3
  MaxCrashes = 1
  MaxFails = 1
  MaxTime = 1
INVARIANTS
  TypeOK
  NoHandlerDuringReplay
  LogMatchesMap
  SeenIsLogged
  AckedIsLogged
  UnsyncedIsRecent
PROPERTY
  RequestAnswered
CHECK_DEADLOCK FALSE
