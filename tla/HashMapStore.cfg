SPECIFICATION Spec
CONSTANTS
  a = a
  b = b
  c = c
  d = d
  v1 = v1
  v2 = v2
  NoKey = NoKey
  NoVal = NoVal
  Keys = {a, b, c, d}
  Vals = {v1, v2}
  Cap = 4
  HashOf <- HashFour
  DibMod = 8
  SizeMod = 16
  Calls = {"insert", "get"}
INVARIANTS
  TypeOK
  DibIsDistance
  LiveKeyFound
  CountMatches
PROPERTIES
  RefinesKVMap
