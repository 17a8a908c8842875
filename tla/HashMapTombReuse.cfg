SPECIFICATION Spec
CONSTANTS
  a = a
  b = b
  c = c
  d = d
  v1 = v1
  v2 = v2
  NoKey = NoKey
  NoVal = NoVal
  Keys = {a, b, c, d}
  Vals = {v1}
  Cap = 8
  HashOf <- HashDeep
  DibMod = 16
  SizeMod = 16
  Calls = {"insert", "get", "delete"}
INVARIANT
  LiveKeyFound
