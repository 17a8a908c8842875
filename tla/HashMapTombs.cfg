SPECIFICATION Spec
CONSTANTS
  a = a
  b = b
  c = c
  d = d
  v1 = v1
  v2 = v2
  NoKey = NoKey
  NoVal = NoVal
  Keys = {a, b, c}
  Vals = {v1, v2}
  Cap = 4
  HashOf <- HashThree
  DibMod = 8
  SizeMod = 2
  Calls = {"insert", "delete"}
INVARIANTS
  DibIsDistance
  InsertedIsFound
SYMMETRY ValSymmetry
