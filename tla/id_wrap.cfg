SPECIFICATION Spec
CONSTANTS
  a = a
  b = b
  z = z
  Undefined = Undefined
  Absent = Absent
  MaxId = 2
  Value = {a, b, z}
  Key = {1, 2}
  Group = {"g", "h"}
  Falsy = {z}
  Descs <- TwoUnique
  MaxIndexes = 0
  MaxDepth = 0
PROPERTY
  IdsAreUnique
