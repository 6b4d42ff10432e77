SPECIFICATION Spec
CONSTANTS
  a = a
  b = b
  z = z
  Undefined = Undefined
  Absent = Absent
  MaxId = 1
  Value = {a, b}
  Key = {1, 2}
  Group = {"g", "h"}
  Falsy = {}
  Descs <- WithGroups
  MaxIndexes = 2
  MaxDepth = 1
INVARIANTS
  TypeOK
  NoEmptyBuckets
  DamageIsLocal
PROPERTIES
  Settles
