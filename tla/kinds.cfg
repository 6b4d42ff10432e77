SPECIFICATION Spec
CONSTANTS
  a = a
  b = b
  z = z
  Undefined = Undefined
  Absent = Absent
  MaxId = 2
  Value = {a, b, z}
  Key = {1, 2}
  Group = {"g", "h"}
  Falsy = {z}
  Descs <- EveryKind
  MaxIndexes = 1
  MaxDepth = 1
CONSTRAINT UntilFirstFailure
INVARIANTS
  Sync
  QueriesAgree
PROPERTY
  AbortIsOrderly
