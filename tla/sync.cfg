SPECIFICATION Spec
CONSTANTS
  a = a
  b = b
  z = z
  Undefined = Undefined
  Absent = Absent
  MaxId = 2
  Value = {a, b, z}
  Key = {1, 2}
  Group = {"g", "h"}
  Falsy = {z}
  Descs <- LateConflicts
  MaxIndexes = 2
  MaxDepth = 2
CONSTRAINT UntilFirstFailure
INVARIANTS
  Sync
  UniqueKeys
PROPERTIES
  ConflictIsReal
  FreshIds
  OnlyConflictsAbort
  RefusalIsClean
  AbortIsOrderly
  RegisterRefusesClashes
  IsKeyedMap
