SPECIFICATION Spec
CONSTANTS
  Half = {0, 1}
  Item = {"v", "w"}
  Absent = Absent
INVARIANTS
  TypeOK
  EmptyMeansEmpty
PROPERTIES
  KeepsPromise
  ForEachEnds
