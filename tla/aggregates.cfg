SPECIFICATION Spec
CONSTANTS
  Undefined = Undefined
  Absent = Absent
  NaN = NaN
  MaxId = 2
  Value = {1, 2, 3}
  Key = {1, 2, 3}
  Premaps <- TwoPremaps
  Results = {"f", "g"}
  MaxCalls = 3
INVARIANT
  FusionIsSound
