SPECIFICATION Spec
CONSTANTS
  Gateways = {g1, g2}
  South = {s1, s2}
  North = {n1}
  BufferSize = 1
  MaxFetches = 2
  FaultSets = {{"overlap"}, {"hasty", "reorder"}}
  None = None
SYMMETRY PageSymmetry
INVARIANTS ReadsOpen ListedIsActive PageAgrees
CHECK_DEADLOCK FALSE
