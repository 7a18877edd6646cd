SPECIFICATION Spec
CONSTANTS
  Process = {p1}
  Version = {v1, v2}
  MaxDeploys = 4
  NoOne = NoOne
  Absent = Absent
  Empty = Empty
INVARIANT WritesItsVersion
SYMMETRY Symmetry
CHECK_DEADLOCK FALSE
