SPECIFICATION Spec
CONSTANTS
  Process = {p1, p2, p3}
  Version = {v1, v2}
  MaxDeploys = 4
  NoOne = NoOne
  Absent = Absent
  Empty = Empty
INVARIANTS ExtractionIsolated VersionVouches
SYMMETRY Symmetry
CHECK_DEADLOCK FALSE
