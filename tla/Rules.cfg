CONSTANTS
  x = x
  y = y
  a = a
  b = b
  N = 4
  Variables = {x, y}
  Literals = {a, b}
  Opaque = Opaque
  Undefined = Undefined
  Computed = Computed
  CodePathIds = {1, 2}
  MaxEvents = 3
  MaxWork = 9
  Threshold = 1
  IsFileComplexity = FALSE
  MaxOperators = 1
  MaxCases = 1
  MaxPoints = 2
  MaxPath = 4
SPECIFICATION MCSpec
INVARIANTS LiveSolved DeadStoresUnread StoresCollected NoFalseAlarm DefinitionsSolved   CountersRestored PointsCounted
PROPERTIES LiveAnalysisEnds EndsWithoutCopies
CHECK_DEADLOCK FALSE
