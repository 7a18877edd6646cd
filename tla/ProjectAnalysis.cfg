CONSTANTS
  f1 = f1
  f2 = f2
  t1 = t1
  t2 = t2
  d1 = d1
  d2 = d2
  Analyses = {d1, d2}
  Files = {f1, f2}
  TsConfigs = {t1, t2}
  Generated = Generated
  None = None
  MaxFiles = 2
  MaxDepth = 3
SPECIFICATION MCSpec
INVARIANTS ProgramsReleased EachFileOnce TypedWhenPossible LinterReady
PROPERTY EveryAnalysisEnds
CHECK_DEADLOCK FALSE
