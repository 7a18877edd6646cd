SPECIFICATION MCSpec
CONSTANTS
  MaxProc = 3
  Interval = 3
  Timeout = 10
  MaxLate = 2
  MaxServe = 2
  NoTime = NoTime
  MaxTime = 20
  MaxOpen = 2
INVARIANTS HeartbeatKept KeptAlive
PROPERTIES CleanReaps OrphanEnds
CHECK_DEADLOCK FALSE
