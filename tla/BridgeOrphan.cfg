SPECIFICATION FairSpec
CONSTANTS
  N = 2
  Kinds = {"work", "status", "close", "oversized"}
PROPERTY OrphanShutsDown
CHECK_DEADLOCK FALSE
