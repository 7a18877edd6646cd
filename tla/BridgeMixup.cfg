SPECIFICATION Spec
CONSTANTS
  N = 3
  Kinds = {"work", "status", "close", "oversized"}
INVARIANT EveryAnswerIsOwn
CHECK_DEADLOCK FALSE
