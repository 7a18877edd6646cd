SPECIFICATION FairSpec
CONSTANTS
  N = 3
  Kinds = {"work", "status", "close", "oversized"}
INVARIANTS OwnResult ListenersAreServed WatchdogArmed
PROPERTIES KeepsPromise EveryCallReturns ShutdownCompletes
CHECK_DEADLOCK FALSE
