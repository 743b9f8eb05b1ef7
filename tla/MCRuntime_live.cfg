CONSTANTS
  MaxProcs = 2
  MaxQueues = 1
  MaxTimers = 1
  MaxImages = 0
  MaxConts = 0
  FStackCap = 1
  PhaseLength = 1
  Values = {"a"}
  Capacities = {1}
  Timeouts = {1}
  Delays = {1}
SPECIFICATION FairSpec
INVARIANTS RunQueueExact
PROPERTIES BlockedIsReleased ReadyIsScheduled OneShotFires BlockedSceneIntact SleepIsUseful
