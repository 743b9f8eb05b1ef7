CONSTANTS
  MaxProcs = 2
  MaxQueues = 0
  MaxTimers = 2
  MaxImages = 1
  MaxConts = 1
  FStackCap = 1
  PhaseLength = 2
  Values = {"a"}
  Capacities = {}
  Timeouts = {}
  Delays = {0, 1}
SPECIFICATION Spec
INVARIANTS TypeOK KilledIsInert IdleMeansDone
PROPERTIES HaltIsFinal KilledForever
