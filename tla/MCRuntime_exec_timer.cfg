CONSTANTS
  MaxProcs = 1
  MaxQueues = 0
  MaxTimers = 1
  MaxImages = 1
  MaxConts = 0
  FStackCap = 1
  PhaseLength = 1
  Values = {"a"}
  Capacities = {}
  Timeouts = {}
  Delays = {1}
SPECIFICATION Spec
INVARIANTS TimerCallbackExists
