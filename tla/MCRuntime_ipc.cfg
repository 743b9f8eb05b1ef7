CONSTANTS
  MaxProcs = 3
  MaxQueues = 1
  MaxTimers = 0
  MaxImages = 0
  MaxConts = 0
  FStackCap = 0
  PhaseLength = 1
  Values = {"a", "b"}
  Capacities = {2}
  Timeouts = {0, 1}
  Delays = {}
SPECIFICATION Spec
INVARIANTS QueueDiscipline BlockedHasOneWaiter
PROPERTIES ImplementsQueues
