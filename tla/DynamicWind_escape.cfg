SPECIFICATION Spec
CONSTANTS
  Values = {v}
  MaxEntries = 2
  MaxConts = 1
  MaxOperands = 0
  MaxJumps = 1
CHECK_DEADLOCK FALSE
INVARIANT AftersRunInnermostFirst
