SPECIFICATION Spec
CONSTANTS
  Values = {v}
  MaxEntries = 3
  MaxConts = 2
  MaxOperands = 1
  MaxJumps = 2
CONSTRAINT Affordable
CHECK_DEADLOCK FALSE
INVARIANTS TypeOK WindStackMatchesFrames AfterStackMatchesFrames BaseInBounds
PROPERTIES ExtentsCrossedInOrder RestoredInItsExtents
