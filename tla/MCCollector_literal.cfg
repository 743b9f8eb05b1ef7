CONSTANTS
    MaxFrames = 1
    MaxItems = 1
    MaxCallbacks = 1
    Programs <- LiteralPrograms
SPECIFICATION Spec
INVARIANT
    NoDangling
CHECK_DEADLOCK FALSE
