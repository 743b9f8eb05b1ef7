CONSTANTS
    MaxFrames = 1
    MaxItems = 1
    MaxCallbacks = 1
    Programs <- CleanPrograms
SPECIFICATION Spec
INVARIANTS
    TypeOK
    NoDangling
PROPERTY GarbageIsFreed
CHECK_DEADLOCK FALSE
