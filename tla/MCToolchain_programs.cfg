SPECIFICATION Spec
CONSTANTS
    Programs <- AllPrograms
INVARIANTS
    ParsedAsWritten
    RenamingKeepsBindings
    TreeIsWhole
    OnlyWellFormedRuns
    RunsAsReference
    StackHoldsWhatWaits
    EvaluatedCodeIsTakenOut
CHECK_DEADLOCK FALSE
