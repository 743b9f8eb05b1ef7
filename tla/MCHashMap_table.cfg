CONSTANTS
    Keys = {"a", "b", "c", "d", "e", "f"}
    Values = {u, v}
    Empty = "empty"
    Tombstone = "tombstone"
    Null = "null"
    Hash <- Hashes
    MinCapacity = 8
    MaxCapacity = 16
SYMMETRY Interchangeable
SPECIFICATION Spec
INVARIANTS TypeOK LookupExact CountersExact
PROPERTY ImplementsTable
