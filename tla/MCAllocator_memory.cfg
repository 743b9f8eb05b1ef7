SPECIFICATION Spec
CONSTANTS
    Total = 18
    HeapHeader = 1
    VmHeader = 1
    Classes <- ClassSizes
    MinBorder = 2
    MaxBorder = 15
    Step = 4
    Objects = {o1, o2, o3}
    Tables = {w1, w2, w3}
    ObjectSizes = {1, 3}
    TableSizes = {1, 4}
SYMMETRY Alike
INVARIANTS
    TypeOK
    AreasTiled
    HoldersKept
    RefusedOnlyWhenFull
PROPERTIES
    SafePointKeepsAll
    ImplementsMemory
