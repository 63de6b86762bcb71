SPECIFICATION Spec
CONSTANTS
    NTasks = 2
    Vectors = {3, 13, 14, 32}
    MaxDepth = 2
    TssAddress <- MCTssAddress
    TssSize = 104
INVARIANTS
    TypeOK
    Protected
PROPERTY Transparent
