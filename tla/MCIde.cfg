SPECIFICATION Spec
CONSTANTS
    NIDECMD = 2
    Clients = {c1, c2, c3}
    Sectors = {1, 2}
    Values = {0, 1}
    Calls <- MCCalls
    Disks <- MCDisks
    MaxCommands = 3
    MaxMishaps = 1
SYMMETRY Symmetry
CONSTRAINTS
    FewMishaps
    FewStarts
INVARIANTS
    TypeOK
    FirstInFirstOut
PROPERTY CommandsDoTheirWork
CHECK_DEADLOCK FALSE
