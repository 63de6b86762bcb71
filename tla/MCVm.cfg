SPECIFICATION Spec
CONSTANTS
    PtblSize = 16
    KHALF = 64
    KHEAP = 48
    IO_START = 128
    VaTop = 144
    MaxTasks = 3
    MaxExecs = 1
    Pages = 2
    Values = {0, 1}
    Machines <- MCMachines
    MaxMishaps = 1
    MaxWritten = 2
CONSTRAINTS
    FewMishaps
    FewWritten
INVARIANTS
    TypeOK
    KernelMapped
    TablesAreClosed
    StacksApart
 
