SPECIFICATION Spec
CONSTANTS
    PtblSize = 16
    KHALF = 64
    KHEAP = 48
    IO_START = 128
    VaTop = 144
    PGSIZE = 4
    Block = 8
    Kernel = 1
    OldPages <- MCOldPages
    Calls <- MCCalls
CHECK_DEADLOCK FALSE
INVARIANT ProgramsLoad
