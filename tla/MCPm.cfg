SPECIFICATION Spec
CONSTANTS
    MNGR_SIZE = 18
    Callers = {c1, c2}
    EKernel <- MCEKernel
    BootInfo <- SoundBoot
CONSTRAINT NoRace
INVARIANTS
    TypeOK
    FramesAccounted
    OnlyUsableMemory
PROPERTY
    AllocatorSpec
