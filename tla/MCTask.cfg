SPECIFICATION Spec
CONSTANTS
    MaxTasks = 5
    TidSpan = 4
    Forkers = {1, 2}
    Shells = {}
    Exiters = {2, 3}
    MaxMishaps = 1
CONSTRAINTS
    FewMishaps
    LastWraps
INVARIANTS
    TypeOK
    ContextSafe
    NoneStranded
    ChildComplete
    NoLostWakeup
    ParentKnows
PROPERTY
    ProcessesSpec
