SPECIFICATION Spec
CONSTANTS
    MaxTasks = 2
    TidSpan = 256
    Forkers = {1}
    Shells = {}
    Exiters = {2}
    MaxMishaps = 1
CONSTRAINT FewMishaps
INVARIANT ResumedFromOwnStack
