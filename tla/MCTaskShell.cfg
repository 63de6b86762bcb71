SPECIFICATION FairSpec
CONSTANTS
    MaxTasks = 5
    TidSpan = 6
    Forkers = {1}
    Shells = {1}
    Exiters = {2, 3, 4}
    MaxMishaps = 2
CONSTRAINT FewMishaps
INVARIANT ShellRing
PROPERTIES
    EveryoneIsServed
    
