SPECIFICATION FairSpec
CONSTANTS
    LapicId = 0
    BufSize = 3
    MaxKeys = 4
    MaxMishaps = 1
    r1 = r1
    r2 = r2
    Readers <- MCReaders
CONSTRAINT FewMishaps
INVARIANTS
    TypeOK
    NoKeyLost
    Routed
PROPERTY LineArrives
