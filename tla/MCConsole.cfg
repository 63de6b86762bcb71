SPECIFICATION Spec
CONSTANTS
    VGA_WIDTH = 3
    VGA_HEIGHT = 2
    Tab = 2
    Graphic = {" ", "a"}
    Other = {"nul"}
    Blank = " "
    t1 = t1
    t2 = t2
    Tasks <- MCTasks
    MaxPuts = 5
    MaxMishaps = 1
SYMMETRY TaskSymmetry
CONSTRAINT FewMishaps
INVARIANTS
    TypeOK
    CursorOnScreen
    OwnDevice
PROPERTY ShowsTheText
