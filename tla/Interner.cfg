SPECIFICATION FairSpec
CONSTANTS
    Node = {"t1", "t2", "t3", "t4", "t5", "t6", "t7", "t8", "p1", "p2", "p3", "x1", "b1", "m1", "m2", "z1", "z2", "z3", "z4", "f1"}
    Kind <- MCKind
    Kids <- MCKids
    Good = {"t1", "t2", "t3", "t4", "t5", "t6", "t7", "t8", "p1", "p2", "p3", "x1", "m1", "m2", "z1", "z2", "z3", "z4", "f1"}
    Unwanted = {"x1"}
    Roots = {"p1", "p3", "m2", "z2", "z3", "z4", "f1"}
    MaxHandlers = 4
    MaxLoops = 3
    MaxChanges = 2
    Nothing = Nothing
CHECK_DEADLOCK FALSE
INVARIANTS
    IndexIsExact
    PreviewIsExact
    TempFilesMatch
PROPERTIES
    AlwaysEnds
