SPECIFICATION FairSpec
CONSTANTS
    f1 = f1
    f2 = f2
    k1 = k1
    k2 = k2
    Files = {f1, f2}
    Kids = {k1, k2}
    Parent <- MCParent
    MaxVersion = 4
    LastVersion <- MCLastVersion
    Parts <- MCParts
    Faults = {"interrupt", "early", "late", "write"}
CHECK_DEADLOCK FALSE
INVARIANTS
    UpdateIsExact
PROPERTIES
    HeldIsKept
    UpdatesSettle
