SPECIFICATION Spec
CONSTANTS
    f1 = f1
    f2 = f2
    k1 = k1
    Files = {f1, f2}
    Kids = {k1}
    Parent <- MCParent
    Versions = {1, 2}
    Parts <- MCParts
    Beneath <- MCBeneath
    InternWorkers = {i1, i2}
    SplitWorkers = {s1, s2}
    InternHigh = 1
    SplitHigh = 1
    WriteHigh = 1
    Faults = {"interrupt"}
    MaxPasses = 2
    NoFile = NoFile
    NoDoc = NoDoc
INVARIANT RestartRestores
