SPECIFICATION FairSpec
CONSTANTS
    f = f
    g = g
    File = {f, g}
    Count <- MCCount
    MaxElements = 2
    MaxUses = 3
    MaxTrouble = 2
    NoFile = NoFile
CHECK_DEADLOCK FALSE
PROPERTIES
    TimeIsLimited
