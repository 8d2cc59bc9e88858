SPECIFICATION FairSpec
CONSTANTS
    f0 = f0
    f1 = f1
    f2 = f2
    d1 = d1
    d2 = d2
    Files = {f0, f1, f2}
    Dirs = {d1}
    Top = top
    Home <- MCHome
    Beneath <- MCBeneath
    Delayed = {f0, f2}
    Interval = 1
    MaxChanges = 2
    None = None
INVARIANTS
    DelaysMatchQueue
    QuietMeansExact
PROPERTIES
    MonitorSettles
