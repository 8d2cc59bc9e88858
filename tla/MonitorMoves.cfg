SPECIFICATION Spec
CONSTANTS
    f0 = f0
    f1 = f1
    f2 = f2
    d1 = d1
    d2 = d2
    Files = {f2}
    Dirs = {d1, d2}
    Top = top
    Home <- MCHome
    Beneath <- MCBeneath
    Delayed = {}
    Interval = 1
    MaxChanges = 4
    None = None
INVARIANT QuietMeansExact
