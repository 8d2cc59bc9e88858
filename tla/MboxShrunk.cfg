SPECIFICATION Spec
CONSTANTS
    F = F
    E = E
    x = x
    y = y
    z = z
    top = top
    inner = inner
    From = F
    Empty = E
    Word = {x, y, z}
    Box = {top}
    Inner = {}
    Contents <- ShrunkContents
    Tbird = {}
    MinSize = 6
    MaxSize = 10
    MaxChanges = 3
    NoBox = NoBox
    Nothing = Nothing
CHECK_DEADLOCK FALSE
INVARIANTS
    MessagesFound
