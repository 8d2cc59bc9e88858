SPECIFICATION FairSpec
CONSTANTS
    p1 = p1
    p2 = p2
    Proc = {p1, p2}
    Gui = Gui
    Command = Command
    Editor = Editor
    NoOne = NoOne
    Kinds <- KindsOf
    SkipsFirst = {FALSE, TRUE}
    MaxEvents = 1
CHECK_DEADLOCK FALSE
INVARIANTS
    OneIndexer
    StopFindsIt
PROPERTIES
    StopEnds
    GuiCatchesUp
