SPECIFICATION FairSpec
CONSTANTS
    p1 = p1
    p2 = p2
    Proc = {p1}
    Gui = Gui
    Command = Command
    Editor = Editor
    NoOne = NoOne
    Kinds <- KindsOf
    SkipsFirst = {FALSE}
    MaxEvents = 1
CHECK_DEADLOCK FALSE
PROPERTIES
    RequestServed
