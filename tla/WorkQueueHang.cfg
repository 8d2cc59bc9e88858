SPECIFICATION FairSpec
CONSTANTS
    Workers = {w1, w2, w3}
    Clients = {main}
    Main = main
    Tasks = {t1, t2}
    High = 1
    Low = 1
    NoTask = NoTask
CHECK_DEADLOCK FALSE
PROPERTIES
    WaitIdleAlwaysComesBack
