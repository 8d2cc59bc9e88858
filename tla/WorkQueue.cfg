SPECIFICATION FairSpec
CONSTANTS
    Workers = {w1, w2, w3}
    Clients = {main, c1}
    Main = main
    Tasks = {t1, t2, t3}
    High = 1
    Low = 1
    NoTask = NoTask
CHECK_DEADLOCK FALSE
INVARIANTS
    CountersMatchThreads
    EachTaskInOnePlace
    QueueBounded
    NoStrandedTask
    NoStuckPutter
PROPERTIES
    WaitIdleMeansQuiet
    ImplementsPool
    WaitIdleComesBack
    PutComesBack
    TerminateComesBack
