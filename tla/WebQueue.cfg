SPECIFICATION FairSpec
CONSTANTS
    page1 = page1
    page2 = page2
    page3 = page3
    Udi = {page1, page2, page3}
    NoUdi = NoUdi
    Hash <- MCHash
    Sizes <- MCSizes
    MaxVersion = 2
    MaxSizes = {4, 6}
    FirstSize = 4
    MaxSaves = 3
    MaxWaiting = 2
    MaxEvents = 3
CHECK_DEADLOCK FALSE
INVARIANTS
    ChainClosed
    MapExact
    RefusedOnlyAfterErase
    FullPassAgrees
PROPERTIES
    LeavesQueueCached
    ImplementsArchive
    QueueDrains
