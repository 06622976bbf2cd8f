CONSTANTS
    Owner = o1
    Foreign = {o1, t1}
    LoopThread = lt
    Functors = {f1, f2, f3}
SPECIFICATION TSpec
INVARIANTS
    NoLostWakeup
    NoLostQuit
    PublishedLoopAlive
    DtorLeavesNoThread
PROPERTIES
    Refines
    QueuedRuns
    QuitEndsLoop
    StartReturns
