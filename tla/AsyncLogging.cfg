CONSTANTS
    kLargeBuffer = 3
    Lens = {1, 2}
    MaxLines = 3
    MaxFails = 1
    MaxTime = 3
    rollsize_ = 2
    flushInterval_ = 1
    checkEveryN_ = 2
    kRollPerSeconds_ = 2
SPECIFICATION Spec
INVARIANTS
    LogIntact
    BuffersSuffice
    FullBufferNoticed
    FilesBounded
PROPERTIES
    LineWritten
