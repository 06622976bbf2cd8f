CONSTANTS
    Users = {u1}
    MsgLens = {2}
    MaxMsgs = 2
    HighWaterMark = 2
SPECIFICATION Spec
INVARIANTS
    StreamIntact
    WritingIffBuffered
    FinAfterData
    CompletionAnnounced
PROPERTIES
    BufferDrains
    ShutdownCompletes
    PeerCloseNoticed
