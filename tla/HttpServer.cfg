SPECIFICATION Spec
CONSTANTS
    kCheapPrepend = 1
    kInitialSize = 20
    Zero = Zero
    URING_ENTRYS = 2
    MaxSubmitFails = 2
    MaxReadErrs = 1
    Scripts <- AllScripts
CHECK_DEADLOCK FALSE
INVARIANTS ParsedAsSent BufferIsQueue AnswersInTurn ReadsAccounted
PROPERTY Answered
