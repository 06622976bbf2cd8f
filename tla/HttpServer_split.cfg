SPECIFICATION Spec
CONSTANTS
    kCheapPrepend = 1
    kInitialSize = 20
    Zero = Zero
    URING_ENTRYS = 2
    MaxSubmitFails = 0
    MaxReadErrs = 0
    Scripts <- CutScripts
CHECK_DEADLOCK FALSE
INVARIANT AnyCutParses
