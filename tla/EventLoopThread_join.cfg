CONSTANTS
    Owner = o1
    Foreign = {o1}
    LoopThread = lt
    Functors = {f1, f2}
SPECIFICATION TSpec
PROPERTY JoinReturns
