CONSTANTS
    Base = base
    io1 = io1
    io2 = io2
    IoLoops <- TwoIoLoops
    MaxConns = 2
SPECIFICATION Spec
INVARIANTS
    OneThreadPerPoller
