CONSTANTS
    Base = base
    io1 = io1
    io2 = io2
    IoLoops <- TwoIoLoops
    MaxConns = 2
SPECIFICATION Spec
INVARIANTS
    ChannelOwned
    EstablishedFirst
    CallbacksPaired
    RoundRobin
PROPERTIES
    Reclaimed
