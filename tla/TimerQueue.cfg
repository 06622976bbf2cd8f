CONSTANTS
    Addrs = {1, 2}
    MaxTimers = 3
    Delays = {0, 2}
    Intervals = {0, 1}
    MaxCallers = 1
    MaxCancels = 1
    MaxLate = 1
SPECIFICATION Spec
INVARIANTS
    OneOwner
    ArmedForEarliest
    CancelFinal
PROPERTIES
    OnlyOwnCancel
    Fires
