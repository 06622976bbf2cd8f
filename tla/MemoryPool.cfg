SPECIFICATION Spec
CONSTANTS
    Threads = {t1, t2, t3}
    BlockSize_ = 7
    SlotSize_ = 2
    PtrSize = 1
    Bases = {10, 21}
CHECK_DEADLOCK FALSE
SYMMETRY ThreadSymmetry
INVARIANTS SlotsDisjoint SlotsAccounted
