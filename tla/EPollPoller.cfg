CONSTANTS
    Channels = {c1, c2, c3}
    Fds = {fd1, fd2}
    None = none
SPECIFICATION Spec
INVARIANTS
    KernelMatchesIndex
    NeverFatal
    NoDanglingChannel
