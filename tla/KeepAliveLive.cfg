\* Liveness: no symmetry, the smallest table and queue.
SPECIFICATION FairSpec
CONSTANTS
    Fds = {f1, f2}
    NoClient = NoClient
    MaxClients = 2
    Period = 1
    NotAliveAfter = 1
    DefaultTimeout = 2
    MinCheck = 1
    Modulus = 16
    AgeCap = 2
    MaxLate = 1
    MaxSilence = 7
INVARIANT SilenceIsBounded
PROPERTY SilenceEmptiesTable
CHECK_DEADLOCK FALSE
