\* Two descriptors and four slots, so a queue of two; a client is dead after
\* more than one period.  Modulus stands for 2^64.
SPECIFICATION Spec
CONSTANTS
    Fds = {f1, f2}
    NoClient = NoClient
    MaxClients = 4
    Period = 1
    NotAliveAfter = 1
    DefaultTimeout = 2
    MinCheck = 1
    Modulus = 16
    AgeCap = 2
    MaxLate = 0
    MaxSilence = 0
SYMMETRY FdSymmetry
INVARIANTS TypeOK UniqueSlots NoFalseClose OpenIsWatched Inv CheckedInTime
\* A stopped task does nothing more.
CHECK_DEADLOCK FALSE
