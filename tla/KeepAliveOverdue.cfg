\* The wait after a client has missed its period, in the smallest table.
SPECIFICATION Spec
CONSTANTS
    Fds = {f1, f2}
    NoClient = NoClient
    MaxClients = 2
    Period = 1
    NotAliveAfter = 1
    DefaultTimeout = 2
    MinCheck = 1
    Modulus = 16
    AgeCap = 2
    MaxLate = 0
    MaxSilence = 0
PROPERTY OverdueWaitsMinimum
CHECK_DEADLOCK FALSE
