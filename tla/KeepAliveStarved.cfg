\* One client talks without end, the other is gone; fairness for the task, time and closing sessions.
SPECIFICATION FairSpec
CONSTANTS
    Fds = {f1, f2}
    NoClient = NoClient
    MaxClients = 2
    Period = 1
    NotAliveAfter = 1
    DefaultTimeout = 2
    MinCheck = 1
    Modulus = 16
    AgeCap = 2
    MaxLate = 0
    MaxSilence = 0
PROPERTY UnresponsiveIsRemoved
CHECK_DEADLOCK FALSE
