\* The last snapshot a client got may be an old one.
SPECIFICATION Spec
CONSTANTS
    Fds = {f1}
    NoFd = NoFd
    MaxChanges = 1
    MaxCounts = 3
    MaxSets = 4
    MaxWork = 2
INVARIANT LastSnapshotIsCurrent
