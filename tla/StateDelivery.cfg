\* Two clients that come and go, one change of each announced field, a
\* queue that may fill up; both tasks go on.
SPECIFICATION FairSpec
CONSTANTS
    Fds = {f1, f2}
    NoFd = NoFd
    MaxChanges = 1
    MaxCounts = 3
    MaxSets = 4
    MaxWork = 2
INVARIANTS TypeOK NoChangeMissed Inv StaleIffOvertaken
PROPERTY SnapshotAfterUpgrade
