\* A server that is stopped and started again.
SPECIFICATION FairSpec
CONSTANTS
    None = None
    MaxStarts = 2
    MaxSessions = 1
    MaxEvents = 1
INVARIANTS TypeOK ServerIsWhole NoTaskForgotten ServerFollowsAp OnlyRiskyStopsFault
PROPERTIES StoppedIsFreed
