\* One start, and a stop with a session open.
SPECIFICATION Spec
CONSTANTS
    None = None
    MaxStarts = 1
    MaxSessions = 1
    MaxEvents = 1
INVARIANTS StopHalts
