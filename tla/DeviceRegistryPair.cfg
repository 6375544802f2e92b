\* Pairing answered with success, and no such device in the registry.
SPECIFICATION Spec
CONSTANTS
    Ids = {d1, d2}
    Labels = {kitchen}
    CapIds = {c1}
    Targets = {t1}
    NoCommand = NoCommand
    MaxRecords = 1
    MaxCaps = 1
INVARIANT PairedIsRegistered
