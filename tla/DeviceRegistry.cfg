\* Room for two devices of three, and for two capabilities of three.
SPECIFICATION Spec
CONSTANTS
    Ids = {d1, d2, d3}
    Labels = {kitchen}
    CapIds = {c1, c2, c3}
    Targets = {t1, t2}
    NoCommand = NoCommand
    MaxRecords = 2
    MaxCaps = 2
SYMMETRY Symmetry
INVARIANTS TypeOK StoredWellFormed Inv Prepared RetryIsHarmless
PROPERTIES Implements CapabilitiesKept
