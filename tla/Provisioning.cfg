\* Two networks, one with an SSID of 32 characters, and a short event queue.
SPECIFICATION Spec
CONSTANTS
    Credentials = {home, long}
    Long = {long}
    AttachedRoles = {child}
    None = None
    MaxEvents = 3
INVARIANTS TypeOK StoredIsWhole OkIsStored OrderAccepted StateIsCurrent ApStaysUp
PROPERTIES ConnectsToOneNetwork
