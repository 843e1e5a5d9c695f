SPECIFICATION ReadingSpec
CONSTANTS
    Clients = {i1, i2}
    Streams = {s1, s2}
    Capacity = 1
INVARIANTS
    RegisteredIsRunning
PROPERTIES
    RevokedIsDisconnected
CHECK_DEADLOCK FALSE
