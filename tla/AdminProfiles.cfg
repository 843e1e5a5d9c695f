SPECIFICATION ProfileSpec
CONSTANTS
    Values = {v1, v2, v3}
    None = None
    Torn = Torn
    MaxCrashes = 2
    MaxOutages = 1
INVARIANTS
    ProfileNeverDangles
    ActiveIsReachable
PROPERTIES
    ImplementsAtomicPointer
CHECK_DEADLOCK FALSE
