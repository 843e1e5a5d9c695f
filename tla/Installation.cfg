SPECIFICATION Spec
CONSTANTS
    MaxAttempts = 2
    Modes = {"managed", "external"}
    MaxFaults = 3
INVARIANTS
    PublishedIsWhole
    RetiredIsClean
    HostIsNotStranded
    ResetCanResume
    ServerIsWhole
PROPERTIES
    ForeignIsKept
CHECK_DEADLOCK FALSE
