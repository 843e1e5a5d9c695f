SPECIFICATION FairShellSpec
CONSTANTS
    Sessions = {s1}
    EagerOpen = TRUE
    InputLimit = 2
    OutputLimit = 1
    QueueLimit = 2
    MaxBreaks = 1
INVARIANTS
    EndedIsTold
PROPERTIES
    ShellsEnd
CHECK_DEADLOCK FALSE
