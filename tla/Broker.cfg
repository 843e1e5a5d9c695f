\* Two connections, one job delivered twice, compaction at every append.
SPECIFICATION Spec
CONSTANTS
    Jobs = {j1}
    Workers = {w1, w2}
    JobTTL = 2
    GrantValidity = 1
    RecordRetention = 2
    MarkerTTL = 1
    RequestBound = 1
    MaxReplayEntries = 2
    MaxLedger = 0
    MaxMarkers = 1
    MaxTime = 2
    MaxGrants = 2
    MaxLines = 3
    MaxCrashes = 1
SYMMETRY WorkerSymmetry
INVARIANTS AtMostOnce ResultsAreTrue
CHECK_DEADLOCK FALSE
