\* One job delivered twice over two streams; one death of the daemon or of the broker.
SPECIFICATION Spec
CONSTANTS
    Jobs = {j1}
    Client = c1
    Payload = p1
    Workers = {w1, w2}
    JobTTL = 2
    DeliveryLease = 1
    StartLease = 2
    GrantValidity = 1
    RecordRetention = 2
    MarkerTTL = 1
    RequestBound = 1
    RoundTripTimeout = 1
    MaxReplayEntries = 2
    MaxLedger = 2
    MaxMarkers = 1
    MaxTime = 3
    MaxDeliveries = 2
    MaxLines = 3
    MaxStreams = 2
    MaxDeaths = 1
SYMMETRY WorkerSymmetry
INVARIANTS SucceededIsTrue
PROPERTY ImplementsBroker
CHECK_DEADLOCK FALSE
