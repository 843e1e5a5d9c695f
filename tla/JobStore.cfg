\* One job, two clients that may both claim to be its target, two payloads under
\* one request id; both leases shorter than the job's life.
SPECIFICATION FairSpec
CONSTANTS
    Jobs = {j1}
    Clients = {c1, c2}
    Payloads = {p1, p2}
    JobTTL = 4
    DeliveryLease = 2
    StartLease = 1
    GrantValidity = 2
    MaxJobEvents = 3
    MaxRetained = 1
    EventBytes = {0, 1}
    MaxTime = 6
    MaxStarts = 2
    MaxDeliveries = 3
INVARIANTS RedeliveryStartsClean LogAgreesWithRow
PROPERTIES ImplementsLifecycle EventuallyOver
