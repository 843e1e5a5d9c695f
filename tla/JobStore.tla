------------------------------ MODULE JobStore ------------------------------
(***************************************************************************)
(* The server's job queue: the tables jobs and job_events and the code     *)
(* that writes them (crates/centrald-server/src/services.rs).              *)
(*                                                                         *)
(* Every operation below is one PostgreSQL transaction in the code (the    *)
(* row is taken FOR UPDATE before it is checked), so it is one action.     *)
(* Clients are not trusted: acknowledgements and events arrive with any    *)
(* content, from any client, at any time.                                  *)
(*                                                                         *)
(* A job row is keyed by (actor, request_id), the key of the ON CONFLICT   *)
(* clause; its kind, parameters and reason are one opaque payload.         *)
(***************************************************************************)
EXTENDS Integers, FiniteSets, Functions

CONSTANTS
    Jobs,            \* (actor_id, request_id) keys of job requests
    Clients,         \* client identities
    Payloads,        \* (kind, parameters, reason) of a request
    JobTTL,          \* runtime.job_ttl_seconds
    DeliveryLease,   \* JOB_DELIVERY_LEASE_SECONDS
    StartLease,      \* JOB_EXECUTION_START_LEASE_SECONDS
    GrantValidity,   \* JOB_GRANT_VALIDITY_SECONDS
    MaxJobEvents,    \* MAX_JOB_EVENTS
    MaxRetained,     \* MAX_JOB_RETAINED_OUTPUT_BYTES
    EventBytes,      \* sizes an event's output can have
    MaxTime,         \* bound: the clock stops here
    MaxStarts,       \* bound: start_job calls per request
    MaxDeliveries    \* bound: deliveries made in total

ASSUME JobTTLAssumption        == JobTTL \in Nat \ {0}
ASSUME DeliveryLeaseAssumption == DeliveryLease \in Nat \ {0}
ASSUME StartLeaseAssumption    == StartLease \in Nat \ {0}
ASSUME GrantValidityAssumption == GrantValidity \in Nat \ {0}
ASSUME EventLimitsAssumption   == /\ MaxJobEvents \in Nat \ {0}
                                  /\ MaxRetained \in Nat
                                  /\ EventBytes \subseteq Nat
ASSUME BoundsAssumption        == /\ MaxTime \in Nat
                                  /\ MaxStarts \in Nat
                                  /\ MaxDeliveries \in Nat

VARIABLES
    now,         \* the database's clock
    job,         \* jobs: one row per request, or "absent"
    events,      \* job_events: per job, a function from sequence to row
    deliveries,  \* delivery ids (and grants) made so far
    active,      \* identities that are activated and not revoked
    capable,     \* clients whose capabilities column lists typed_jobs
    starts       \* "job.start" audit rows per job

storeVars == <<now, job, events, deliveries, active, capable, starts>>

NULL == -1

Live      == {"queued", "dispatched", "acknowledged", "running"}
Terminal  == {"succeeded", "failed", "canceled", "timed_out"}
JobStates == Live \union Terminal

\* is_terminal_job_state
IsTerminal(state) == state \in Terminal

\* A row that INSERT has not created yet.
AbsentRow ==
    [state |-> "absent", target |-> NULL, payload |-> NULL, created |-> 0,
     expires |-> 0, delivery |-> NULL, lease |-> NULL, startBy |-> NULL]

Init ==
    /\ now = 0
    /\ job = [j \in Jobs |-> AbsentRow]
    /\ events = [j \in Jobs |-> << >>]
    /\ deliveries = 0
    /\ active = Clients
    /\ capable = {}
    /\ starts = [j \in Jobs |-> 0]

-----------------------------------------------------------------------------
\* SELECT over job_events of one job: MAX(sequence), COUNT, SUM, bool_or.

LastSequence(j) ==
    IF DOMAIN events[j] = {} THEN NULL
    ELSE CHOOSE n \in DOMAIN events[j] : \A m \in DOMAIN events[j] : m <= n

EventCount(j) == Cardinality(DOMAIN events[j])

RetainedBytes(j) ==
    FoldFunction(+, 0, [n \in DOMAIN events[j] |-> events[j][n].bytes])

TerminalSeen(j) == \E n \in DOMAIN events[j] : events[j][n].terminal

\* Slip: only the outcomes a client reports count as terminal.
EventRowClientOutcome(state, bytes) ==
    [state |-> state, bytes |-> bytes, terminal |-> state \in {"succeeded", "failed"}]

\* INSERT INTO job_events.
EventRow(state, bytes) ==
    [state |-> state, bytes |-> bytes, terminal |-> IsTerminal(state)]

WithEvent(j, n, row) ==
    [m \in DOMAIN events[j] \union {n} |-> IF m = n THEN row ELSE events[j][m]]

-----------------------------------------------------------------------------
\* handle_client_hello: the capabilities column is overwritten by what the
\* (re)connecting client announces.
HandleClientHello(c, typed) ==
    /\ c \in active
    /\ capable' = IF typed THEN capable \union {c} ELSE capable \ {c}
    /\ UNCHANGED <<now, job, events, deliveries, active, starts>>

\* revoke_identity, as far as jobs are concerned: rows stay as they are.
RevokeIdentity(c) ==
    /\ c \in active
    /\ active' = active \ {c}
    /\ UNCHANGED <<now, job, events, deliveries, capable, starts>>

\* start_job: inserts the row, or returns the existing one when the request
\* is the same; a different request under the same key is refused.  Both
\* successes append a job.start audit row.
StartJob(j, c, p) ==
    /\ c \in active
    /\ c \in capable
    /\ starts[j] < MaxStarts
    /\ now + JobTTL < MaxTime
    /\ \/ /\ job[j].state = "absent"
          /\ job' = [job EXCEPT ![j] =
                [state |-> "queued", target |-> c, payload |-> p,
                 created |-> now, expires |-> now + JobTTL,
                 delivery |-> NULL, lease |-> NULL, startBy |-> NULL]]
       \/ /\ job[j].state # "absent"
          /\ job[j].target = c
          /\ job[j].payload = p
          /\ UNCHANGED job
    /\ starts' = [starts EXCEPT ![j] = @ + 1]
    /\ UNCHANGED <<now, events, deliveries, active, capable>>

\* Slip: expired jobs are delivered until the next sweep.
ClaimableExpired(c) ==
    {j \in Jobs : job[j].state = "queued" /\ job[j].target = c}

\* The rows claim_next_job selects from, and the one ORDER BY created_at
\* LIMIT 1 leaves (any of those created at the same instant).
Claimable(c) ==
    {j \in Jobs : /\ job[j].state = "queued"
                  /\ job[j].target = c
                  /\ job[j].expires > now}

Oldest(S) == {j \in S : \A k \in S : job[j].created <= job[k].created}

\* The grant signed for the delivery being made, for the job's target; its
\* nonce is the delivery id.
NextGrant(j) ==
    [id |-> deliveries + 1, job |-> j, expires |-> now + GrantValidity]

\* claim_next_job.  The dispatch marker is event 0, inserted ON CONFLICT DO
\* NOTHING: a second delivery of the job leaves the first marker in place.
ClaimNextJob(c, j) ==
    /\ c \in capable
    /\ j \in Oldest(Claimable(c))
    /\ deliveries < MaxDeliveries
    /\ deliveries' = deliveries + 1
    /\ job' = [job EXCEPT ![j].state = "dispatched",
                          ![j].delivery = deliveries + 1,
                          ![j].lease = now + DeliveryLease]
    /\ events' = IF 0 \in DOMAIN events[j] THEN events
                 ELSE [events EXCEPT ![j] = WithEvent(j, 0, EventRow("dispatched", 0))]
    /\ UNCHANGED <<now, active, capable, starts>>

\* acknowledge_job_delivery: what it accepts (anything else is an error that
\* ends the control stream), and what it then does.
AckAccepted(c, j, d) ==
    /\ job[j].target = c
    /\ job[j].state = "dispatched"
    /\ job[j].delivery = d
    /\ job[j].lease > now
    /\ job[j].expires > now

AcknowledgeJobDelivery(c, j, d) ==
    /\ AckAccepted(c, j, d)
    /\ job' = [job EXCEPT ![j].state = "acknowledged",
                          ![j].delivery = NULL,
                          ![j].lease = NULL,
                          ![j].startBy = now + StartLease]
    /\ UNCHANGED <<now, events, deliveries, active, capable, starts>>

\* validate_job_event_shape: the terminal flag matches the state, and an exit
\* code other than zero belongs to an unsuccessful terminal event.
ValidateJobEventShape(state, terminal, exit) ==
    /\ terminal = IsTerminal(state)
    /\ exit # 0 => terminal /\ state # "succeeded"

\* validate_job_transition.
ValidateJobTransition(current, next) ==
    /\ current \in {"acknowledged", "running"}
    /\ next \in {"running", "succeeded", "failed"}

\* persist_job_event: what it accepts, and what it then does.
EventAccepted(c, j, e) ==
    /\ ValidateJobEventShape(e.state, e.terminal, e.exit)
    /\ job[j].state # "absent"
    /\ job[j].target = c
    /\ job[j].expires > now
    /\ job[j].state = "acknowledged" => job[j].startBy > now
    /\ ValidateJobTransition(job[j].state, e.state)
    /\ ~TerminalSeen(j)
    /\ ~IsTerminal(job[j].state)
    /\ e.sequence = LastSequence(j) + 1
    /\ EventCount(j) < MaxJobEvents
    /\ RetainedBytes(j) + e.bytes <= MaxRetained

PersistJobEvent(c, j, e) ==
    /\ EventAccepted(c, j, e)
    /\ events' = [events EXCEPT ![j] = WithEvent(j, e.sequence, EventRow(e.state, e.bytes))]
    /\ job' = [job EXCEPT ![j].state = e.state, ![j].startBy = NULL]
    /\ UNCHANGED <<now, deliveries, active, capable, starts>>

\* maintenance_once, its three statements on jobs (one transaction, one
\* NOW()): a lapsed delivery and a lapsed start go back to the queue, an
\* expired job times out and gets the terminal event after its last one.
LapsedDelivery(row) ==
    row.state = "dispatched" /\ row.lease <= now /\ row.expires > now

\* Slip: a job that runs is put back as well.
LapsedStartOrRunning(row) ==
    row.state \in {"acknowledged", "running"} /\ row.startBy <= now /\ row.expires > now

LapsedStart(row) ==
    row.state = "acknowledged" /\ row.startBy <= now /\ row.expires > now

\* Slip: acknowledged jobs do not expire.
ExpiredUnacknowledged(row) ==
    row.state \in {"queued", "dispatched", "running"} /\ row.expires <= now

Expired(row) == row.state \in Live /\ row.expires <= now

Swept(row) ==
    IF LapsedDelivery(row)
    THEN [row EXCEPT !.state = "queued", !.delivery = NULL, !.lease = NULL]
    ELSE IF LapsedStart(row)
    THEN [row EXCEPT !.state = "queued", !.startBy = NULL]
    ELSE IF Expired(row)
    THEN [row EXCEPT !.state = "timed_out", !.delivery = NULL, !.lease = NULL,
                     !.startBy = NULL]
    ELSE row

\* COALESCE((SELECT MAX(sequence) + 1 ...), 0)
TimeoutSequence(j) == LastSequence(j) + 1

MaintenanceOnce ==
    /\ job' = [j \in Jobs |-> Swept(job[j])]
    /\ events' = [j \in Jobs |->
                    IF Expired(job[j])
                    THEN WithEvent(j, TimeoutSequence(j), EventRow("timed_out", 0))
                    ELSE events[j]]
    /\ UNCHANGED <<now, deliveries, active, capable, starts>>

Tick ==
    /\ now < MaxTime
    /\ now' = now + 1
    /\ UNCHANGED <<job, events, deliveries, active, capable, starts>>

-----------------------------------------------------------------------------
\* Anything a client may put into a job event.
ClientEvents ==
    [sequence : 0..(MaxJobEvents + 1), state : JobStates, terminal : BOOLEAN,
     exit : {0, 1}, bytes : EventBytes]

Next ==
    \/ \E c \in Clients : \E typed \in BOOLEAN : HandleClientHello(c, typed)
    \/ \E c \in Clients : RevokeIdentity(c)
    \/ \E j \in Jobs, c \in Clients, p \in Payloads : StartJob(j, c, p)
    \/ \E c \in Clients, j \in Jobs : ClaimNextJob(c, j)
    \/ \E c \in Clients, j \in Jobs : \E d \in 1..deliveries : AcknowledgeJobDelivery(c, j, d)
    \/ \E c \in Clients, j \in Jobs : \E e \in ClientEvents : PersistJobEvent(c, j, e)
    \/ MaintenanceOnce
    \/ Tick

Spec == Init /\ [][Next]_storeVars

\* run_maintenance sweeps every 30 seconds for as long as the server runs, and
\* time passes; no client ever has to do anything.
FairSpec == Spec /\ WF_storeVars(Tick) /\ WF_storeVars(MaintenanceOnce)

-----------------------------------------------------------------------------
(***************************************************************************)
(* Properties.                                                             *)
(***************************************************************************)

Rows ==
    [state : JobStates \union {"absent"}, target : Clients \union {NULL},
     payload : Payloads \union {NULL},
     created : Nat, expires : Nat, delivery : Nat \union {NULL},
     lease : Nat \union {NULL}, startBy : Nat \union {NULL}]

EventRows == [state : JobStates, bytes : Nat, terminal : BOOLEAN]

\* The columns hold values of their types.
TypeOK ==
    /\ now \in Nat
    /\ job \in [Jobs -> Rows]
    /\ \A j \in Jobs : /\ DOMAIN events[j] \subseteq Nat
                       /\ \A n \in DOMAIN events[j] : events[j][n] \in EventRows
    /\ DOMAIN events = Jobs
    /\ deliveries \in Nat
    /\ active \subseteq Clients
    /\ capable \subseteq Clients
    /\ starts \in [Jobs -> Nat]

\* However often a job went back to the queue, a client that gets it starts
\* its own events at sequence 1 (handle_job): until the first one is accepted
\* the log holds the dispatch marker alone.  Otherwise the new delivery could
\* never report anything.
RedeliveryStartsClean ==
    \A j \in Jobs :
        /\ job[j].state \in {"absent", "queued"} => DOMAIN events[j] \subseteq {0}
        /\ job[j].state \in {"dispatched", "acknowledged"} => DOMAIN events[j] = {0}

\* The row and the log tell the same story: the log has a terminal event
\* exactly when the row is terminal, it is the last event, and it carries the
\* row's state; a running job's last event says running.
LogAgreesWithRow ==
    \A j \in Jobs :
        /\ IsTerminal(job[j].state) <=> TerminalSeen(j)
        /\ \A n \in DOMAIN events[j] : events[j][n].terminal => n = LastSequence(j)
        /\ job[j].state \in Terminal \union {"running"}
              => /\ DOMAIN events[j] # {}
                 /\ events[j][LastSequence(j)].state = job[j].state

\* The lifecycle an Admin sees.
LifecycleStatus(j) ==
    IF job[j].state \in {"queued", "dispatched", "acknowledged"}
    THEN "waiting" ELSE job[j].state

LifecycleLog(j) == [i \in 1..EventCount(j) |-> events[j][i - 1].state]

AdminStatus == [j \in Jobs |-> LifecycleStatus(j)]
AdminLog == [j \in Jobs |-> LifecycleLog(j)]

Lifecycle == INSTANCE JobLifecycle WITH status <- AdminStatus, log <- AdminLog

\* The tables implement the lifecycle.
ImplementsLifecycle == Lifecycle!Spec

\* Every accepted job is over eventually, even if its client vanishes, is
\* revoked or never reports: the sweep ends it at its expiry.
EventuallyOver == Lifecycle!EventuallyOver
=============================================================================
