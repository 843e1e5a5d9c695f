------------------------------- MODULE Broker -------------------------------
(***************************************************************************)
(* The privileged broker of one device: the grant verifier with its replay *)
(* set (crates/centrald-platform/src/broker.rs), the durable ledger        *)
(* (crates/centrald-client/src/ledger.rs) and the executor that uses both  *)
(* (crates/centrald-client/src/broker.rs), with connections served         *)
(* concurrently, broker crashes and restarts.                              *)
(*                                                                         *)
(* The broker sees the server only through the grants it is shown, so the  *)
(* server appears here as two actions: a job is created, and while it has  *)
(* not expired any number of grants are signed for it (claim_next_job; one *)
(* per delivery).  All clocks are one clock.                               *)
(*                                                                         *)
(* Ledger lines are records with a line number; the number of records      *)
(* stands for the size of the file in bytes.  Every call of the ledger is  *)
(* made under the ledger's mutex, so that only a death or a failing file   *)
(* operation can come between its steps.                                   *)
(***************************************************************************)
EXTENDS Integers, FiniteSets

CONSTANTS
    Jobs,
    Workers,          \* connections served at once (MAX_INFLIGHT_CONNECTIONS)
    JobTTL,           \* runtime.job_ttl_seconds of the server
    GrantValidity,    \* JOB_GRANT_VALIDITY_SECONDS of the server
    RecordRetention,  \* RECORD_RETENTION
    MarkerTTL,        \* EXECUTING_MARKER_TTL
    RequestBound,     \* longest life of a request: MAX_INFLIGHT_CONNECTIONS
                      \* commands of COMMAND_TIMEOUT each, one after another
    MaxReplayEntries, \* MAX_REPLAY_ENTRIES
    MaxLedger,        \* MAX_LEDGER_BYTES
    MaxMarkers,       \* MAX_RETAINED_INTERRUPTED_MARKERS
    MaxTime,          \* bound: the clock stops here
    MaxGrants,        \* bound: grants signed in total
    MaxLines,         \* bound: lines ever appended to the ledger
    MaxCrashes        \* bound: broker crashes

ASSUME BrokerTimesAssumption ==
    /\ JobTTL \in Nat \ {0}
    /\ GrantValidity \in Nat \ {0}
    /\ RecordRetention \in Nat \ {0}
    /\ MarkerTTL \in Nat \ {0}
    /\ RequestBound \in Nat \ {0}
ASSUME BrokerBoundsAssumption ==
    /\ MaxReplayEntries \in Nat
    /\ MaxLedger \in Nat
    /\ MaxMarkers \in Nat
    /\ MaxTime \in Nat
    /\ MaxGrants \in Nat
    /\ MaxLines \in Nat
    /\ MaxCrashes \in Nat

VARIABLES
    now,       \* the clock
    born,      \* server: creation time of each job, or NULL
    grants,    \* server: grants signed so far
    ledger,    \* disk: completed-jobs.jsonl
    lines,     \* disk: lines appended to it so far
    journal,   \* disk: consumed-grants.jsonl
    torn,      \* disk: the journal ends in a partial line
    tail,      \* disk: the ledger ends in a partial line
    up,        \* the broker process runs
    consumed,  \* memory: the verifier's replay set
    thread,    \* memory: the connections being served
    lock,      \* memory: holder of the execution mutex, or NULL
    crashes,
    runs,      \* how often runner.run was entered for a job
    outcome,   \* what the finished runs of a job did
    lost       \* jobs of which the ledger lost every record before its time

brokerVars == <<now, born, grants, ledger, lines, journal, torn, tail, up, consumed,
                thread, lock, crashes, runs, outcome, lost>>

disk   == <<ledger, lines, journal, torn, tail, lost>>
server == <<born, grants>>

NULL == -1

ASSUME WorkersNotNull == NULL \notin Workers

\* What a run can end in: success, a command that failed, or a runner error.
RunResults == {"success", "failure", "error"}

Idle == [pc |-> "idle"]

Init ==
    /\ now = 0
    /\ born = [j \in Jobs |-> NULL]
    /\ grants = {}
    /\ ledger = {}
    /\ lines = 0
    /\ journal = {}
    /\ torn = FALSE
    /\ tail = FALSE
    /\ up = TRUE
    /\ consumed = {}
    /\ thread = [w \in Workers |-> Idle]
    /\ lock = NULL
    /\ crashes = 0
    /\ runs = [j \in Jobs |-> 0]
    /\ outcome = [j \in Jobs |-> {}]
    /\ lost = {}

-----------------------------------------------------------------------------
\* The server.

CreateJob(j) ==
    /\ born[j] = NULL
    /\ born' = [born EXCEPT ![j] = now]
    /\ UNCHANGED <<now, grants, disk, up, consumed, thread, lock, crashes, runs, outcome>>

SignGrant(j) ==
    /\ born[j] # NULL
    /\ now < born[j] + JobTTL
    /\ Cardinality(grants) < MaxGrants
    /\ grants' = grants \union
          {[id |-> Cardinality(grants) + 1, job |-> j, expires |-> now + GrantValidity]}
    /\ UNCHANGED <<now, born, disk, up, consumed, thread, lock, crashes, runs, outcome>>

-----------------------------------------------------------------------------
\* The ledger.

\* read_committed: expired completion records are skipped, markers never are.
Committed(t) == {r \in ledger : r.state = "executing" \/ r.expires > t}

LastLine(S) == CHOOSE r \in S : \A q \in S : q.line <= r.line

\* lookup: the last committed record of the job, if any.
Records(j, t) == {r \in Committed(t) : r.job = j}

Lookup(j, t) ==
    IF Records(j, t) = {} THEN "none"
    ELSE LET r == LastLine(Records(j, t))
         IN  IF r.state = "executing" THEN "executing" ELSE r.result

\* compact_if_needed, at the real time: the last committed record of each job,
\* and of the markers among them only the newest MaxMarkers (any of those
\* recorded at the same instant).
LatestPerJob == {LastLine(Records(j, now)) : j \in {r.job : r \in Committed(now)}}

Markers == {r \in LatestPerJob : r.state = "executing"}

NewestMarkers(M) ==
    IF Cardinality(M) <= MaxMarkers THEN {M}
    ELSE {K \in SUBSET M : /\ Cardinality(K) = MaxMarkers
                           /\ \A k \in K, m \in M \ K : m.recorded <= k.recorded}

Compacted(K) == (LatestPerJob \ Markers) \union K

\* How an append ends: done; failed with the line in the file (the sync
\* failed), with a part of it, or with nothing of it.
Writes == {"done", "whole", "part", "nothing"}

\* append: compact first, then write and sync one line.  A job whose marker
\* compaction drops has lost its record.
AppendRecord(record, how) ==
    LET added == IF how \in {"done", "whole"} THEN {record} ELSE {}
    IN  /\ lines < MaxLines
        /\ lines' = lines + 1
        /\ tail' = (how = "part")
        /\ IF Cardinality(ledger) > MaxLedger
           THEN \E K \in NewestMarkers(Markers) :
                   /\ ledger' = Compacted(K) \union added
                   /\ lost' = lost \union
                         ({m.job : m \in Markers \ K} \ {r.job : r \in added})
           ELSE ledger' = ledger \union added /\ UNCHANGED lost
        /\ UNCHANGED <<journal, torn>>

Marker(j, t) ==
    [line |-> lines + 1, job |-> j, state |-> "executing", result |-> "none",
     expires |-> t + MarkerTTL, recorded |-> t]

\* Slip: whatever the runner returned is recorded as a success.
CompletionAssumingSuccess(j, r, t) ==
    [line |-> lines + 1, job |-> j, state |-> "completed", result |-> "success",
     expires |-> t + RecordRetention, recorded |-> t]

Completion(j, r, t) ==
    [line |-> lines + 1, job |-> j, state |-> "completed", result |-> r,
     expires |-> t + RecordRetention, recorded |-> t]

-----------------------------------------------------------------------------
\* The executor: one request per connection, answered with a run's result or
\* with an error message.

Goto(w, pc) == thread' = [thread EXCEPT ![w].pc = pc]

Answer(w, reply) == thread' = [thread EXCEPT ![w].pc = "reply", ![w].reply = reply]

\* serve_unix accepts while a slot is free; execute_request takes the time
\* that the whole request is then judged by.  The daemon may show any grant
\* it was ever given, with the parameters of the grant or other ones.
Accept(w, g, matching) ==
    /\ up
    /\ thread[w].pc = "idle"
    /\ thread' = [thread EXCEPT ![w] = [pc |-> "verify", grant |-> g, at |-> now,
                                        matching |-> matching, reply |-> "none"]]
    /\ UNCHANGED <<now, server, disk, up, consumed, lock, crashes, runs, outcome>>

\* GrantVerifier::verify_and_consume, under the verifier's mutex.
Unexpired(t) == {g \in consumed : g.expires > t}

VerifyAndConsume(w) ==
    LET g == thread[w].grant
        t == thread[w].at
    IN  /\ thread[w].pc = "verify"
        /\ IF t > g.expires
           THEN Answer(w, "refused") /\ UNCHANGED consumed
           ELSE IF g \in Unexpired(t) \/ Cardinality(Unexpired(t)) >= MaxReplayEntries
           THEN Answer(w, "refused") /\ consumed' = Unexpired(t)
           ELSE Goto(w, "consume") /\ consumed' = Unexpired(t) \union {g}
        /\ UNCHANGED <<now, server, disk, up, lock, crashes, runs, outcome>>

\* record_consumed_grant, which may fail to write, then the check of the
\* parameters' digest.
RecordConsumedGrant(w, written) ==
    /\ thread[w].pc = "consume"
    /\ journal' = IF written THEN journal \union {thread[w].grant} ELSE journal
    /\ IF written /\ thread[w].matching THEN Goto(w, "lookup") ELSE Answer(w, "refused")
    /\ UNCHANGED <<now, server, ledger, lines, torn, tail, up, consumed, lock, crashes, runs,
                   outcome, lost>>

\* Where the executor reads the ledger.
Reading == {"lookup", "locked", "ran"}

\* recover_torn_final_record, which every read of a torn ledger begins with:
\* the tail is quarantined, the file truncated and what was whole written back.
RecoverTornFinalRecord(w) ==
    /\ thread[w].pc \in Reading
    /\ tail
    /\ tail' = FALSE
    /\ UNCHANGED <<now, server, ledger, lines, journal, torn, up, consumed, thread, lock,
                   crashes, runs, outcome, lost>>

\* It stops on the way: the file is as it was, or only kept of its lines are
\* back (the last perhaps in part).
RecoveryStops(kept) ==
    /\ tail
    /\ ledger' = kept
    /\ tail' \in (IF kept = ledger THEN {TRUE} ELSE BOOLEAN)
    /\ lost' = lost \union ({r.job : r \in ledger} \ {r.job : r \in kept})

Unlocked(w) == IF lock = w THEN NULL ELSE lock

\* A file operation of the recovery fails: the request ends in an error.
RecoveryFails(w, kept) ==
    /\ thread[w].pc \in Reading
    /\ RecoveryStops(kept)
    /\ Answer(w, IF thread[w].pc = "ran" THEN "unknown" ELSE "refused")
    /\ lock' = Unlocked(w)
    /\ UNCHANGED <<now, server, lines, journal, torn, up, consumed, crashes, runs, outcome>>

\* The first lookup, before the execution mutex is taken.
LookupFirst(w) ==
    LET found == Lookup(thread[w].grant.job, thread[w].at)
    IN  /\ thread[w].pc = "lookup"
        /\ ~tail
        /\ IF found = "none" THEN Goto(w, "wait")
           ELSE IF found = "executing" THEN Answer(w, "unknown")
           ELSE Answer(w, found)
        /\ UNCHANGED <<now, server, disk, up, consumed, lock, crashes, runs, outcome>>

TakeLock(w) ==
    /\ thread[w].pc = "wait"
    /\ lock = NULL
    /\ lock' = w
    /\ Goto(w, "locked")
    /\ UNCHANGED <<now, server, disk, up, consumed, crashes, runs, outcome>>

\* Slip: the lookup is not repeated under the mutex.
MarkExecutingUnchecked(w, how) ==
    LET j == thread[w].grant.job
    IN  /\ thread[w].pc = "locked"
        /\ ~tail
        /\ how = "done"
        /\ AppendRecord(Marker(j, thread[w].at), how)
        /\ Goto(w, "marked")
        /\ UNCHANGED <<now, server, up, consumed, lock, crashes, runs, outcome>>

\* The second lookup and mark_executing, which may fail to write; only the
\* holder of the execution mutex appends to the ledger, so nothing can come
\* between them.
MarkExecuting(w, how) ==
    LET j == thread[w].grant.job
        found == Lookup(j, thread[w].at)
    IN  /\ thread[w].pc = "locked"
        /\ ~tail
        /\ IF found = "none"
           THEN /\ AppendRecord(Marker(j, thread[w].at), how)
                /\ IF how = "done"
                   THEN Goto(w, "marked") /\ UNCHANGED lock
                   ELSE Answer(w, "refused") /\ lock' = NULL
           ELSE /\ Answer(w, IF found = "executing" THEN "unknown" ELSE found)
                /\ lock' = NULL
                /\ UNCHANGED disk
        /\ UNCHANGED <<now, server, up, consumed, crashes, runs, outcome>>

\* runner.run is entered: from here on the operation has had effects.
StartRun(w) ==
    LET j == thread[w].grant.job
    IN  /\ thread[w].pc = "marked"
        /\ Goto(w, "running")
        /\ runs' = [runs EXCEPT ![j] = @ + 1]
        /\ UNCHANGED <<now, server, disk, up, consumed, lock, crashes, outcome>>

\* runner.run returns; an error leaves the marker in the ledger.
FinishRun(w, result) ==
    LET j == thread[w].grant.job
    IN  /\ thread[w].pc = "running"
        /\ outcome' = [outcome EXCEPT ![j] = @ \union {result}]
        /\ IF result = "error"
           THEN Answer(w, "unknown") /\ lock' = NULL
           ELSE /\ thread' = [thread EXCEPT ![w].pc = "ran", ![w].reply = result]
                /\ UNCHANGED lock
        /\ UNCHANGED <<now, server, disk, up, consumed, crashes, runs>>

\* record_completed, which refuses oversized output and a job without a
\* record and may fail to write; in any case the mutex is released.
RecordCompleted(w, fits, how) ==
    LET j == thread[w].grant.job
        result == thread[w].reply
    IN  /\ thread[w].pc = "ran"
        /\ ~tail
        /\ IF fits /\ Lookup(j, thread[w].at) # "none"
           THEN /\ AppendRecord(Completion(j, result, thread[w].at), how)
                /\ Answer(w, IF how = "done" THEN result ELSE "unknown")
           ELSE Answer(w, "unknown") /\ UNCHANGED disk
        /\ lock' = NULL
        /\ UNCHANGED <<now, server, up, consumed, crashes, runs, outcome>>

\* The answer is written to the connection (which may be gone).
Respond(w) ==
    /\ thread[w].pc = "reply"
    /\ thread' = [thread EXCEPT ![w] = Idle]
    /\ UNCHANGED <<now, server, disk, up, consumed, lock, crashes, runs, outcome>>

-----------------------------------------------------------------------------
\* The process dies (or the machine is restarted, which is one of the
\* operations), at most one thread of it within a file operation.  A journal
\* line being appended may be left torn, and load_consumed_grants does not
\* repair it; a ledger line may be left torn; a torn ledger that is being
\* written back may be left with some of its lines.
Within == {"nothing", "journal", "append", "recovery"}

Crash(within, kept) ==
    /\ up
    /\ crashes < MaxCrashes
    /\ within = "journal" => \E w \in Workers : thread[w].pc = "consume"
    /\ within = "append" => \E w \in Workers : thread[w].pc \in {"locked", "ran"}
    /\ within = "recovery" => \E w \in Workers : thread[w].pc \in Reading
    /\ IF within = "recovery"
       THEN RecoveryStops(kept)
       ELSE kept = ledger /\ tail' = (tail \/ within = "append") /\ UNCHANGED <<ledger, lost>>
    /\ crashes' = crashes + 1
    /\ up' = FALSE
    /\ torn' = (torn \/ within = "journal")
    /\ consumed' = {}
    /\ thread' = [w \in Workers |-> Idle]
    /\ lock' = NULL
    /\ UNCHANGED <<now, server, lines, journal, runs, outcome>>

\* build_executor: the journal is loaded (an unparseable line is an error and
\* the process exits) and the unexpired grants are restored.
Restart ==
    /\ ~up
    /\ ~torn
    /\ up' = TRUE
    /\ consumed' = {g \in journal : g.expires > now}
    /\ UNCHANGED <<now, server, disk, thread, lock, crashes, runs, outcome>>

\* Time passes; no request is older than RequestBound.
Tick ==
    /\ now < MaxTime
    /\ \A w \in Workers : thread[w].pc # "idle" => now < thread[w].at + RequestBound
    /\ now' = now + 1
    /\ UNCHANGED <<server, disk, up, consumed, thread, lock, crashes, runs, outcome>>

-----------------------------------------------------------------------------
Serve(w) ==
    \/ VerifyAndConsume(w)
    \/ \E written \in BOOLEAN : RecordConsumedGrant(w, written)
    \/ RecoverTornFinalRecord(w)
    \/ \E kept \in SUBSET ledger : RecoveryFails(w, kept)
    \/ LookupFirst(w)
    \/ TakeLock(w)
    \/ \E how \in Writes : MarkExecuting(w, how)
    \/ StartRun(w)
    \/ \E result \in RunResults : FinishRun(w, result)
    \/ \E fits \in BOOLEAN, how \in Writes : RecordCompleted(w, fits, how)
    \/ Respond(w)

Next ==
    \/ \E j \in Jobs : CreateJob(j) \/ SignGrant(j)
    \/ \E w \in Workers : \E g \in grants : \E matching \in BOOLEAN : Accept(w, g, matching)
    \/ \E w \in Workers : Serve(w)
    \/ \E within \in Within, kept \in SUBSET ledger : Crash(within, kept)
    \/ Restart
    \/ Tick

Spec == Init /\ [][Next]_brokerVars

\* A served request proceeds (the runner kills a command at COMMAND_TIMEOUT)
\* and the service manager restarts a broker that died.
FairSpec ==
    /\ Spec
    /\ \A w \in Workers : WF_brokerVars(Serve(w))
    /\ \A w \in Workers : SF_brokerVars(TakeLock(w))
    /\ WF_brokerVars(Restart)

-----------------------------------------------------------------------------
(***************************************************************************)
(* Properties.                                                             *)
(***************************************************************************)
GrantSet == [id : Nat, job : Jobs, expires : Nat]

LedgerRecords ==
    [line : Nat, job : Jobs, state : {"executing", "completed"},
     result : {"none", "success", "failure"}, expires : Nat, recorded : Nat]

Busy == {"verify", "consume", "lookup", "wait", "locked", "marked", "running", "ran", "reply"}
Replies == {"none", "refused", "unknown", "success", "failure"}

Requests == [pc : Busy, grant : GrantSet, at : Nat, matching : BOOLEAN, reply : Replies]

\* The variables hold values of their types.
TypeOK ==
    /\ now \in Nat
    /\ born \in [Jobs -> Nat \union {NULL}]
    /\ grants \subseteq GrantSet
    /\ ledger \subseteq LedgerRecords
    /\ lines \in Nat
    /\ journal \subseteq grants
    /\ torn \in BOOLEAN
    /\ tail \in BOOLEAN
    /\ up \in BOOLEAN
    /\ consumed \subseteq grants
    /\ thread \in [Workers -> Requests \union {Idle}]
    /\ lock \in Workers \union {NULL}
    /\ crashes \in Nat
    /\ runs \in [Jobs -> Nat]
    /\ outcome \in [Jobs -> SUBSET RunResults]
    /\ lost \subseteq Jobs

\* The retention outlasts the last moment a request for a job can be served.
\* At the largest job TTL that the server accepts it does not.
RetentionCovers == JobTTL + GrantValidity + RequestBound <= RecordRetention

\* What makes a second run of a job possible: its record was lost, because a
\* torn ledger was not written back in full or compaction had more markers
\* than it retains; or it expired, before the last request for the job.
Excused(j) ==
    \/ j \in lost
    \/ ~RetentionCovers /\ now >= born[j] + RecordRetention

\* No privileged operation is entered twice for one job, however often the
\* job is delivered, the daemon resubmits, requests overlap or the broker
\* crashes: ledger.rs's "instead of executing twice".  The exceptions are the
\* job whose record was lost and, where the retention does not cover the life
\* of requests, the job older than the retention.
AtMostOnce == \A j \in Jobs : runs[j] <= 1 \/ Excused(j)

\* Nothing claims more or less than happened: an answer with a result, fresh
\* or replayed, and a completion record carry the result of a finished run of
\* that very job (of the only one, unless AtMostOnce excuses a second), and a
\* job that was entered has a record which lookup finds until the retention,
\* counted from the job's creation, is over, unless the record was lost.
ResultsAreTrue ==
    /\ \A w \in Workers :
          thread[w].pc = "reply" /\ thread[w].reply \in {"success", "failure"}
              => thread[w].reply \in outcome[thread[w].grant.job]
    /\ \A r \in ledger : r.state = "completed" => r.result \in outcome[r.job]
    /\ \A j \in Jobs : runs[j] >= 1 /\ j \notin lost /\ now < born[j] + RecordRetention
          => \E r \in Committed(now) : r.job = j

\* Operations are serialized: the runner is never entered while it runs.
Serialized ==
    \A v, w \in Workers :
        {thread[v].pc, thread[w].pc} \subseteq {"locked", "marked", "running", "ran"} => v = w

-----------------------------------------------------------------------------
(***************************************************************************)
(* What comments and documents of the repository say and the code does not *)
(* do; the README has the counterexamples.                                 *)
(***************************************************************************)

\* THREAT_MODEL.md: "Consumed grant IDs are replay-protected": a grant in the
\* journal is not accepted by verify_and_consume again.
ConsumedGrantsStayConsumed ==
    [][\A w \in Workers :
          thread[w].pc = "verify" /\ thread[w].grant \in journal
              => thread'[w].pc # "consume"]_brokerVars

\* BrokerExecutor.execution: "a re-dispatched request for an in-flight job
\* waits for the original execution to finish and then replays its recorded
\* result": it is not answered that the outcome is unknown.
InFlightRequestWaits ==
    [][\A v, w \in Workers :
          /\ thread[v].pc \in {"marked", "running", "ran"}
          /\ thread[w].pc = "lookup"
          /\ thread[v].grant.job = thread[w].grant.job
          => thread'[w].pc # "reply"]_brokerVars

\* ledger.rs: the journal recovers from a torn tail, and broker.rs: "systemd/SCM
\* restart the service on failure": a broker that died comes back.
ComesBack == ~up ~> up
=============================================================================
