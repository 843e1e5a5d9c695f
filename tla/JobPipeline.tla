----------------------------- MODULE JobPipeline -----------------------------
(***************************************************************************)
(* The whole path of a privileged job to one device and back: the server's *)
(* tables (JobStore), the control streams that carry deliveries down and   *)
(* acknowledgements and events up, the client daemon that handles one job  *)
(* at a time (crates/centrald-client/src/daemon.rs), and the broker        *)
(* (Broker).  Streams break, leftovers of a broken stream are still        *)
(* processed while the next one is up, the daemon and the broker die and   *)
(* are restarted.                                                          *)
(***************************************************************************)
EXTENDS Integers, FiniteSets, Sequences

CONSTANTS
    Jobs, Client, Payload,
    JobTTL, DeliveryLease, StartLease, GrantValidity,
    Workers, RecordRetention, MarkerTTL, RequestBound,
    MaxReplayEntries, MaxLedger, MaxMarkers,
    RoundTripTimeout,   \* BROKER_ROUND_TRIP_TIMEOUT
    MaxTime, MaxDeliveries, MaxLines,
    MaxStreams,         \* bound: control streams opened
    MaxDeaths           \* bound: deaths of the daemon and of the broker together

ASSUME PipelineTimes ==
    {JobTTL, DeliveryLease, StartLease, GrantValidity, RecordRetention, MarkerTTL, RequestBound}
        \subseteq Nat \ {0}
ASSUME PipelineBounds ==
    {MaxReplayEntries, MaxLedger, MaxMarkers, MaxTime, MaxDeliveries, MaxLines, MaxDeaths}
        \subseteq Nat
ASSUME PipelineWorkers == -1 \notin Workers

MaxJobEvents == 3
MaxRetained  == 0
EventBytes   == {0}
MaxStarts    == 1
MaxGrants    == MaxDeliveries
MaxCrashes   == MaxDeaths
Clients      == {Client}
Payloads     == {Payload}

VARIABLES
    now, job, events, deliveries, active, capable, starts,       \* JobStore
    ledger, lines, journal, torn, tail, up, consumed, thread,    \* Broker
    lock, crashes, runs, outcome, lost,
    issued,        \* grants signed so far
    stream,        \* control streams opened so far, in order
    daemon,        \* the client daemon
    daemonCrashes

store      == <<job, events, deliveries, active, capable, starts>>
brokerDisk == <<ledger, lines, journal, torn, tail, lost>>
brokerSelf == <<brokerDisk, up, consumed, thread, lock, crashes, runs, outcome>>
client     == <<stream, daemon, daemonCrashes>>
vars       == <<now, store, brokerSelf, issued, client>>

Store == INSTANCE JobStore
NULL  == Store!NULL

\* The broker's view of the server.
Born(j) == IF job[j].state = "absent" THEN NULL ELSE job[j].created
BrokerOf == INSTANCE Broker WITH born <- [j \in Jobs |-> Born(j)], grants <- issued

Offline == [pc |-> "down"]
Idle    == [pc |-> "idle"]

Init ==
    /\ Store!Init
    /\ BrokerOf!Init
    /\ stream = << >>
    /\ daemon = Idle
    /\ daemonCrashes = 0

-----------------------------------------------------------------------------
\* Control streams.  Each end notices by itself that the stream is gone; what
\* the client sent before may still be read by the server's task.

Streams == DOMAIN stream
ClientOpen(s) == stream[s].clientEnd
ServerOpen(s) == stream[s].serverEnd

\* The streams after the client queued frames on s; frames queued on a broken
\* connection go nowhere.
Sending(s, frames) ==
    IF stream[s].connected
    THEN [stream EXCEPT ![s].toServer = @ \o frames] ELSE stream

\* connect_once: TLS, Hello, control_stream's authenticate and Hello handling.
Connect ==
    /\ daemon.pc = "idle"
    /\ Len(stream) < MaxStreams
    /\ \A s \in Streams : ~ClientOpen(s)
    /\ stream' = Append(stream, [connected |-> TRUE, clientEnd |-> TRUE, serverEnd |-> TRUE,
                                 toClient |-> << >>, toServer |-> << >>])
    /\ Store!HandleClientHello(Client, TRUE)
    /\ UNCHANGED <<brokerSelf, issued, daemon, daemonCrashes>>

\* The network drops the connection: the client gets nothing more from it.
\* (The last stream that MaxStreams allows stays: nothing could follow it.)
Break(s) ==
    /\ s < MaxStreams
    /\ stream[s].connected
    /\ stream' = [stream EXCEPT ![s].connected = FALSE, ![s].toClient = << >>]
    /\ UNCHANGED <<now, store, brokerSelf, issued, daemon, daemonCrashes>>

\* The daemon's loop sees the end of the stream; it does not look while it
\* handles a job.
ClientNotices(s) ==
    /\ daemon.pc = "idle"
    /\ ClientOpen(s)
    /\ ~stream[s].connected
    /\ stream' = [stream EXCEPT ![s].clientEnd = FALSE]
    /\ UNCHANGED <<now, store, brokerSelf, issued, daemon, daemonCrashes>>

\* The server's task sees the end of the stream, at the latest when it has
\* read everything; bytes in flight may be lost with the connection.
ServerNotices(s) ==
    /\ ServerOpen(s)
    /\ ~stream[s].connected
    /\ stream' = [stream EXCEPT ![s].serverEnd = FALSE, ![s].toServer = << >>]
    /\ UNCHANGED <<now, store, brokerSelf, issued, daemon, daemonCrashes>>

-----------------------------------------------------------------------------
\* The server.

StartJob(j) ==
    /\ Store!StartJob(j, Client, Payload)
    /\ UNCHANGED <<brokerSelf, issued, client>>

\* handle_client_frame on a Heartbeat: claim a job, then send its grant and
\* the job.  Heartbeats are sent on a timer, so one may be there at any time,
\* also in the leftovers of a broken stream.
HandleHeartbeat(s, j) ==
    /\ ServerOpen(s)
    /\ Store!ClaimNextJob(Client, j)
    /\ issued' = issued \union {Store!NextGrant(j)}
    /\ stream' = IF stream[s].connected
                 THEN [stream EXCEPT ![s].toClient = Append(@, Store!NextGrant(j))]
                 ELSE stream
    /\ UNCHANGED <<brokerSelf, daemon, daemonCrashes>>

\* A frame whose handler fails ends the stream and what is left on it.
ServerCloses(s) ==
    stream' = [stream EXCEPT ![s].serverEnd = FALSE, ![s].connected = FALSE,
                             ![s].toServer = << >>, ![s].toClient = << >>]

Consumed(s) == stream' = [stream EXCEPT ![s].toServer = Tail(@)]

HandleClientFrame(s) ==
    LET frame == Head(stream[s].toServer)
    IN  /\ ServerOpen(s)
        /\ stream[s].toServer # << >>
        /\ IF frame.kind = "ack"
           THEN IF Store!AckAccepted(Client, frame.job, frame.delivery)
                THEN Store!AcknowledgeJobDelivery(Client, frame.job, frame.delivery) /\ Consumed(s)
                ELSE ServerCloses(s) /\ UNCHANGED <<now, store>>
           ELSE IF Store!EventAccepted(Client, frame.job, frame.event)
                THEN Store!PersistJobEvent(Client, frame.job, frame.event) /\ Consumed(s)
                ELSE ServerCloses(s) /\ UNCHANGED <<now, store>>
        /\ UNCHANGED <<brokerSelf, issued, daemon, daemonCrashes>>

Maintenance ==
    /\ Store!MaintenanceOnce
    /\ UNCHANGED <<brokerSelf, issued, client>>

-----------------------------------------------------------------------------
\* The daemon.

AckFrame(j, d) == [kind |-> "ack", job |-> j, delivery |-> d]
EventFrame(j, n, state) ==
    [kind |-> "event", job |-> j,
     event |-> [sequence |-> n, state |-> state, bytes |-> 0,
                terminal |-> Store!IsTerminal(state),
                exit |-> IF state = "failed" THEN 1 ELSE 0]]

\* The grant frame is verified, then handle_job acknowledges the delivery,
\* reports that it runs and turns to the broker.  The delivery id is the
\* grant's nonce.
HandleJob(s) ==
    LET grant == Head(stream[s].toClient)
        frames == << AckFrame(grant.job, grant.id), EventFrame(grant.job, 1, "running") >>
    IN  /\ daemon.pc = "idle"
        /\ ClientOpen(s)
        /\ stream[s].toClient # << >>
        /\ IF now > grant.expires
           THEN /\ stream' = [stream EXCEPT ![s].connected = FALSE, ![s].clientEnd = FALSE,
                                            ![s].toClient = << >>]
                /\ UNCHANGED daemon
           ELSE /\ stream' = [Sending(s, frames) EXCEPT ![s].toClient = Tail(@)]
                /\ daemon' = [pc |-> "submit", stream |-> s, grant |-> grant]
        /\ UNCHANGED <<now, store, brokerSelf, issued, daemonCrashes>>

\* submit_request reaches the broker.
Submit(w) ==
    /\ UNCHANGED <<store, issued, stream, daemonCrashes>>
    /\ daemon.pc = "submit"
    /\ BrokerOf!Accept(w, daemon.grant, TRUE)
    /\ daemon' = [pc |-> "await", stream |-> daemon.stream, grant |-> daemon.grant,
                  worker |-> w, since |-> now]

\* handle_job's last step: the result, or any error of the round trip, is
\* reported as event 2.
Report(state) ==
    /\ stream' = Sending(daemon.stream, << EventFrame(daemon.grant.job, 2, state) >>)
    /\ daemon' = Idle

\* The broker is not there, or the round trip took too long (the broker goes
\* on without an audience).
SubmitFails ==
    /\ \/ daemon.pc = "submit" /\ ~up
       \/ daemon.pc = "await" /\ now >= daemon.since + RoundTripTimeout
    /\ Report("failed")
    /\ UNCHANGED <<now, store, brokerSelf, issued, daemonCrashes>>

\* The daemon dies: client service restart, crash, or reboot.
DaemonCrash ==
    /\ daemon.pc # "down"
    /\ crashes + daemonCrashes < MaxDeaths
    /\ daemonCrashes' = daemonCrashes + 1
    /\ daemon' = Offline
    /\ stream' = [s \in Streams |-> [stream[s] EXCEPT !.connected = FALSE, !.clientEnd = FALSE,
                                                     !.toClient = << >>]]
    /\ UNCHANGED <<now, store, brokerSelf, issued>>

DaemonStart ==
    /\ daemon.pc = "down"
    /\ daemon' = Idle
    /\ UNCHANGED <<now, store, brokerSelf, issued, stream, daemonCrashes>>

-----------------------------------------------------------------------------
\* The broker.

Awaited(w) == daemon.pc = "await" /\ daemon.worker = w

\* The broker's own steps; nothing outside it changes.
BrokerWorks(w) ==
    /\ UNCHANGED <<store, issued, client>>
    /\ \/ BrokerOf!VerifyAndConsume(w)
       \/ \E written \in BOOLEAN : BrokerOf!RecordConsumedGrant(w, written)
       \/ BrokerOf!RecoverTornFinalRecord(w)
       \/ \E kept \in SUBSET ledger : BrokerOf!RecoveryFails(w, kept)
       \/ BrokerOf!LookupFirst(w)
       \/ BrokerOf!TakeLock(w)
       \/ \E how \in BrokerOf!Writes : BrokerOf!MarkExecuting(w, how)
       \/ BrokerOf!StartRun(w)
       \/ \E result \in BrokerOf!RunResults : BrokerOf!FinishRun(w, result)
       \/ \E fits \in BOOLEAN, how \in BrokerOf!Writes : BrokerOf!RecordCompleted(w, fits, how)

\* Slip: any answer but a refusal is taken for a success.
BrokerAnswersOptimistic(w) ==
    /\ UNCHANGED <<store, issued, daemonCrashes>>
    /\ BrokerOf!Respond(w)
    /\ IF Awaited(w)
       THEN Report(IF thread[w].reply # "refused" THEN "succeeded" ELSE "failed")
       ELSE UNCHANGED <<stream, daemon>>

\* The answer reaches the daemon if it still waits for it.
BrokerAnswers(w) ==
    /\ UNCHANGED <<store, issued, daemonCrashes>>
    /\ BrokerOf!Respond(w)
    /\ IF Awaited(w)
       THEN Report(IF thread[w].reply = "success" THEN "succeeded" ELSE "failed")
       ELSE UNCHANGED <<stream, daemon>>

\* The broker dies; a daemon that waits for it reads the end of the connection.
BrokerCrash(within, kept) ==
    /\ UNCHANGED <<store, issued, daemonCrashes>>
    /\ crashes + daemonCrashes < MaxDeaths
    /\ BrokerOf!Crash(within, kept)
    /\ IF daemon.pc = "await" /\ thread[daemon.worker].pc # "idle"
       THEN Report("failed") ELSE UNCHANGED <<stream, daemon>>

BrokerRestart ==
    /\ UNCHANGED <<store, issued, client>>
    /\ BrokerOf!Restart

\* One clock for everybody.
Tick ==
    /\ UNCHANGED <<store, issued, client>>
    /\ BrokerOf!Tick

-----------------------------------------------------------------------------
Next ==
    \/ \E j \in Jobs : StartJob(j)
    \/ \E s \in Streams, j \in Jobs : HandleHeartbeat(s, j)
    \/ \E s \in Streams : \/ Break(s)
                         \/ ClientNotices(s)
                         \/ ServerNotices(s)
                         \/ HandleClientFrame(s)
                         \/ HandleJob(s)
    \/ Maintenance
    \/ Connect
    \/ \E w \in Workers : Submit(w) \/ BrokerWorks(w) \/ BrokerAnswers(w)
    \/ SubmitFails
    \/ DaemonCrash
    \/ DaemonStart
    \/ \E within \in BrokerOf!Within, kept \in SUBSET ledger : BrokerCrash(within, kept)
    \/ BrokerRestart
    \/ Tick

Spec == Init /\ [][Next]_vars

\* Processes that run go on, dead ones are restarted, the daemon reconnects
\* and heartbeats, the server sweeps and the clock advances; nothing obliges
\* faults to happen, or a new request to be made.
FairSpec ==
    /\ Spec
    /\ WF_vars(Connect)
    /\ WF_vars(\E s \in Streams, j \in Jobs : HandleHeartbeat(s, j))
    /\ WF_vars(\E s \in Streams : ClientNotices(s))
    /\ WF_vars(\E s \in Streams : ServerNotices(s))
    /\ WF_vars(\E s \in Streams : HandleClientFrame(s))
    /\ WF_vars(\E s \in Streams : HandleJob(s))
    /\ WF_vars(\E w \in Workers : Submit(w))
    /\ WF_vars(SubmitFails)
    /\ \A w \in Workers : WF_vars(BrokerWorks(w)) /\ WF_vars(BrokerAnswers(w))
    /\ WF_vars(Maintenance)
    /\ WF_vars(DaemonStart)
    /\ WF_vars(BrokerRestart)
    /\ WF_vars(Tick)

-----------------------------------------------------------------------------
(***************************************************************************)
(* Properties.                                                             *)
(***************************************************************************)

\* The server calls a job succeeded only if its operation was entered and
\* succeeded, and entered only once, except where the broker may enter it again
\* (the ledger lost the job's record, or it expired before the job's last
\* request): across redeliveries, stale frames of old streams, replayed answers
\* and crashes.
SucceededIsTrue ==
    \A j \in Jobs : job[j].state = "succeeded"
        => "success" \in outcome[j] /\ (runs[j] = 1 \/ BrokerOf!Excused(j))

\* The tables and the streams give the broker the server it was verified
\* against: the composition implements the broker's specification (this is
\* BrokerOf!Spec; most steps leave the broker alone, so that is tried first).
ImplementsBroker ==
    /\ BrokerOf!Init
    /\ [][UNCHANGED BrokerOf!brokerVars \/ BrokerOf!Next]_(BrokerOf!brokerVars)

-----------------------------------------------------------------------------
\* ledger.rs: "When the client daemon is destroyed mid-operation (client service
\* restart) or reconnects after a crash, the server re-dispatches the same job
\* and the broker replays the recorded result": a job whose daemon died while
\* it ran is out for delivery again, or its result arrives, unless the network
\* fails for good.  The code never re-dispatches a job that reported running.
NetworkGone == Len(stream) = MaxStreams /\ ~stream[MaxStreams].connected

InterruptedRunIsRedispatched ==
    \A j \in Jobs :
        job[j].state = "running" /\ daemon.pc = "down"
            ~> job[j].state \in {"dispatched", "succeeded", "failed"} \/ NetworkGone
=============================================================================
