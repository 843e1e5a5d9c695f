---------------------------- MODULE ShellSessions ----------------------------
(***************************************************************************)
(* Interactive shells, from the Admin's call to the terminal on the device *)
(* and back:                                                               *)
(*   - the server's open_shell handler, its elevation challenge, the relay *)
(*     task and the shell_sessions row (centrald-server, services.rs and   *)
(*     shell.rs);                                                          *)
(*   - the client daemon, which keeps a map of relays for its control      *)
(*     stream and runs two threads per session that copy frames between    *)
(*     that stream and the broker (centrald-client, daemon.rs);            *)
(*   - the privileged broker, with an input thread, an output thread and a *)
(*     watchdog per terminal (broker_session.rs, ptys.rs).                 *)
(*                                                                         *)
(* One client is modelled.  Its control stream breaks and is opened again, *)
(* and what was queued on it is lost.  What a frame carries is left out:   *)
(* input and output are counted, because both are bounded.  Sessions meet  *)
(* only in the limits on their number, and a session that is refused for   *)
(* one of them is like one that is refused for another reason.  A release  *)
(* with TERMINAL_SESSIONS_ENABLED = FALSE runs none of this.               *)
(***************************************************************************)
EXTENDS Naturals, Sequences

CONSTANTS
    Sessions,        \* open_shell calls
    EagerOpen,       \* the Admin sends the open frame with its call
    InputLimit,      \* input frames within MAX_SHELL_INPUT_BYTES
    OutputLimit,     \* output frames within MAX_SESSION_OUTPUT_BYTES
    QueueLimit,      \* frames on their way in one direction of the stream, or
                     \* from the daemon to the broker
    MaxBreaks        \* control streams lost

ASSUME ShellLimits ==
    /\ QueueLimit \in Nat \ {0}
    /\ {InputLimit, OutputLimit, MaxBreaks} \subseteq Nat
    /\ EagerOpen \in BOOLEAN

VARIABLES
    admin,       \* the Admin application's side of a session
    \* the server
    call,        \* where the open_shell call of a session is
    row,         \* rows of shell_sessions
    closed,      \* handles whose closed flag is set
    fed,         \* input frames a handle has counted
    owed,        \* handles with output in admin_in_rx, which holds one frame here
    \* the control stream
    stream,      \* number of the newest one
    connected,   \* it is connected
    via,         \* the stream whose sender a session holds
    toClient, toServer,
    \* the daemon
    unix,        \* the device runs Unix: its connections to the broker do not block
    shells,      \* the map of relays, with their senders
    copier,      \* the reading thread of a relay
    feeder,      \* its sending thread
    \* the connection of a session to the broker, and the broker
    toBroker, fromBroker,
    serving,     \* where serve_session is
    stop,        \* SessionShared.stop
    written,     \* output frames counted
    input, output,   \* the two threads of run_session
    pty

serverVars == <<admin, call, row, closed, fed, owed>>
linkVars == <<stream, connected, via, toClient, toServer>>
daemonVars == <<unix, shells, copier, feeder>>
brokerVars == <<toBroker, fromBroker, serving, stop, written, input, output, pty>>
shellVars == <<serverVars, linkVars, daemonVars, brokerVars>>

Frame(kind, s) == [kind |-> kind, session |-> s]

\* The steps of open_shell and of the task it spawns; feeding is the relay
\* inside client_tx.send, forwarding the relay inside response_tx.send.
Calls == {"unused", "first", "validated", "created", "delivered", "relay",
          "feeding", "forwarding", "leaving", "ending", "telling", "done"}

\* RuntimeState.shell_sessions.  It cannot be full: its limit, 64, is above
\* the number of permits, 16.
Registered == {s \in Sessions : call[s] \in {"relay", "feeding", "forwarding", "leaving"}}

----------------------------------------------------------------------------
ShellInit ==
    /\ admin = [s \in Sessions |-> "away"]
    /\ call = [s \in Sessions |-> "unused"]
    /\ row = [s \in Sessions |-> "none"]
    /\ closed = {}
    /\ fed = [s \in Sessions |-> 0]
    /\ owed = {}
    /\ stream = 0
    /\ connected = TRUE
    /\ via = [s \in Sessions |-> 0]
    /\ toClient = <<>>
    /\ toServer = <<>>
    /\ unix \in BOOLEAN
    /\ shells = {}
    /\ copier = [s \in Sessions |-> "none"]
    /\ feeder = [s \in Sessions |-> "none"]
    /\ toBroker = [s \in Sessions |-> <<>>]
    /\ fromBroker = [s \in Sessions |-> <<>>]
    /\ serving = [s \in Sessions |-> "none"]
    /\ stop = {}
    /\ written = [s \in Sessions |-> 0]
    /\ input = [s \in Sessions |-> "none"]
    /\ output = [s \in Sessions |-> "none"]
    /\ pty = [s \in Sessions |-> "none"]

CallGoes(s, there) == call' = [call EXCEPT ![s] = there]

\* The sender of the control stream that a session was given still works.
Reaches(s) == connected /\ via[s] = stream

SendClient(s, kind) ==
    /\ Len(toClient) < QueueLimit
    /\ toClient' = Append(toClient, Frame(kind, s))

SendServer(s, kind) ==
    /\ Len(toServer) < QueueLimit
    /\ toServer' = Append(toServer, Frame(kind, s))

\* The control stream ends.  The daemon's map of relays is a local of the
\* connection and goes with it, and so do the senders in it.
BreakStream ==
    /\ connected' = FALSE
    /\ toClient' = <<>>
    /\ toServer' = <<>>
    /\ shells' = {}
    /\ UNCHANGED <<stream, via, unix, copier, feeder>>

----------------------------------------------------------------------------
(***************************************************************************)
(* The server opens a session.                                             *)
(***************************************************************************)

\* open_shell_inner calls the server, and acquire_owned finds a permit.  The
\* application awaits the response before it sends the open frame.
OpenShell(s) ==
    /\ call[s] = "unused"
    /\ CallGoes(s, "first")
    /\ admin' = [admin EXCEPT ![s] = IF EagerOpen THEN "sent" ELSE "waiting"]
    /\ UNCHANGED <<row, closed, fed, owed, linkVars, daemonVars, brokerVars>>

\* The open frame has come and validate_shell_open finds nothing wrong.
ValidateShellOpen(s) ==
    /\ call[s] = "first"
    /\ admin[s] = "sent"
    /\ connected
    /\ CallGoes(s, "validated")
    /\ UNCHANGED <<admin, row, closed, fed, owed, linkVars, daemonVars, brokerVars>>

\* create_shell_session: the row; then the audit record and the grant, which
\* may fail and leave the row.
CreateShellSession(s) ==
    /\ call[s] = "validated"
    /\ row' = [row EXCEPT ![s] = "open"]
    /\ \/ CallGoes(s, "created") /\ UNCHANGED admin
       \/ CallGoes(s, "done") /\ admin' = [admin EXCEPT ![s] = "gone"]
    /\ UNCHANGED <<closed, fed, owed, linkVars, daemonVars, brokerVars>>

\* deliver_shell_open_to_client: the registered sender is looked up, and the
\* grant and the open frame are sent one after the other.
DeliverShellOpen(s) ==
    /\ call[s] = "created"
    /\ connected
    /\ SendClient(s, "open")
    /\ via' = [via EXCEPT ![s] = stream]
    /\ CallGoes(s, "delivered")
    /\ UNCHANGED <<admin, row, closed, fed, owed, stream, connected, toServer,
                   daemonVars, brokerVars>>

\* register_shell_session, once the client was told, and the relay task.  The
\* response makes the application keep the session.
RegisterShellSession(s) ==
    /\ call[s] = "delivered"
    /\ CallGoes(s, "relay")
    /\ admin' = [admin EXCEPT ![s] = "attached"]
    /\ UNCHANGED <<row, closed, fed, owed, linkVars, daemonVars, brokerVars>>

\* The call returns an error, or its Admin is gone and it is dropped where
\* it waits; nothing is undone.  No open frame in ten seconds, or a bad one;
\* a target that is offline; an elevation challenge that does not hold; a
\* stream that is gone.
OpenShellFails(s) ==
    /\ call[s] \in {"first", "created"}
    /\ CallGoes(s, "done")
    /\ admin' = [admin EXCEPT ![s] = "gone"]
    /\ UNCHANGED <<row, closed, fed, owed, linkVars, daemonVars, brokerVars>>

----------------------------------------------------------------------------
(***************************************************************************)
(* run_shell_relay.  Every turn of its loop ends with a look at closed.    *)
(***************************************************************************)

\* session_client: the application has the session and knows its id.
SessionClient(s) == admin[s] \in {"attached", "stalled"}

\* relay_admin_frame: data past the bound ends the session, and so does a
\* frame for a closed one.
RelayAdminFrame(s) ==
    /\ call[s] = "relay"
    /\ SessionClient(s)
    /\ fed' = [fed EXCEPT ![s] = @ + 1]
    /\ CallGoes(s, IF s \in closed \/ fed[s] = InputLimit THEN "leaving" ELSE "feeding")
    /\ UNCHANGED <<admin, row, closed, owed, linkVars, daemonVars, brokerVars>>

\* client_tx.send: there is room on the stream, or the stream is gone.
FeedClient(s) ==
    /\ call[s] = "feeding"
    /\ \/ /\ Reaches(s)
          /\ SendClient(s, "data")
          /\ CallGoes(s, IF s \in closed THEN "leaving" ELSE "relay")
       \/ /\ ~Reaches(s)
          /\ CallGoes(s, "leaving")
          /\ UNCHANGED toClient
    /\ UNCHANGED <<admin, row, closed, fed, owed, stream, connected, via, toServer,
                   daemonVars, brokerVars>>

\* The third arm of the loop takes output for the Admin from admin_in_rx ...
ForwardOutput(s) ==
    /\ call[s] = "relay"
    /\ s \in owed
    /\ owed' = owed \ {s}
    /\ CallGoes(s, "forwarding")
    /\ UNCHANGED <<admin, row, closed, fed, linkVars, daemonVars, brokerVars>>

\* ... and waits in response_tx.send until the Admin reads or is gone.  No
\* deadline and no reauthorization is looked at meanwhile.
OutputForwarded(s) ==
    /\ call[s] = "forwarding"
    /\ admin[s] # "stalled"
    /\ CallGoes(s, IF s \in closed \/ admin[s] = "gone" THEN "leaving" ELSE "relay")
    /\ UNCHANGED <<admin, row, closed, fed, owed, linkVars, daemonVars, brokerVars>>

\* The Admin's stream ends or breaks the protocol (a close of the operator
\* does), the Admin is no longer authorized, next_admin_frame finds
\* shell_deadline_exceeded, or any turn finds the handle closed.
RelayEnds(s) ==
    /\ call[s] = "relay"
    /\ CallGoes(s, "leaving")
    /\ UNCHANGED <<admin, row, closed, fed, owed, linkVars, daemonVars, brokerVars>>

\* unregister_shell_session.  Nothing looks at the handle any more.
UnregisterShellSession(s) ==
    /\ call[s] = "leaving"
    /\ CallGoes(s, "ending")
    /\ closed' = closed \ {s}
    /\ fed' = [fed EXCEPT ![s] = 0]
    /\ owed' = owed \ {s}
    /\ UNCHANGED <<admin, row, linkVars, daemonVars, brokerVars>>

\* end_shell_session: the row, unless it has an end; the statement may fail.
EndShellRow(s) ==
    /\ call[s] = "ending"
    /\ \E end \in {row[s], "ended"} : row' = [row EXCEPT ![s] = end]
    /\ CallGoes(s, "telling")
    /\ UNCHANGED <<admin, closed, fed, owed, linkVars, daemonVars, brokerVars>>

\* Mutant: only the Admin is told.
TellClientSkips(s) ==
    /\ call[s] = "telling"
    /\ CallGoes(s, "done")
    /\ admin' = [admin EXCEPT ![s] = "gone"]
    /\ UNCHANGED <<row, closed, fed, owed, linkVars, daemonVars, brokerVars>>

\* The close frame to the client, and to the Admin, whose registry loses its
\* entry.
TellClient(s) ==
    /\ call[s] = "telling"
    /\ \/ Reaches(s) /\ SendClient(s, "close")
       \/ ~Reaches(s) /\ UNCHANGED toClient
    /\ CallGoes(s, "done")
    /\ admin' = [admin EXCEPT ![s] = "gone"]
    /\ UNCHANGED <<row, closed, fed, owed, stream, connected, via, toServer,
                   daemonVars, brokerVars>>

\* shell_housekeeping: a row of ten minutes ago with no relay is abandoned.
\* Opening takes less time than that.
ShellHousekeeping(s) ==
    /\ row[s] = "open"
    /\ call[s] \in {"ending", "telling", "done"}
    /\ row' = [row EXCEPT ![s] = "ended"]
    /\ UNCHANGED <<admin, call, closed, fed, owed, linkVars, daemonVars, brokerVars>>

----------------------------------------------------------------------------
(***************************************************************************)
(* route_client_shell_frame, in the task of the control stream.            *)
(***************************************************************************)

Delivers(s, kind) == connected /\ toServer # <<>> /\ Head(toServer) = Frame(kind, s)

\* relay_client_data: output goes to the Admin's channel, or is dropped when
\* the session is closed or the channel is full.
RouteData(s) ==
    /\ Delivers(s, "data")
    /\ s \in Registered
    /\ toServer' = Tail(toServer)
    /\ owed' = owed \cup ({s} \ closed)
    /\ UNCHANGED <<admin, call, row, closed, fed, stream, connected, via, toClient,
                   daemonVars, brokerVars>>

\* Output of a session that is not registered ends the control stream.
RouteStrayData(s) ==
    /\ Delivers(s, "data")
    /\ s \notin Registered
    /\ BreakStream
    /\ UNCHANGED <<serverVars, brokerVars>>

\* A close of a session that is not registered is ignored.
RouteClose(s) ==
    /\ Delivers(s, "close")
    /\ toServer' = Tail(toServer)
    /\ closed' = closed \cup ({s} \cap Registered)
    /\ UNCHANGED <<admin, call, row, fed, owed, stream, connected, via, toClient,
                   daemonVars, brokerVars>>

----------------------------------------------------------------------------
(***************************************************************************)
(* The daemon, in the loop over the frames of its control stream.          *)
(***************************************************************************)

Arrives(s, kind) == connected /\ toClient # <<>> /\ Head(toClient) = Frame(kind, s)

\* spawn_broker_session: connected to the broker, and a thread that will run
\* shell_relay_loop; it has the receiver of the channel to the broker.
SpawnBrokerSession(s) ==
    /\ copier' = [copier EXCEPT ![s] = "starting"]
    /\ feeder' = [feeder EXCEPT ![s] = "up"]

\* open_shell_session: no room, a grant that does not fit or a broker that
\* cannot be reached are answered with a close.
OpenShellSession(s) ==
    /\ Arrives(s, "open")
    /\ toClient' = Tail(toClient)
    /\ \/ /\ SpawnBrokerSession(s)
          /\ shells' = shells \cup {s}
          /\ UNCHANGED toServer
       \/ /\ SendServer(s, "close")
          /\ UNCHANGED <<shells, copier, feeder>>
    /\ UNCHANGED <<serverVars, stream, connected, via, unix, brokerVars>>

\* to_broker.send: the control loop waits for room in the channel.
SendBroker(s, kind) ==
    /\ Len(toBroker[s]) < QueueLimit
    /\ toBroker' = [toBroker EXCEPT ![s] = Append(@, kind)]

\* relay_shell_data and relay_shell_resize; a session the map does not have
\* is passed over.
RelayShellData(s) ==
    /\ Arrives(s, "data")
    /\ toClient' = Tail(toClient)
    /\ \/ s \in shells /\ feeder[s] = "up" /\ SendBroker(s, "data")
       \/ s \notin shells /\ UNCHANGED toBroker
    /\ UNCHANGED <<serverVars, stream, connected, via, toServer, daemonVars,
                   fromBroker, serving, stop, written, input, output, pty>>

\* A relay whose sending thread is over ends the control stream.
RelayStrayData(s) ==
    /\ Arrives(s, "data")
    /\ s \in shells
    /\ feeder[s] # "up"
    /\ BreakStream
    /\ UNCHANGED <<serverVars, brokerVars>>

\* relay_shell_close: the sender is dropped after a last frame.
RelayShellClose(s) ==
    /\ Arrives(s, "close")
    /\ toClient' = Tail(toClient)
    /\ shells' = shells \ {s}
    /\ IF s \in shells /\ feeder[s] = "up" THEN SendBroker(s, "close")
       ELSE UNCHANGED toBroker
    /\ UNCHANGED <<serverVars, stream, connected, via, toServer, unix, copier,
                   feeder, fromBroker, serving, stop, written, input, output, pty>>

(***************************************************************************)
(* The two threads of a relay, and the two halves of its connection.       *)
(***************************************************************************)

\* shell_relay_loop starts: the open frame for the broker, and the sending
\* thread.  When the connection cannot be duplicated or written to, it returns
\* without a word to the server, and the channel goes with it.
StartRelay(s) ==
    /\ copier[s] = "starting"
    /\ \/ /\ copier' = [copier EXCEPT ![s] = "reading"]
          /\ serving' = [serving EXCEPT ![s] = "accepted"]
          /\ UNCHANGED <<feeder, toBroker>>
       \/ /\ copier' = [copier EXCEPT ![s] = "over"]
          /\ feeder' = [feeder EXCEPT ![s] = "over"]
          /\ toBroker' = [toBroker EXCEPT ![s] = <<>>]
          /\ UNCHANGED serving
    /\ UNCHANGED <<serverVars, linkVars, unix, shells, fromBroker, stop, written,
                   input, output, pty>>

DaemonEnd(s) == copier[s] \in {"reading", "joining"} \/ feeder[s] = "up"

BrokerEnd(s) ==
    serving[s] = "accepted" \/ input[s] = "reading" \/ output[s] = "reading"

\* The reading thread leaves its loop with a close for the server, if that
\* can still be reached.
CopierLeaves(s) ==
    /\ IF Reaches(s) THEN SendServer(s, "close") ELSE UNCHANGED toServer
    /\ copier' = [copier EXCEPT ![s] = "joining"]

\* shell_relay_loop: output is passed on; output that cannot be, a close, an
\* error, and the end of the connection leave the loop.
CopyFrame(s) ==
    /\ copier[s] = "reading"
    /\ IF fromBroker[s] = <<>>
       THEN ~BrokerEnd(s) /\ CopierLeaves(s) /\ UNCHANGED fromBroker
       ELSE /\ fromBroker' = [fromBroker EXCEPT ![s] = Tail(@)]
            /\ IF Head(fromBroker[s]) = "data" /\ Reaches(s)
               THEN SendServer(s, "data") /\ UNCHANGED copier
               ELSE CopierLeaves(s)
    /\ UNCHANGED <<serverVars, stream, connected, via, toClient, unix, shells, feeder,
                   toBroker, serving, stop, written, input, output, pty>>

\* On Unix the connection comes from tokio's into_std, which leaves it
\* non-blocking: a read or a write that would have to wait fails.  A Windows
\* pipe waits.
CopyWouldBlock(s) ==
    /\ copier[s] = "reading"
    /\ unix
    /\ fromBroker[s] = <<>>
    /\ CopierLeaves(s)
    /\ UNCHANGED <<serverVars, stream, connected, via, toClient, unix, shells, feeder,
                   brokerVars>>

\* A connection with no room left ends the sending thread between two frames
\* or inside one; what was not written goes with the channel.
FeederWouldBlock(s) ==
    /\ feeder[s] = "up"
    /\ copier[s] # "starting"
    /\ unix
    /\ \E n \in 0..Len(toBroker[s]) - 1 :
          toBroker' = [toBroker EXCEPT ![s] = SubSeq(@, 1, n)]
    /\ feeder' = [feeder EXCEPT ![s] = "failed"]
    /\ UNCHANGED <<serverVars, linkVars, unix, shells, copier, fromBroker, serving,
                   stop, written, input, output, pty>>

\* The sending thread ends when its sender is dropped or the broker is gone.
FeederEnds(s) ==
    /\ feeder[s] = "up"
    /\ copier[s] # "starting"
    /\ s \notin shells \/ (toBroker[s] # <<>> /\ ~BrokerEnd(s))
    /\ feeder' = [feeder EXCEPT ![s] = "over"]
    /\ UNCHANGED <<serverVars, linkVars, unix, shells, copier, brokerVars>>

\* send_thread.join; ended is set and the connection dropped.
CopierEnds(s) ==
    /\ copier[s] = "joining"
    /\ feeder[s] # "up"
    /\ copier' = [copier EXCEPT ![s] = "over"]
    /\ UNCHANGED <<serverVars, linkVars, unix, shells, feeder, brokerVars>>

----------------------------------------------------------------------------
(***************************************************************************)
(* The broker.                                                             *)
(***************************************************************************)

\* A grant that does not verify or was used, parameters it does not bind and
\* a machine with no free slot drop the connection; credentials or an account
\* that will not do, and a terminal that does not open, are answered with an
\* error frame.
SessionRefusals == {<<>>, <<"error">>}

\* PtySession::open.
OpenTerminal(s) == pty' = [pty EXCEPT ![s] = "alive"]

\* run_session, up to the watchdog.
StartThreads(s) ==
    /\ serving' = [serving EXCEPT ![s] = "running"]
    /\ input' = [input EXCEPT ![s] = "reading"]
    /\ output' = [output EXCEPT ![s] = "reading"]

\* serve_session.  When the terminal of a shell that was spawned cannot be taken
\* apart (an error frame) or the opened frame cannot be written, the shell is
\* not killed: its terminal is closed, and it may go on without one.
ServeSession(s) ==
    /\ serving[s] = "accepted"
    /\ \/ /\ serving' = [serving EXCEPT ![s] = "over"]
          /\ \E reply \in SessionRefusals :
                fromBroker' = [fromBroker EXCEPT ![s] = reply]
          /\ pty' \in {pty, [pty EXCEPT ![s] = "orphan"]}
          /\ UNCHANGED <<input, output>>
       \/ /\ OpenTerminal(s)
          /\ StartThreads(s)
          /\ UNCHANGED fromBroker
    /\ UNCHANGED <<serverVars, linkVars, daemonVars, toBroker, stop, written>>

\* The thread leaves input_loop and sets stop.
InputEnds(s) ==
    /\ input' = [input EXCEPT ![s] = "over"]
    /\ stop' = stop \cup {s}

\* input_loop, from one read to the next: input for the terminal, a close,
\* or the end of the connection.  It looks at stop before it reads again.
InputThread(s) ==
    /\ input[s] = "reading"
    /\ IF toBroker[s] = <<>>
       THEN ~DaemonEnd(s) /\ InputEnds(s) /\ UNCHANGED toBroker
       ELSE /\ toBroker' = [toBroker EXCEPT ![s] = Tail(@)]
            /\ IF Head(toBroker[s]) = "data" /\ pty[s] = "alive" /\ s \notin stop
               THEN UNCHANGED <<input, stop>>
               ELSE InputEnds(s)
    /\ UNCHANGED <<serverVars, linkVars, daemonVars, fromBroker, serving,
                   written, output, pty>>

\* As in the daemon, a Unix connection is non-blocking.
InputWouldBlock(s) ==
    /\ input[s] = "reading"
    /\ unix
    /\ toBroker[s] = <<>>
    /\ InputEnds(s)
    /\ UNCHANGED <<serverVars, linkVars, daemonVars, toBroker, fromBroker,
                   serving, written, output, pty>>

\* write_frame to the daemon.  It fails when nobody has the other end and, on
\* Unix, when there is no room.
WriteFrame(s, kind, done) ==
    /\ done => DaemonEnd(s)
    /\ ~done => unix \/ ~DaemonEnd(s)
    /\ fromBroker' = IF done THEN [fromBroker EXCEPT ![s] = Append(@, kind)]
                     ELSE fromBroker

\* output_loop, when the shell has exited or its output passes the bound: a
\* close frame for the daemon.
OutputEnds(s) ==
    /\ output[s] = "reading"
    /\ pty[s] = "dead" \/ written[s] = OutputLimit
    /\ stop' = stop \cup {s}
    /\ \E done \in BOOLEAN : WriteFrame(s, "close", done)
    /\ output' = [output EXCEPT ![s] = "over"]
    /\ UNCHANGED <<serverVars, linkVars, daemonVars, toBroker, serving,
                   written, input, pty>>

\* output_loop, from one read to the next.  A write that fails ends the
\* thread and does not set stop; stop, seen after a write, ends it without a
\* close frame.
OutputData(s) ==
    /\ output[s] = "reading"
    /\ pty[s] = "alive"
    /\ written[s] < OutputLimit
    /\ written' = [written EXCEPT ![s] = @ + 1]
    /\ \E done \in BOOLEAN :
          /\ WriteFrame(s, "data", done)
          /\ output' = [output EXCEPT ![s] = IF done /\ s \notin stop THEN @ ELSE "over"]
    /\ UNCHANGED <<serverVars, linkVars, daemonVars, toBroker, serving, stop,
                   input, pty>>

\* output_loop, when reading from the terminal fails, or stop was set before
\* it first reads: the daemon is told nothing.
OutputFails(s) ==
    /\ output[s] = "reading"
    /\ stop' = stop \cup {s}
    /\ output' = [output EXCEPT ![s] = "over"]
    /\ UNCHANGED <<serverVars, linkVars, daemonVars, toBroker, fromBroker,
                   serving, written, input, pty>>

\* The idle or the absolute timeout of run_session.
SessionTimeout(s) ==
    /\ serving[s] = "running"
    /\ s \notin stop
    /\ stop' = stop \cup {s}
    /\ UNCHANGED <<serverVars, linkVars, daemonVars, toBroker, fromBroker,
                   serving, written, input, output, pty>>

\* Mutant: the controller is dropped and the process group left alone.
KillSessionSpares(s) ==
    /\ serving[s] = "running"
    /\ s \in stop
    /\ serving' = [serving EXCEPT ![s] = "stopping"]
    /\ UNCHANGED <<serverVars, linkVars, daemonVars, toBroker, fromBroker,
                   stop, written, input, output, pty>>

\* The watchdog sees stop: PtyController::kill, and the master is dropped.
KillSession(s) ==
    /\ serving[s] = "running"
    /\ s \in stop
    /\ serving' = [serving EXCEPT ![s] = "stopping"]
    /\ pty' = [pty EXCEPT ![s] = "dead"]
    /\ UNCHANGED <<serverVars, linkVars, daemonVars, toBroker, fromBroker,
                   stop, written, input, output>>

\* Both threads are joined, the reservation and what they shared dropped.
JoinThreads(s) ==
    /\ serving[s] = "stopping"
    /\ input[s] = "over"
    /\ output[s] = "over"
    /\ serving' = [serving EXCEPT ![s] = "over"]
    /\ stop' = stop \ {s}
    /\ written' = [written EXCEPT ![s] = 0]
    /\ toBroker' = [toBroker EXCEPT ![s] = <<>>]
    /\ UNCHANGED <<serverVars, linkVars, daemonVars, fromBroker, input, output,
                   pty>>

----------------------------------------------------------------------------
(***************************************************************************)
(* The environment.                                                        *)
(***************************************************************************)

StreamLost ==
    /\ connected
    /\ stream < MaxBreaks
    /\ BreakStream
    /\ UNCHANGED <<serverVars, brokerVars>>

Reconnect ==
    /\ ~connected
    /\ stream < MaxBreaks
    /\ connected' = TRUE
    /\ stream' = stream + 1
    /\ UNCHANGED <<serverVars, via, toClient, toServer, daemonVars,
                   brokerVars>>

\* The Admin no longer reads, and the response channel is full.
AdminStalls(s) ==
    /\ admin[s] = "attached"
    /\ admin' = [admin EXCEPT ![s] = "stalled"]
    /\ UNCHANGED <<call, row, closed, fed, owed, linkVars, daemonVars, brokerVars>>

\* shell_close_inner, or the application is gone.
ShellClose(s) ==
    /\ SessionClient(s)
    /\ admin' = [admin EXCEPT ![s] = "gone"]
    /\ UNCHANGED <<call, row, closed, fed, owed, linkVars, daemonVars, brokerVars>>

ShellExits(s) ==
    /\ pty[s] \in {"alive", "orphan"}
    /\ pty' = [pty EXCEPT ![s] = "dead"]
    /\ UNCHANGED <<serverVars, linkVars, daemonVars, toBroker, fromBroker,
                   serving, stop, written, input, output>>

----------------------------------------------------------------------------
OpenStep(s) ==
    \/ ValidateShellOpen(s) \/ CreateShellSession(s) \/ DeliverShellOpen(s)
    \/ RegisterShellSession(s) \/ OpenShellFails(s)

EndStep(s) == UnregisterShellSession(s) \/ EndShellRow(s) \/ TellClient(s)

RouteStep(s) == RouteData(s) \/ RouteStrayData(s) \/ RouteClose(s)

DaemonStep(s) ==
    \/ OpenShellSession(s) \/ RelayShellData(s) \/ RelayStrayData(s)
    \/ RelayShellClose(s)

ShellNext ==
    \/ \E s \in Sessions :
          \/ OpenShell(s) \/ OpenStep(s) \/ AdminStalls(s) \/ ShellClose(s)
          \/ RelayAdminFrame(s) \/ FeedClient(s)
          \/ ForwardOutput(s) \/ OutputForwarded(s) \/ RelayEnds(s)
          \/ EndStep(s) \/ ShellHousekeeping(s) \/ RouteStep(s)
          \/ DaemonStep(s) \/ StartRelay(s) \/ CopyFrame(s) \/ CopyWouldBlock(s)
          \/ FeederWouldBlock(s) \/ FeederEnds(s) \/ CopierEnds(s)
          \/ ServeSession(s) \/ InputThread(s) \/ InputWouldBlock(s)
          \/ OutputEnds(s) \/ OutputData(s) \/ OutputFails(s) \/ SessionTimeout(s)
          \/ KillSession(s) \/ JoinThreads(s) \/ ShellExits(s)
    \/ StreamLost \/ Reconnect

ShellSpec == ShellInit /\ [][ShellNext]_shellVars

\* The runtimes of server and daemon run every task that can run, the
\* broker's threads are scheduled, and deadlines are reached: the watchdog looks
\* at the clock twice a second, the relay at every turn of its loop and every
\* five seconds, but not while it sends.  An Admin reads unless it stalls.
\* Nobody has to connect, type, print or exit.
ShellFair ==
    \A s \in Sessions :
        /\ WF_shellVars(OpenStep(s))
        /\ SF_shellVars(RelayEnds(s))
        /\ WF_shellVars(FeedClient(s))
        /\ WF_shellVars(OutputForwarded(s))
        /\ WF_shellVars(EndStep(s))
        /\ WF_shellVars(ShellHousekeeping(s))
        /\ WF_shellVars(RouteStep(s))
        /\ WF_shellVars(DaemonStep(s))
        /\ WF_shellVars(StartRelay(s))
        /\ WF_shellVars(CopyFrame(s) \/ CopyWouldBlock(s))
        /\ WF_shellVars(FeederEnds(s) \/ CopierEnds(s))
        /\ WF_shellVars(ServeSession(s))
        /\ WF_shellVars(InputThread(s) \/ InputWouldBlock(s))
        /\ WF_shellVars(OutputEnds(s))
        /\ WF_shellVars(SessionTimeout(s) \/ KillSession(s) \/ JoinThreads(s))

FairShellSpec == ShellSpec /\ ShellFair

----------------------------------------------------------------------------
ShellTypeOK ==
    /\ call \in [Sessions -> Calls]
    /\ admin \in [Sessions -> {"away", "waiting", "sent", "attached", "stalled", "gone"}]
    /\ row \in [Sessions -> {"none", "open", "ended"}]
    /\ closed \subseteq Sessions
    /\ fed \in [Sessions -> 0..InputLimit + 1]
    /\ owed \subseteq Sessions
    /\ stream \in 0..MaxBreaks
    /\ connected \in BOOLEAN
    /\ via \in [Sessions -> 0..MaxBreaks]
    /\ unix \in BOOLEAN
    /\ shells \subseteq Sessions
    /\ copier \in [Sessions -> {"none", "starting", "reading", "joining", "over"}]
    /\ feeder \in [Sessions -> {"none", "up", "over", "failed"}]
    /\ serving \in [Sessions -> {"none", "accepted", "running", "stopping", "over"}]
    /\ stop \subseteq Sessions
    /\ written \in [Sessions -> 0..OutputLimit]
    /\ input \in [Sessions -> {"none", "reading", "over"}]
    /\ output \in [Sessions -> {"none", "reading", "over"}]
    /\ pty \in [Sessions -> {"none", "alive", "orphan", "dead"}]

InQueue(x, queue) == \E i \in DOMAIN queue : queue[i] = x

\* While the control stream it was opened on lasts, a session that the server
\* has ended (end_shell_session: deadline, revocation, protocol error, closed
\* by either side) does not go on reading input on the device unless its
\* close frame is still on the way: no race of the relay, the routing of
\* client frames and the daemon's map of relays loses the close.  Excepted is
\* a session whose sending thread could not write to the broker at once: the
\* close is lost with its channel, and the broker reads on until a deadline.
EndedIsTold ==
    \A s \in Sessions :
        (/\ call[s] = "done" /\ Reaches(s) /\ input[s] = "reading"
         /\ feeder[s] # "failed") =>
            \/ InQueue(Frame("close", s), toClient)
            \/ InQueue("close", toBroker[s])

GivenBack(s) ==
    serving[s] = "over" /\ copier[s] = "over" /\ feeder[s] \in {"over", "failed"}

\* Every connection the broker accepts for a shell ends with no shell process
\* alive (the watchdog of run_session, PtyController::kill) and, when the
\* session's control stream lasts and its Admin reads, with its threads joined
\* and its slot given back (the joins of run_session and shell_relay_loop,
\* which wait for each other across the connection).  Not killed, but left
\* without a terminal, is a shell whose session fails between spawn_command
\* and run_session.  An Admin that stalls keeps the relay of the server in
\* response_tx.send, and with it the threads of the daemon.
ShellsEnd ==
    \A s \in Sessions :
        serving[s] = "accepted" ~>
            /\ pty[s] \in {"none", "orphan", "dead"}
            /\ GivenBack(s) \/ ~Reaches(s) \/ admin[s] = "stalled"

\* The same without the condition on the stream, which SessionReservation
\* promises ("no error path can leak it").  It does not hold: after a timeout
\* on a stream that broke, input_loop and shell_relay_loop each wait for the
\* other to close the connection.  No run checks it.
SlotsReleased == \A s \in Sessions : serving[s] = "accepted" ~> GivenBack(s)

=============================================================================
