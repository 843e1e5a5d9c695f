--------------------------- MODULE ControlStreams ---------------------------
(***************************************************************************)
(* The server's side of the clients' control streams                       *)
(* (crates/centrald-server/src/services.rs, control_stream): one task per  *)
(* stream, the registry client_streams that routes to the newest stream of *)
(* a client, and the reauthorization of the peer every five seconds.       *)
(*                                                                         *)
(* A client may open a second stream before the server has noticed the end *)
(* of the first.  The outbound channel of a stream holds Capacity frames;  *)
(* a task that sends into a full channel waits, and does nothing else,     *)
(* until the peer reads or its connection is gone.  What frames do to jobs *)
(* is in JobPipeline; here a frame either wants an answer (a heartbeat),   *)
(* wants none, or breaks the protocol.                                     *)
(***************************************************************************)
EXTENDS Naturals

CONSTANTS
    Clients,   \* client identities
    Streams,   \* control streams, each opened once
    Capacity   \* size of the outbound channel

ASSUME StreamCapacity == Capacity \in Nat \ {0}

VARIABLES
    authorized,  \* identities whose presented certificate is still good
    task,        \* where the stream's task is
    owner,       \* the identity the stream authenticated as
    outbox,      \* frames in the outbound channel
    gone,        \* streams whose peer has disconnected
    registry     \* client_streams

streamVars == <<authorized, task, owner, outbox, gone, registry>>

NoOne == "none"

ASSUME StreamNone == NoOne \notin Streams /\ NoOne \notin Clients

\* Inside sender.send: the answer to a heartbeat, the grant and the job that
\* may follow it, or the status that ends the stream.
Sending == {"answering", "granting", "delivering", "refusing"}

\* hello: waits for the first frame; live: the select! loop; leaving: past
\* the loop; removing: found itself registered.
Tasks == {"unused", "hello", "live", "leaving", "removing", "done"} \cup Sending

\* Tasks that may still be registered.
Running == {"live", "leaving", "removing"} \cup Sending

----------------------------------------------------------------------------
StreamInit ==
    /\ authorized = Clients
    /\ task = [s \in Streams |-> "unused"]
    /\ owner = [s \in Streams |-> NoOne]
    /\ outbox = [s \in Streams |-> 0]
    /\ gone = {}
    /\ registry = [i \in Clients |-> NoOne]

Goto(s, there) == task' = [task EXCEPT ![s] = there]

\* authenticate, when the stream is opened.
AuthenticateStream(s, i) ==
    /\ task[s] = "unused"
    /\ i \in authorized
    /\ Goto(s, "hello")
    /\ owner' = [owner EXCEPT ![s] = i]
    /\ UNCHANGED <<authorized, outbox, gone, registry>>

\* register_client_stream.
Register(s) == registry' = [registry EXCEPT ![owner[s]] = s]

\* The Hello is accepted and the task spawned; the identity is not checked
\* again before that.
HandleClientHello(s) ==
    /\ task[s] = "hello"
    /\ s \notin gone
    /\ Register(s)
    /\ Goto(s, "live")
    /\ UNCHANGED <<authorized, owner, outbox, gone>>

\* No Hello in ten seconds, a bad one, or the peer is gone.
HelloFails(s) ==
    /\ task[s] = "hello"
    /\ Goto(s, "done")
    /\ UNCHANGED <<authorized, owner, outbox, gone, registry>>

\* Mutant: the tick only looks at peers that have left.
AuthorizationTickIdle(s) ==
    /\ task[s] = "live"
    /\ owner[s] \notin authorized
    /\ s \in gone
    /\ Goto(s, "refusing")
    /\ UNCHANGED <<authorized, owner, outbox, gone, registry>>

\* The tick of a peer that is still good changes nothing.
AuthorizationTick(s) ==
    /\ task[s] = "live"
    /\ owner[s] \notin authorized
    /\ Goto(s, "refusing")
    /\ UNCHANGED <<authorized, owner, outbox, gone, registry>>

\* handle_client_frame: a heartbeat, which is answered, or a frame that ends
\* the stream.
ReceiveFrame(s, answer) ==
    /\ task[s] = "live"
    /\ s \notin gone
    /\ Goto(s, answer)
    /\ UNCHANGED <<authorized, owner, outbox, gone, registry>>

\* inbound.message() returns None or an error.
StreamEnds(s) ==
    /\ task[s] = "live"
    /\ s \in gone
    /\ Goto(s, "leaving")
    /\ UNCHANGED <<authorized, owner, outbox, gone, registry>>

Room(s) == outbox[s] < Capacity

\* What the task does once a frame is in the channel.  After the answer
\* claim_next_job finds a job, finds none, or fails.
AfterSend ==
    [answering |-> {"granting", "live", "refusing"}, granting |-> {"delivering"},
     delivering |-> {"live"}, refusing |-> {"leaving"}]

\* sender.send returns: there is room, or the receiver was dropped.
Sent(s) ==
    /\ task[s] \in Sending
    /\ \/ /\ s \notin gone
          /\ Room(s)
          /\ outbox' = [outbox EXCEPT ![s] = @ + 1]
          /\ \E there \in AfterSend[task[s]] : Goto(s, there)
       \/ /\ s \in gone
          /\ Goto(s, "leaving")
          /\ UNCHANGED outbox
    /\ UNCHANGED <<authorized, owner, gone, registry>>

\* Mutant: leaves the registry alone.
UnregisterCheckSkips(s) ==
    /\ task[s] = "leaving"
    /\ Goto(s, "done")
    /\ UNCHANGED <<authorized, owner, outbox, gone, registry>>

\* unregister_client_stream, its first lock: is it still the registered one?
UnregisterCheck(s) ==
    /\ task[s] = "leaving"
    /\ Goto(s, IF registry[owner[s]] = s THEN "removing" ELSE "done")
    /\ UNCHANGED <<authorized, owner, outbox, gone, registry>>

\* Its second lock: whoever is registered now is removed.
UnregisterRemove(s) ==
    /\ task[s] = "removing"
    /\ registry' = [registry EXCEPT ![owner[s]] = NoOne]
    /\ Goto(s, "done")
    /\ UNCHANGED <<authorized, owner, outbox, gone>>

----------------------------------------------------------------------------
(***************************************************************************)
(* The environment.                                                        *)
(***************************************************************************)

\* The identity is revoked, or the certificate retires or expires.
Deauthorize(i) ==
    /\ i \in authorized
    /\ authorized' = authorized \ {i}
    /\ UNCHANGED <<task, owner, outbox, gone, registry>>

PeerReads(s) ==
    /\ s \notin gone
    /\ outbox[s] > 0
    /\ outbox' = [outbox EXCEPT ![s] = @ - 1]
    /\ UNCHANGED <<authorized, task, owner, gone, registry>>

PeerGone(s) ==
    /\ task[s] \notin {"unused", "done"}
    /\ s \notin gone
    /\ gone' = gone \cup {s}
    /\ UNCHANGED <<authorized, task, owner, outbox, registry>>

\* What the server's runtime schedules for stream s.
TaskStep(s) ==
    \/ HandleClientHello(s) \/ HelloFails(s) \/ AuthorizationTick(s)
    \/ StreamEnds(s) \/ Sent(s) \/ UnregisterCheck(s) \/ UnregisterRemove(s)

StreamNext ==
    \/ \E s \in Streams :
          \/ TaskStep(s) \/ PeerReads(s) \/ PeerGone(s)
          \/ \E answer \in {"answering", "refusing"} : ReceiveFrame(s, answer)
          \/ \E i \in Clients : AuthenticateStream(s, i)
    \/ \E i \in Clients : Deauthorize(i)

StreamSpec == StreamInit /\ [][StreamNext]_streamVars

\* The runtime runs every task that can run, and select! is fair between a
\* tick that is due and frames that keep coming.
ServerFair ==
    \A s \in Streams :
        /\ WF_streamVars(HandleClientHello(s) \/ HelloFails(s))
        /\ SF_streamVars(AuthorizationTick(s))
        /\ WF_streamVars(StreamEnds(s))
        /\ WF_streamVars(Sent(s))
        /\ WF_streamVars(UnregisterCheck(s) \/ UnregisterRemove(s))

FairStreamSpec == StreamSpec /\ ServerFair

\* The peer is the repository's own daemon, which keeps reading its stream
\* (daemon.rs, connect_once), or loses the connection.
ReadingSpec == FairStreamSpec /\ \A s \in Streams : WF_streamVars(PeerReads(s) \/ PeerGone(s))

----------------------------------------------------------------------------
StreamTypeOK ==
    /\ authorized \subseteq Clients
    /\ task \in [Streams -> Tasks]
    /\ owner \in [Streams -> Clients \cup {NoOne}]
    /\ outbox \in [Streams -> 0..Capacity]
    /\ gone \subseteq Streams
    /\ registry \in [Clients -> Streams \cup {NoOne}]

\* Shells are routed only to a stream whose task runs and that authenticated
\* as the client: no sequence of reconnections leaves the sender of a dead
\* stream in client_streams.
RegisteredIsRunning ==
    \A i \in Clients : registry[i] # NoOne =>
        owner[registry[i]] = i /\ task[registry[i]] \in Running

\* Once a client's certificate is no longer good its streams end and it is
\* taken off the registry, whatever it sends meanwhile (THREAT_MODEL.md:
\* "Control streams ... periodically reauthorize the certificate").
RevokedIsDisconnected ==
    \A i \in Clients : i \notin authorized ~>
        /\ registry[i] = NoOne
        /\ \A s \in Streams : owner[s] = i => task[s] = "done"

\* unregister_client_stream: "Removes the client stream only if it is still
\* the registered sender."
RemovesOnlyItself ==
    [][\A i \in Clients : registry[i] # NoOne /\ registry'[i] = NoOne =>
          task[registry[i]] = "removing"]_streamVars
=============================================================================
