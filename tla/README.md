# A TLA+ verification project for CentralD

CentralD manages devices from one server: an Ubuntu host with PostgreSQL, an Admin desktop
application that talks to it over mutual TLS, and on every managed device an unprivileged
client daemon and a privileged broker. The source is a Rust workspace
(`crates/centrald-{server,client,common,platform,pki,protocol}`), a Tauri application
(`apps/`) and packaging. This project models the parts of it in which the order of steps,
the moment of a crash or the loss of a message decides whether the system is right, checks
them with TLC on small instances, and proves the safety properties of nearly all of its
modules with TLAPS for all instances.

All paths below are relative to the repository; `services.rs`, `manage.rs`,
`config_lock.rs`, `main.rs`, `local_audit.rs` and `audit_export.rs` are in
`crates/centrald-server/src`, and so are `setup.rs`, `setup_recovery.rs`, `nuke.rs`,
`local_postgres.rs`, `db.rs`, `local_control.rs` and `shell.rs` (unless marked *Admin*);
`broker.rs` (unless marked *platform*), `broker_session.rs`, `ptys.rs`, `ledger.rs`,
`daemon.rs` and `enrollment.rs` are in `crates/centrald-client/src`, `active_pointer.rs` in
`crates/centrald-common/src`, `profiles.rs` in `apps/admin/src-tauri/src`. `PROJECT.json` maps every definition to the lines it models.

Contents: [Inventory](#inventory) · [Modules and how they correspond to the
code](#modules-and-how-they-correspond-to-the-code) · [Runs](#runs) · [Fairness](#fairness)
· [Proofs](#proofs) · [Where the repository and its code
disagree](#where-the-repository-and-its-code-disagree) · [Not modelled](#not-modelled) ·
[Plan](#plan) · [Running it](#running-it)

## Inventory

Two compile-time gates are closed at this commit: `PRIVILEGED_OPERATIONS_ENABLED` and
`TERMINAL_SESSIONS_ENABLED` (`centrald-common/src/lib.rs:23,26`). The code behind them
(privileged jobs, broker dispatch, shells) is complete and tested; `Broker`, `JobPipeline` and
`ShellSessions` model it with the gates open, which is what it has to be right for. Everything else modelled here is
live.

| Component | State | Operations | What makes it hard |
| --- | --- | --- | --- |
| Job queue (`services.rs`, `0001_initial.sql`) | tables `jobs`, `job_events`; delivery and start leases | `start_job`, `claim_next_job`, `acknowledge_job_delivery`, `persist_job_event`, `maintenance_once`, `stream_job` | untrusted clients sending anything at any time; leases that lapse; a sweep racing the client; redelivery |
| Privileged broker (`broker.rs`, `ledger.rs`, *platform* `broker.rs`) | replay set, consumed-grant journal, execution ledger, execution mutex | verify and consume a grant, look up, mark, execute, record, compact, restart | overlapping connections; crashes between mark, run and record; records that expire; compaction |
| Job path (`services.rs`, `daemon.rs`) | frames in flight, the daemon's one job | deliver, acknowledge, submit, report | lost and late frames, two streams of one client, deaths of daemon and broker, time-outs racing answers |
| Identity registry (`services.rs`, `manage.rs`) | tables `enrollment_keys`, `identities`, `identity_certificates` | create and revoke keys, enroll, activate, renew, replace, revoke, authenticate, sweep | reads without locks used after slow work; several renewals of one device; two consoles revoking |
| Control streams (`services.rs`) | registry `client_streams`, one task and one bounded channel per stream | register, receive, answer, reauthorize, unregister | reconnection before the old stream has gone; a full channel |
| Active credential pointer (`active_pointer.rs`) | three files | publish, commit, roll back, read, recover | a crash between any two file operations, and then a different operation |
| Client credential life cycle (`enrollment.rs`, `daemon.rs`, `state_lock.rs`) | pointer, generations on disk, calls in flight | enroll, reenroll, finalize, renew | a call that the server carries out and whose answer is lost; crashes around it; late requests |
| Configuration transactions (`config_lock.rs`, `services.rs`, `manage.rs`) | configuration and environment files, stages, journals, commit marker | `update_server_settings`, `save_config`, database update, recovery | crashes between file operations; operations that fail after their effect; recovery that is interrupted |
| PKI rotation (`manage.rs`, `main.rs`) | root, issuers, leaf, key, host name; three journals; backups; retirement journal | leaf renewal and host change, issuer rotation, root replacement, recovery, probe and retire | half-done renames, journals of different kinds, a server that serves what it read earlier |
| Audit trail (`services.rs`, `manage.rs`, `local_audit.rs`, `audit_export.rs`) | table `audit_entries`, local journal, export files | append, record locally, reconcile, export, verify | commits out of order, torn lines, repeated reconciliation, rows that hashed entries refer to |
| Installation (`setup.rs`, `setup_recovery.rs`, `nuke.rs`, `local_postgres.rs`, `db.rs`, `local_control.rs`, `main.rs`) | output files, roles, databases and their ownership markers, two journals, the locks of commands and server | initial setup, its recovery, `--nuke`, its resumption, start of a server | a crash or failed step between any two of files, PostgreSQL and journals; a database that is someone else's; a server starting meanwhile |
| Interactive shells (`services.rs`, `shell.rs`, `daemon.rs`, `broker_session.rs`, `ptys.rs`, *Admin* `shell.rs`) | row and handle of a session, relay task, the daemon's map of relays and two threads, the broker's three threads, the terminal | open, relay, close from either side, time-outs, limits, housekeeping | nine actors that each may end the session; a stream that breaks; threads that join each other over a socket |
| Admin profiles (`profiles.rs`) | pointer, generations on disk, call in flight | enroll, use, renew, recover | as on the device, in an application that the user may close at any time |
| Client updates, rescue, firewall, user interfaces | | | see [Not modelled](#not-modelled) |

How they interact. An Admin's call writes the job queue; the control stream of the target
device carries a delivery down with a signed grant; the daemon acknowledges, hands grant and
request to the broker over a local socket, and reports events up; the broker decides from
its ledger whether it may execute. Who may open a control stream is decided by the identity
registry, on connection and every five seconds after. A device's side of the registry is the
credential life cycle, which keeps its place in the active pointer. On the server the
configuration lock serializes settings, database changes and rotations, among the daemon,
its Admins and local TUIs. An installation is what these files and the database are before
any of this runs: every command but setup and `--nuke` first makes sure that no setup is
unfinished, and the server holds a lock that both of them need. A shell takes the path of a job,
Admin call, control stream, daemon, broker, but stays: its frames flow both ways until one of
the ends gives up. The Admin application keeps its credentials as the device does. Everything that changes something appends to the audit chain,
under an advisory lock, in the same transaction.

What makes each part correct:

- **Jobs**: a privileged operation is entered at most once per job; what the server records
  as succeeded happened; row and log of a job agree; every job is over in the end.
- **Identities**: an invitation works once; an identity has exactly one lasting certificate;
  revocation is final, and takes effect on open streams; an Admin is left.
- **Credentials on the device**: the pointer is atomic and never dangles; a replacement that
  the server carried out is adopted; no active key is thrown away.
- **Files on the server**: each group of files changes together or not at all; recovery always
  finds what it needs; nothing that succeeded is undone; every change is announced first.
- **Installation**: a committed installation is complete until its own reset; a setup that
  was rolled back and a reset that finished leave nothing; neither touches what is not
  CentralD's; wherever they stop, the host can go on.
- **Shells**: no shell process outlives its session, and no end of a session gets lost.
- **Admin profiles**: the certificate the server counts as the Admin's is the one in use.
- **Audit**: the chain never forks; an acknowledged record is kept and gets into the chain;
  an export skips nothing and repeats nothing.

The main hazards behind these, each at its line, are listed in `PROJECT.json`; the ones a
property has to except are explained under [disagreements](#where-the-repository-and-its-code-disagree).

## Modules and how they correspond to the code

```
JobLifecycle <== JobStore (JobStoreProofs) ---.
                                              +--> JobPipeline ==> Broker
                      Broker (BrokerProofs) --'    (JobPipelineProofs)
AtomicPointer <== ActivePointer
      ^.... its operations are the pointer of ClientCredentials (whole)
      ^---- and of AdminProfiles (file operation by file operation; AdminProfilesProofs
            has the proofs of both)
IdentityRegistry   ControlStreams   AuditTrail   ShellSessions   (ServerProofs has their proofs)
ClientCredentials (ClientCredentialsProofs)   ConfigTransactions (ConfigTransactionsProofs)
Installation   PkiRotation   (InstallationProofs has their proofs)
MCBroker, MCJobPipeline, MCIdentityRegistry, MCPkiRotation: symmetry, assumptions
and instances for TLC
(A <== B: B implements A;  A --> B: A is part of B)
```

One convention throughout: what the code makes atomic is one action (a transaction that takes
its rows `FOR UPDATE`, a section under a mutex, one rename), and what it does not is several.
Slips used to test the properties are operators marked `Slip` or `Mutant` next to the
definition they would replace; no specification uses them.

**JobLifecycle** is the promise to an Admin: a job waits, runs, ends in one of its final
states, its log only grows, and it is over eventually. Deliveries do not occur in it.

**JobStore** has the columns of table `jobs` (`job`), the events (`events`), the deliveries
made so far, the clients that are active and that announced job support. Its actions are the
transactions named in the inventory; a client may send any acknowledgement and any event.
Kind, parameters and reason of a job are one opaque payload; output is its size.

**Broker** follows a request through `pc`: `verify` (`verify_and_consume` on the replay set),
`consume` (append to the consumed-grant journal), `lookup` (before the execution mutex),
`wait`, `locked` (second lookup and marker), `marked`, `running`, `ran` (completion record),
`reply`. Appends compact the ledger when it is over its limit and may fail with the line, a part
of it or nothing of it in the file. Every read of a ledger with a partial last line begins with
`RecoverTornFinalRecord`, which truncates the file and writes it back; `RecoveryFails` and
`Crash` may stop it there, and `lost` has the jobs of which no record is left then. `Crash` may
tear the last line of either file, `Restart` reads both back. The server appears as the creation of jobs and
the signing of grants. A runner's result is chosen; signatures are not modelled, a grant is
one the server signed. Size of a file in bytes is its number of records.

**JobPipeline** instantiates JobStore and Broker and adds the frames on each control stream,
in both directions, and the daemon, which handles one job at a time. A stream is closed at its
two ends at different times, and what is left on it is still processed by the server. Its
refinement mapping shows it to be a Broker.

**IdentityRegistry** has the three tables with the columns decisions depend on. Enrollment
(secret verified, then transaction), renewal (four reads, then the insert), replacement and
the console's revocation are several steps, their local variables in `req`; the others are
one. `MaintenanceOnce` sweeps lapsed enrollments.

**ControlStreams** has one task per stream (`task`), its outbound channel (`outbox`), the
registry and the identities that are still authorized. A task inside `sender.send` on a full
channel does nothing else. `unregister_client_stream` is its two lock acquisitions.

**AtomicPointer** and **ActivePointer**: the promise and the three files. `pc` is the file
operation the holder of the lock makes next; `Recovered` is `recover_locked`. Every file
operation may fail, those that undo a failed publication included, and a write may be cut short;
`outcome` says what the caller is told and whether the pointer was withdrawn.

**ClientCredentials**: `enroll`/`reenroll` and the daemon as two processes under the state
lock, calls to the server with a request and an answer that can be lost separately, `late`
requests that arrive after their sender gave up, and the server's view of each generation. A
publication can fail and leave its pointer behind, and the generation is deleted all the same
(`botched`).

**ConfigTransactions**: one program counter for the holder of the configuration lock, `files`
with configuration, environment file, stages, journals and commit marker; every file
operation succeeds, fails without effect, or fails after its effect (the directory sync that
follows the rename), in which case the code's error path runs.

**PkiRotation**: `pki` (root, issuer, chain, key, configured host), `backups`, the three
journals, the retirement journal, what the running server has loaded. Certificates are
represented by the generation they were made in and the issuer and root that vouch for them.
`Targets` is the order in which a rotation replaces its files. A behaviour has a `shift`, chosen
at its start: which TUIs are at work, which rotations they start, and how much goes wrong. Two
history variables keep whether a TUI rotated while the server was starting (`overlapped`) and
which rotations were rolled back (`undone`).

**AuditTrail**: `entries` with sequence number, the hash of the predecessor (the id of the
entry it was computed for) and what the hash covers; writers under READ COMMITTED and an
advisory lock, with sequence numbers burnt by a roll-back; the local journal with torn lines;
the reconciling transaction, which takes the same advisory lock and looks at one record of the
journal after the other, its rows `staged` until it commits; exporters that read a tail, fetch a
window and write a file. The names of its specification (`AuditInit`, `AuditNext`, `AuditSpec`)
and those of ControlStreams (`StreamInit`, ...) are its own, since one module of proofs extends
both.

**Installation**: one command (`cmd`: setup or `--nuke`, both under the lock of setup) with a
program counter, the output files, the data directory, roles and databases with their ownership
comment, and the two journals with their phases. Each setup has a number for its instance id; an
external setup is given the URL of one and the same database, which may belong to someone else.
A step succeeds, fails before its effect or fails after it, or the process dies; then the code's
error path runs, as far as it gets. `server` is a server process: it looks for a journal, removes
one it read as committed, loads the configuration, takes its lock, and is up. `lost` is set when
the journal that it removes is that of a later setup under way.

**ShellSessions**: per session the call and relay of the server (`call`), the row, the handle
(`closed`, `fed`, output that is `owed`), the daemon's entry (`shells`) and its threads (`copier`, `feeder`), the broker's
`serving` thread with the watchdog, its `input` and `output` threads and `stop`, the terminal;
between them the control stream, with bounded queues, and the two directions of the
connection. `unix` says which kind of connection a device has: on Unix it does not block, and a
read or write that would have to wait fails. Frames carry no data; they are counted where the
code bounds them.

**AdminProfiles** extends ActivePointer and adds the call that holds the profile's lock, the
generations on disk, the server's view of their certificates, and requests and answers that get
lost, or arrive after their sender died. Each file operation of the pointer is a step of its own
here, so that a crash or a failure hits any of them, with the server on either side of activation.
The profile's lock is held from `admin_client`'s reading of the pointer to its return with a
connection; the command that uses the connection runs without it.

## Runs

All runs pass. State counts are distinct states.

| Run | Module, states | Checks |
| --- | --- | --- |
| `job_store` | JobStore, 102 k | `RedeliveryStartsClean`, `LogAgreesWithRow`, refinement `ImplementsLifecycle`, liveness `EventuallyOver` |
| `broker` | MCBroker, @broker@ | `AtMostOnce`, `ResultsAreTrue` |
| `job_pipeline` | MCJobPipeline, 1.2 M | `SucceededIsTrue`, refinement `ImplementsBroker` |
| `identity_registry` | MCIdentityRegistry, 660 k | `SingleUse`, `OneCurrentCertificate`, `RevokedIsInert`, action property `LastAdminKept` |
| `control_streams` | ControlStreams, 27 k | `RegisteredIsRunning`, liveness `RevokedIsDisconnected` |
| `client_credentials` | ClientCredentials, 543 k | `PointerNeverDangles`, `ReplacementIsAdopted`, `DiscardedIsInactive`, liveness `PublicationEnds` |
| `config_transactions` | ConfigTransactions, 335 k | `PairAtRest`, `RecoverySucceeds`, action properties `StepwiseHistory`, `SucceededIsKept` |
| `pki_rotation` | MCPkiRotation, 496 k | `CoherentAtRest`, action property `RetiredIsProven`, liveness `MaterialIsRetired` |
| `audit_trail` | AuditTrail, 479 k | `ChainIsLinked`, `AckedIsKept`, `ExportedOnce`, liveness `AckedIsReconciled` |
| `shell_sessions` | ShellSessions, 528 k | `EndedIsTold`, liveness `ShellsEnd` |
| `installation` | Installation, 760 k | `PublishedIsWhole`, `RetiredIsClean`, `HostIsNotStranded`, `ResetCanResume`, `ServerIsWhole`, action property `ForeignIsKept` |
| `admin_profiles` | AdminProfiles, 862 k | `ProfileNeverDangles`, `ActiveIsReachable`, refinement `ImplementsAtomicPointer` |

What the bounds let happen, and why they are enough:

- `job_store`: one job, since rows are independent of each other; two clients of which one is
  not the target, two payloads under one request id, three deliveries, so that an
  acknowledgement can be for the current, a lapsed or a foreign delivery; both leases and the
  grant shorter than the job's life, which ends before the clock does; an event limit that is
  reached.
- `broker`: two connections, one job with two grants, so that requests overlap and one is
  redelivered; a crash anywhere, and any append or recovery of the ledger failing; `MaxLedger = 0`
  compacts at every append; the retention is as long as the job's life and shorter than that of
  its requests, as it is at the largest TTL, so that the clock passes the expiry of job, grant,
  marker and record. A ledger with several jobs, in which compaction may drop the marker of
  another, is covered by the proof.
- `job_pipeline`: two deliveries over two streams, two connections to the broker and one death of
  daemon or broker. It takes two streams for a stale frame to meet a newer delivery; the start
  lease is as long as the job's life, so that the second delivery comes from a delivery that was
  not acknowledged in time. The refinement is proved for any bounds.
- `identity_registry`: two keys and identities for the races about invitations and Admins,
  three certificates so that a renewal overtakes another, two handlers, and a clock of three
  ticks, longer than each of the deadlines.
- `control_streams`: two identities, two streams, a channel of one frame: full after one
  heartbeat.
- `client_credentials`: three generations of two identities (one enrollment, a reenrollment,
  and a renewal or a second reenrollment), a crash and a lost call.
- `config_transactions`: three revisions by the server and a TUI and three disruptions: enough
  for a recovery that is itself interrupted, and for a failed recovery of that.
- `pki_rotation`: three rotations, renewal by the daemon, and three shifts (`MCShifts`): two TUIs
  that rotate leaf and issuer side by side, undisturbed; one TUI that rotates the leaf, with two
  disruptions; and one TUI with rotations of all three kinds and one disruption. Two TUIs with
  disruptions are covered by the proofs. Two TUIs and root replacements do not go together: see
  the disagreements below.
- `audit_trail`: a handler's transactions race the reconciling daemon, the second writer of the
  chain; a recorder, an exporter, three records, two disruptions (a torn line and a death in its
  repair), export batches of one and two entries.
- `shell_sessions`: one session, since sessions meet only in the limits on their number, and one
  that is refused for a limit goes on like one that is refused for another reason; two input
  frames (the second can meet a relay that ended at the first) and one output frame, queues of
  two (also from the daemon to the broker, so that the control loop waits there), one break of
  the stream with a reconnection, both kinds of connection. `EagerOpen`: an Admin that sends its open
  frame with the call (see below).
- `installation`: two setups, each managed or external, and three faults: enough for a setup that
  is interrupted, a recovery of it that is, and a failed step of the second setup or of the
  reset of the first.
- `admin_profiles`: an enrollment and two renewals, two crashes (one within the recovery of the
  other), one call that is lost while the application lives on. The pointer's recovered state
  depends on which of its three files exist, and these bounds reach all of the combinations
  that operations, crashes and failures leave; how many file operations fail is not bounded.

Deadlock is checked in `job_store`, whose operations are always possible. In the other runs a
behaviour ends when the bounded clock, the bounded identifiers or the bounded number of faults
and requests are used up, and the system may really be idle there.

Each property of a passing run has a slip in the code's definitions that violates it
(`mutants` in `PROJECT.json`): a marker written without the second lookup, a revocation that forgets superseded
certificates, a recovery that drops a stage, an export that continues from the oldest file, a
watchdog that spares the process, a roll-back of a setup that was committed, and so on.

## Fairness

Faults, operators, Admins and clients are never obliged to do anything. What is assumed:

- `JobStore!FairSpec`: time passes, and `run_maintenance` (`services.rs:306`) sweeps every 30
  seconds. Nothing is assumed of clients.
- `ControlStreams!ReadingSpec`: the runtime polls every task that can proceed; `select!` does
  not starve the tick, hence strong fairness for it; the peer is the repository's daemon,
  which goes on reading its stream or loses the connection.
- `ClientCredentials!FairSpec`: processes proceed, the service manager keeps the daemon
  running and the server answers calls that are not lost (faults are bounded).
- `PkiRotation!FairPkiSpec`: a process under the lock proceeds, the server is restarted by
  systemd (`Restart=on-failure`) or by the operator as OPERATIONS.md asks after a rotation, and
  a blocking `flock` is granted eventually (strong fairness of `DaemonStep`).
- `AuditTrail!FairAuditSpec`: transactions and local commands under way proceed; the daemon is
  started again and reconciles, also if other holders of the lock come in between (strong
  fairness).
- `ShellSessions!FairShellSpec`: server, daemon and broker schedule every task and thread that can
  proceed; deadlines are reached, since the relay in its loop looks at the clock every five
  seconds (strong fairness, as data may keep it busy) and the watchdog twice a second. A relay that
  is inside a `send` looks at nothing: it goes on when the stream has room or breaks
  (`FeedClient`), or when the Admin reads (`OutputForwarded`), which an Admin that stalls does not.
  Nobody has to type, print, exit or reconnect.

## Proofs

**BrokerProofs** (from `Broker`): for any sets of jobs and connections, any number of grants,
crashes and compactions,

- `BrokerInvariant`: the inductive invariant `BrokerInv` holds;
- `BrokerAtMostOnce`: the runner is entered at most once per job, except a job whose record the
  ledger lost or, where the retention does not cover the life of requests, that is older than the
  retention;
- `BrokerResultsTrue`: `ResultsAreTrue`;
- `BrokerSerialized`: two requests are never both past the mutex;
- `BrokerTypeCorrect`: the state is well typed.

Nothing is assumed of the constants but their types. The exceptions are part of the property
(`Excused`) and are the code's: a death inside the rewriting of a torn ledger, markers in excess
of what compaction retains, and `RetentionCovers` (job TTL + grant validity + longest request ≤
record retention), which the largest TTL does not satisfy.

`AtMostOnce` is not inductive: a state with no run and no record for a job whose request is
past the marker would satisfy it. `BrokerInv` adds what the code relies on: who is past
`TakeLock` holds the mutex (`LockHeld`); a request is at most `RequestBound` old
(`RequestsInWindow`) and was within its grant's validity when verified (`VerifiedInTime`);
a grant expires within `JobTTL + GrantValidity` of the job's creation (`GrantsInWindow`);
ledger lines are numbered (`LinesNumbered`), so that the last record of a job is well defined;
completions outlive the retention counted from the job's creation (`RecordsOutlast`); and a job
that was entered, or is about to be, has a record for that long unless it was lost
(`RunsRemembered`). The last one carries the argument: whoever reaches the second lookup while
`RetentionCovers` holds does so while the record of an earlier run must still be there, at the
time of its own arrival as well as at the real time that compaction uses. `CompactionKeeps` shows
that compaction keeps a record of every job that has one and whose marker it does not drop,
`StoppedRecovery` what an interrupted rewriting leaves, and `MarkedIsFirst` that a request that is
marked finds a job never entered, or an excused one.

**AdminProfilesProofs** (from `ActivePointer` and `AdminProfiles`): for every set of generations,

- `ActivePointerIsAtomic`: the three files implement `AtomicPointer`;
- `ActivePointerRenames`: every rename has a source and a free destination, but for the one that
  puts the old pointer back over one that could not be removed;
- `ActivePointerReadable`: recovery installs only complete files, unless the write of a first
  pointer was once cut short (`cut`);
- `ProfilePointerIsAtomic`: it is still an atomic pointer as a profile uses it, which dies
  between its file operations, calls the server meanwhile and removes whole directories;
- `ProfilePointerIsSound`: what the pointer of a profile names, and what it falls back to, is on
  disk, unless a generation was deleted whose pointer could not be withdrawn (`botched`);
- `ProfileIsNeverLockedOut`: the certificate the server has made current is the one the profile
  points to or falls back to, with its key (`ActiveIsReachable`, which says of itself "as long as
  no living application lost a call" and has the same exception);

whichever file operation fails, and with no assumption but `PointerValues` (the absent and the
incomplete file are no values) and `ProfileBounds`. The inductive invariant of the pointer says
which files exist at each step (`FilesAtStep`), that an incomplete file is the staged one or,
where a first write was cut short, the installed one (`TornIsFirst`), and that a process holding
a `PointerPublication` has it installed. To a reader an incomplete file is no pointer, so that
the refinement needs no exception. The
refinement mapping is what a reader would find after recovery; all the file operations but one
of each operation are stutters under it. A profile adds which operation on the pointer each call
has begun and what the pointer says by then, before and after it moves (`CallSteps`,
`ViewAtCall`), and which generations are on disk (`Generations`): `PInv`. It holds until a
generation is deleted under its pointer; `WInv` has what is left then. `RInv` adds, while no
call was lost, what the server thinks of the generations a call has in its hands (`Statuses`), and
that a request that outlived its call is an activation of a generation on disk, or makes one
that nobody will use (`LateRequests`); without it a late activation would make current what a
restarted application threw away.

**JobStoreProofs** (from `JobStore`): for any jobs, clients and number of events,

- `StoreInvariant`: types, and every job's event log fits its row (`LogFits`);
- `StoreRedelivery`, `StoreLogAgrees`: `RedeliveryStartsClean` and `LogAgreesWithRow`;
- `StoreImplementsLifecycle`: the tables implement `JobLifecycle`, the life cycle an Admin is
  promised. The mapping gives the abstract status and log of each job (`AdminStatus`,
  `AdminLog`). Queued, dispatched and acknowledged are all "waiting" to an Admin, so that deliveries
  and taking them back are stutters, and so are steps that change no row.

`LogAgreesWithRow` is not inductive: it does not say that the log has no gaps, so that a next
event need not be its last. `LogFits` relates every status to the log as a whole (numbered without
a gap, of the length the status allows, a terminal event only at its end).

**JobPipelineProofs** (from `JobPipeline`):

- `PipelineImplementsBroker`: the composition implements `Broker`, without any assumption on the
  constants but their types (`PipelineTimes`, `PipelineBounds`, `PipelineSets`; the last also
  keeps -1, which is `NULL`, out of the workers);
- `PipelineAtMostOnce`: so a job is executed at most once in the deployment, with the broker's
  exceptions;
- `PipelineSucceededTrue`: the server shows a job as succeeded only if its operation was entered,
  only once but for the same exceptions, and succeeded.

The refinement needs `LinkInv`: rows are well-formed, deliveries are counted, so that two grants are never the
same, and streams and daemon hold only grants the server signed. `SucceededIsTrue` needs
`TruthInv`: every frame that says "succeeded", in whatever stream, is true; the worker the daemon
awaits serves the daemon's grant; and so the rows that say "succeeded" are true. `BrokerResultsTrue` (`ResultsAreTrue`, in BrokerProofs) is the
same for the broker alone.

**ServerProofs** has four parts, about modules that do not interact.

*The registry* (from `IdentityRegistry`), for any keys, identities, certificates and
requests: `RegistryInvariant`, `RegistrySingleUse`, `RegistryOneCurrent`, `RegistryRevokedInert`
and the action property `RegistryLastAdmin`. Assumed of the constants are `RegistryTimes` (times
are numbers) and `RegistryNone` (the absent value is none of the others). `RegistryInv` adds that
an invitation that minted an identity is consumed and minted no second one (`KeysCounted`), that
every certificate inserted belongs to an identity (`CertsOwned`), and what a request that is between
two steps may still rely on (`RequestsSound`): the identity a renewal authenticated with exists, a
replacement revokes a client, and a console about to revoke holds the advisory lock and leaves
another Admin. This is where the handlers of `services.rs` read before they write.

*The control streams* (from `ControlStreams`), for any clients, streams and channel sizes:
`StreamsRegistered` (`RegisteredIsRunning`). With the types of task, owner and registry
(`RoutesTyped`) the property is inductive; the argument is that the task that leaves is either
not registered or finds itself at the second lock acquisition of `unregister_client_stream`, and
that a new registration only ever replaces another stream of the same client.

*The audit trail* (from `AuditTrail`), for any handlers, local commands, exporters, records and
disruptions, under `AuditAssumption` (the absent value and the daemon are none of the others):

- `AuditChainLinked`: `ChainIsLinked`;
- `AuditAckedKept`: `AckedIsKept`;
- `AuditExportedOnce`: `ExportedOnce`, under the hypothesis that there is at most one exporter,
  without which it is false (see below);
- `AuditInOrder`: the invariant behind them.

None of the three is inductive. That the chain is linked says nothing of the tail a transaction
has read and not yet used: `ChainInv` adds that who appends holds the advisory lock
(`OneAppends`), that its tail is then still the tail and its number above all others (`Drawn`),
that its record is in nobody else's hands (`OwnId`, also what makes the reconciling transaction
free of conflicts on the primary key), and that committed and staged rows together are a chain
as well. Rows whose subject expires are `Renamed`: the same chain. `JournalInv` adds who is at
which step under the configuration lock (`HolderOK`), that only the last line can be torn and is
repaired before the next is appended (`LinesOK`), and that a record of the journal is still
to be looked at or has been brought over (`BroughtOver`); this is why the journal may be removed.
`ExportInv` says that the files are ordered and complete up to the newest (`FilesOK`), that a
window which an exporter has read is still all there is between its ends (`WindowOK`), and
that what is staged comes after what is committed (`StagedAbove`): the chain grows only at its
end (`Grows`), though numbers are drawn before they are committed.

*The shells* (from `ShellSessions`), for any sessions, limits and breaks of the stream and with
either kind of Admin: `ShellsInvariant`, and `ShellsEndedTold` (`EndedIsTold`). The property
speaks of the end of the path; the invariant follows the close from the server to the broker.
A session is opened once, and until the open frame arrives the device has not heard of it
(`OpenedOnce`); when the server is done, a relay in the daemon's map has its close frame on the
stream, and so has an open frame that is still on the way, behind it (`ClosedBehind`: this is why
a close cannot overtake its open and find nothing to close); a broker that reads has a relay in
the map with a live sending thread, or the close in its socket (`FedOrTold`: what takes a relay
out of the map writes the close first, and the sending thread outlives the broker's reads),
unless that thread failed in a write that would have had to wait.

**ConfigTransactionsProofs** (from `ConfigTransactions`), for any processes, revisions, crashes
and failures, under `ConfigAssumption` and `NoneIsNothing` (the absent value is no process,
revision or configuration):

- `ConfigInvariant`, `ConfigTypes`: the inductive invariant, and types;
- `ConfigPair`, `ConfigRecoverable`: `PairAtRest` and `RecoverySucceeds`, which say of themselves
  "unless an operation failed after its effect";
- `ConfigStepwise`, `ConfigKept`: the action properties `StepwiseHistory` and `SucceededIsKept`.

The properties are about the files while nobody holds the lock. The invariant says what the
holder may rely on at each step, which only successful operations lead to (`Control`, `AtStep`),
and what the files alone say, whoever died: that at most one kind of transaction is under way
and that stages and copies are edits of, or the base of, what is in place (`Sound`, `Numbered`:
this holds always and is what `StepwiseHistory` needs); and, unless something failed late, that
recovery finds what it needs (`Intact`) and that a recorded success is vouched for by the commit
marker or was interrupted once already (`Kept`).

**ClientCredentialsProofs** (from `ClientCredentials`), for any generations, identities, deaths
and failures, under `NoneIsNothing` (the absent value is neither a process nor a request):

- `CredentialsBase`, `CredentialsType`: the inductive invariant `Base`, and types;
- `CredentialsNeverDangle`: `PointerNeverDangles`, which excepts a device on which a publication
  failed and could not be undone (`botched`; `Stranded` says what still holds there);
- `CredentialsDiscarded`, `CredentialsAdopted`: `DiscardedIsInactive` and `ReplacementIsAdopted`,
  which say of themselves "as long as no living process lost a call" (see below).

`Base` says what the process at each step, and each request under way on the server, may rely
on, and that nothing is asked twice (`AskedOnce`). `DiscardedIsInactive` needs to know of requests
whose asker has died: an activation that can still arrive is for a generation that was published,
or that no later step looks at (`Discarded`). `ReplacementIsAdopted` needs the same of a
replacement that arrives late: it hits an identity the device is leaving or does not
use, or its heir is dead (`Replaced`).

**InstallationProofs** has two parts, about modules that do not interact.

*Setup and removal* (from `Installation`), for any number of setups, resets, faults and server
starts and either kind of database (`InstallationBounds`): `InstallationPublished`,
`InstallationRetired`, `InstallationNotStranded`, `InstallationResumes`, `InstallationServer`
(all the invariants of the run) and the action property `InstallationForeign`. All of them speak
of hosts on which no starting server removed the journal of a setup under way (`~lost`). Three of
the properties need this proviso and state it; `PublishedIsWhole`, `ResetCanResume` and
`ForeignIsKept` are model-checked without it and proved with it. None of them is inductive. The invariant has three parts:

- `World`, about disk, PostgreSQL and journals, whoever runs: every file is the latest setup's;
  only the latest setup can be committed, and it is whole; what was begun or is being reset is
  clean or has a journal (`KnownOK`); an authorized reset took nothing but the database, and one
  that recorded the drop took the role before any file and the marker last (`NukeJournalOK`);
- `CommandOK`: what the command relies on at each step, such as that a setup and its clean-up
  run under the journal of the latest instance, and that the database an external setup comments,
  migrates or drops is its own, which is why a foreign one is kept;
- `ServerOK`: a server whose command looked for a journal after the latest setup began found that
  setup over, and a reset and a server never both hold the lock.

A few lemmas say which changes of the world are harmless in which phase (`SetupFiles`,
`SetupDatabase`, `ResetFiles`, `RoleGoes`, ...); every action is one of them and a move of the
command. What the server relies on survives a setup because such a setup began later than the
server looked, and a reset because of the lock (`ServerKept`).

*The rotations* (from `PkiRotation`), for any operators, rotations, crashes and failures, under
`PkiAssumption`:

- `PkiCoherent`: `CoherentAtRest` in every behaviour whose shift does not replace the root
  (`RootIsKept`), whoever rotates leaf and issuers, and whether or not the server is starting;
- `PkiRetiredProven`: `RetiredIsProven` for rotations of all three kinds; the property excepts a
  server during whose start a TUI rotated (`overlapped`).

Proviso and exception are needed: without them the properties are false, for the reasons given
below. A
shift of one TUI that replaces the root has `CoherentAtRest` only with a bound on what goes wrong,
and is left to TLC. The steps are sorted by what they do to the lock: who takes it, who works on
under it, who gives it back, and who does none of these (`PkiSteps`).

`CoherentAtRest` speaks of moments at which nothing is left to do, and says nothing of the others.
`PkiInv` says that whenever a journal is left and its backups are there, what recovery would make
of the files fits together (`FilesFit`), and so does what a rotation that holds the lock is about
to make of them (`Rotates`); that at most one journal is left (`OneJournal`), as a recovery of one
kind would undo files under the other; that a rotation gets to its check only with nothing left
to recover (`Recovers`); and that a generation's backups are what the files said when it was
staged, each file once (`PkiBase`). Restoring or publishing one more file changes neither what
recovery nor what the rotation arrives at, and the last one arrives there; retirement may take
backups one by one because the ones that stay are the same.

`RetiredIsProven` needs `StartSound`, of a server that no TUI overlapped: once the starting server has looked for a journal of some
kind there is none, except for the one of its own renewal, so nobody restores a file under a
server that has read its chain, and nobody publishes one; the server that probes and retires
therefore still holds the chain that is on disk.

Only model-checked: all liveness properties (fairness and ENABLED are beyond the prover), and
`CoherentAtRest` for the shift that replaces the root.

## Where the repository and its code disagree

None of these has a run of its own. Each states a condition under which a property above is
checked or proved, or a promise in the repository that the code does not keep, and can be
reproduced by the change given.

| Where | What happens | Reproduce |
| --- | --- | --- |
| `ledger.rs:33` | The largest accepted job TTL (7 days) equals the record retention, so `RetentionCovers` fails by the grant's validity: a job delivered in its last moments, whose record has expired, can be executed twice. | drop the second disjunct of `Excused` |
| `ledger.rs:521` vs `:6` "instead of executing twice" | `recover_torn_final_record` truncates the ledger and writes it back in place. A death or a failing write in between loses markers and completions, and a job whose record is gone is executed again when it is delivered again. | drop `j \in lost` from `Excused` |
| `ledger.rs:42` | Compaction keeps a bounded number of markers, the newest. A job whose marker is dropped is executed again when it is delivered again. | the same, with two jobs and `MaxMarkers = 1` |
| *platform* `broker.rs:128` | A consumed grant leaves the replay set at the very instant of its expiry, at which it still verifies (THREAT_MODEL.md:57 "replay-protected"). The ledger still prevents a second execution. | `ConsumedGrantsStayConsumed` |
| `broker.rs:869` vs the comment at `:802` | A request for a job under way is answered "unknown" by the first lookup; it does not wait for the original. | `InFlightRequestWaits` |
| `ledger.rs:173` vs `:11` | A torn line in the consumed-grant journal keeps the broker from starting again. | `ComesBack` under `Broker!FairSpec` |
| `services.rs:598` vs `ledger.rs:4` | A job whose daemon died after reporting `running` is not dispatched again; it times out. | `InterruptedRunIsRedispatched` under `JobPipeline!FairSpec` |
| `services.rs:741`, THREAT_MODEL.md:48 | A peer that stops reading fills its channel; its task waits in `send` and never reauthorizes. | `RevokedIsDisconnected` under `ControlStreams!FairStreamSpec` |
| `services.rs:202` | `unregister_client_stream` takes the lock twice; a registration in between is removed. | `RemovesOnlyItself` |
| `active_pointer.rs:208`, `:32` | Death inside the very first pointer write leaves an incomplete file that recovery installs. | drop `~cut` from `RecoveredIsReadable`, and check it in `AdminProfiles.cfg` |
| `active_pointer.rs:358` | A write or sync of the staged pointer that fails leaves the file. Where there is no pointer yet the next recovery installs it; by then the generation was deleted. | drop `~botched` from `PointerNeverDangles` |
| `profiles.rs:1087` with `:993`; `enrollment.rs:567` with `:197`; `daemon.rs:406` | A publication fails, or the tree cannot be secured after it, and undoing it fails as well; the caller deletes the generation all the same, and the pointer names nothing. No later start gets past it. | drop `~botched` from `ProfileNeverDangles`, `ActiveIsReachable` or `PointerNeverDangles` |
| `profiles.rs:1009` with `:926` | When the commit of an activated renewal fails, the command goes on with the old certificate, which is good for another hour; the next command finds the new one. | action `Replaced` of AdminProfiles |
| `docs/OPERATIONS.md:132`, `cli.rs:129`, `centrald.proto:238` | The console refuses to revoke the last Admin "unless the explicit local force path is chosen"; no code reads `force_last` or `force_last_admin`, and the console always refuses. | `LastAdminKept` holds without an exception |
| `daemon.rs:175`, `active_pointer.rs:45` | An outage and a refusal lead to the same rollback: after two lost calls a device is back on an identity that was replaced. | `MaxOutages = 2`, drop `outages = 0` from `ReplacementIsAdopted` |
| `enrollment.rs:221` | If the answer to an activation is lost, the key of an identity that is now active is discarded. | drop `outages = 0` from `DiscardedIsInactive` |
| `config_lock.rs:389` | A directory sync that fails after a journal was written leaves artifacts on which recovery bails. | drop `~late` from `RecoverySucceeds` |
| `config_lock.rs:574`, `:435` | Clean-up in an order in which a second interruption restores a configuration that was recorded as succeeded. | drop `disruptions <= 1` from `SucceededIsKept` |
| `main.rs:249`, `manage.rs:2159` | A rotation between the server's reading of its leaf and its look for the retirement journal is taken for the one it has proven; its backups are deleted. | drop `~overlapped` from `RetiredIsProven` |
| the same | If that rotation died, recovery needs the backups that were deleted; it fails from then on, and no server starts. | drop `Unrecoverable` from `MaterialIsRetired` |
| `manage.rs:1685`, `:1751`, `:2108`, OPERATIONS.md:216 | A rotation that is rolled back loses the journals that list its backups, and the backups, with private keys, stay for ever. | drop `g \in undone` from `MaterialIsRetired` |
| `manage.rs:1771`, `:1205` | Rotations other than the root's do not recover a root journal that was left; it is rolled back over them later. | a shift of two TUIs with kind `"root"`, or `disruptions \|-> 2` in the shift of one TUI: `CoherentAtRest` |
| `manage.rs:1138` | An issuer rotation signs with the root it read before it took the lock. If the replacement that made this root is rolled back meanwhile, the new issuer is signed by a root that is gone. | the same |
| `manage.rs:1774` | After a roll-back that was interrupted between the rotation's journal and the retirement journal, and with a leaf due for renewal, the server does not start again. | the same |
| `main.rs:208`, OPERATIONS.md:212 | After an issuer rotation the server no longer accepts devices enrolled under the former issuer. | `EnrolledStayConnected` |
| `local_audit.rs:225`, `:51` | The journal is truncated and rewritten in place; a death in between loses acknowledged records. | drop `~truncated` from `AckedIsKept` |
| `audit_export.rs:51` | Two exporters read the same tail and write overlapping files. | `Exporters = {e1, e2}`: `ExportedOnce` |
| `0001_initial.sql:149` vs `audit_export.rs` | `actor_id` and `target_id` are `ON DELETE SET NULL`; `enroll` audits `identity.enroll_pending` with the new identity as both, and `maintenance_once` deletes an identity that is not activated in time. The row then no longer is what its hash covers, and an export that reaches it "fails hash verification". | `ChainVerifies` as an invariant in `AuditTrail.cfg` |
| `broker_session.rs:238` "no error path can leak it" | A time-out sets `stop`, and the output thread ends without a close frame. If the session's control stream is gone, the daemon's reading thread and the broker's input thread wait for each other for ever, and the slot is kept. | `SlotsReleased` in `ShellSessions.cfg` |
| `services.rs` `route_client_shell_frame` vs the doc of `relay_client_data` | Output that races the end of its session is output of a session that is not registered, and ends the client's control stream. `relay_shell_data` of the daemon does the same for input when its relay is over. | actions `RouteStrayData`, `RelayStrayData` |
| *Admin* `shell.rs` `open_shell_inner` | The application awaits the response before it sends the open frame; the server answers only after it. Every call times out. | `EagerOpen = FALSE`: no session gets past `first` |
| `broker.rs:477`, `daemon.rs:683`, `:735`, `broker_session.rs:655` | A Unix socket from `into_std` is non-blocking; a read or write that would wait fails and ends its thread. The close of the session is lost with the thread that would have sent it. | actions `CopyWouldBlock`, `InputWouldBlock`; drop `feeder[s] # "failed"` from `EndedIsTold` |
| `broker_session.rs:399`, `ptys.rs:141` | When the frame that says the shell is open cannot be written, or `PtySession::open` fails after the spawn, the shell is not killed. | drop `"orphan"` from `ShellsEnd` |
| `services.rs:2589` | The relay sends output to the Admin without a time limit; one that does not read holds it, and the threads and slot of the session, for ever. The broker's deadline still kills the shell. | drop `admin[s] = "stalled"` from `ShellsEnd` |
| `daemon.rs:724` | `shell_relay_loop` returns without a close to the server when it cannot set up its connection; the session lasts until the server's own deadline. | action `StartRelay` |
| `daemon.rs:630`, `:883` | The control loop waits when the 16 places of the channel to a broker are taken, and handles nothing else meanwhile. | action `SendBroker` |
| `shell.rs` `run_shell_relay` | A close from the client that comes before `register_shell_session` is ignored; a relay that waits in `send` looks neither at deadlines nor at authorization. | `RouteClose`, `FeedClient` |
| `setup_recovery.rs` `cleanup_abandoned_setup` | The environment file is removed even if dropping the external database failed; the retry has no URL and does nothing, and the database stays. | drop the `mode` condition from `RetiredIsClean` |
| `setup_recovery.rs:354`, `secure_fs.rs:129` | `mark_committed` replaces the journal by way of a temporary file in the data directory. A death before the rename leaves it there; once the setup is rolled back every later preflight refuses. | drop `~litter` from `HostIsNotStranded` |
| `nuke.rs:411` | A reset that dies while its journal still has the name of the temporary file refuses the journal for good. | drop `NukeJournalReads` from `ResetCanResume` |
| `setup_recovery.rs:260`, `main.rs:52` | `prepare_for_normal_command` reads a committed journal and then removes whatever journal is there, without the lock: if a reset and a new setup came in between, that setup can be neither committed nor recovered. | drop `~lost` from `RetiredIsClean`, `HostIsNotStranded` or `ServerIsWhole` |
| `write_new_file` | It links its temporary file and unlinks it after. Death in between leaves a link count of two, which the validation of either journal refuses for good; a temporary file left in the data directory makes every later preflight refuse. | drop `~litter` and `linked = {}` from `HostIsNotStranded` |
| `main.rs` `prepare_for_normal_command` | The look for an unfinished setup takes no lock and is not repeated: a server that waited since before a setup began can come up on it, and have it rolled back underneath. | drop `server.instance <= server.since` from `ServerIsWhole` |
| `nuke.rs` | A reset that died after it removed everything but its journal, and then a new setup: every later `--nuke` refuses. | drop `attempts = nukeJournal.instance` from `ResetCanResume` |
| `profiles.rs` | Any error of an activation is a refusal to the application: it deletes the key. If only the answer was lost, it is the key of the certificate that is now active ("the pending server identity will expire" is then wrong), and the predecessor works for another hour. | drop `outages = 0` from `ActiveIsReachable` |

## Not modelled

- Signatures, hashes, TLS, Argon2id: a grant, certificate or hash is what its maker made. PKI
  issuing (`centrald-pki`) is sequential and covered by unit tests.
- Contents: kinds and parameters of jobs, output, settings values, validation, messages.
- The Windows variants of broker transport and file operations: the same executor and the same
  protocol of renames.
- PostgreSQL's own behaviour, firewall rules (`firewall.rs`), file permissions
  (`file_security.rs`, `secure_fs.rs`), user interfaces and the setup wizard's dialogue, the web
  site, build and packaging: no state of their own whose interleavings matter.
- Client updates and rescue (`updates.rs`, `rescue.rs`, `release.rs`): one thread downloads,
  verifies and hands a package to the system's package manager, which is outside of the
  repository and decides what a crash leaves. That the job around it runs at most once and is
  reported truthfully is Broker and JobPipeline.
- Elevation challenges: their single use is one conditional `UPDATE`. In ShellSessions a challenge
  that does not hold is one of the reasons why a call fails.
- Recoveries of configuration and PKI that `main.rs` runs before `--nuke`, and that block it when
  they fail.
- Server tables that only list or display (`clients`, settings pages), discovery and versions.

## Plan

The order was: the job path (most dangerous when wrong), identities and credentials, the files
and the trail of the server, then installation, shells and the Admin's profiles. What is left:

1. A proof of `CoherentAtRest` of `PkiRotation` for a shift that replaces the root: one TUI and
   one disruption.
2. Composition of `ShellSessions` with `ControlStreams`, whose channel the shells share with the
   job path, and challenges as state.

## Running it

```
tlc -config JobStore.cfg JobStore            # likewise for every row of the table of runs
tlc -config Broker.cfg MCBroker
tlc -config JobPipeline.cfg MCJobPipeline
tlc -config IdentityRegistry.cfg MCIdentityRegistry
tlc -config PkiRotation.cfg MCPkiRotation
tlapm BrokerProofs.tla                       # likewise for every module named ...Proofs
```
