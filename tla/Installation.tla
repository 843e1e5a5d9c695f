---------------------------- MODULE Installation ----------------------------
(***************************************************************************)
(* How a CentralD server comes to a host and leaves it (centrald-server):  *)
(*   - initial-setup, which writes a recovery journal, provisions          *)
(*     PostgreSQL, publishes its files and commits (main.rs, setup.rs,     *)
(*     local_postgres.rs, db.rs);                                          *)
(*   - the recovery of a setup that was interrupted, by the next setup or  *)
(*     by --nuke (setup_recovery.rs);                                      *)
(*   - --nuke, which removes everything and resumes from a journal of its  *)
(*     own (nuke.rs);                                                      *)
(*   - a server that starts beside them (main.rs, local_control.rs).       *)
(*                                                                         *)
(* Every setup has an instance id, a number here.  A managed setup creates *)
(* a role and a database named after it; an external one uses the database *)
(* of the URL it is given, "ext", which may be somebody else's.  Setup and *)
(* --nuke exclude each other with a lock that ends with its process, so    *)
(* one command variable is enough, and the owner that a journal names is   *)
(* never alive when another command reads it.  A fault is a crash, or an   *)
(* operation that fails, with or without its effect.                       *)
(***************************************************************************)
EXTENDS Naturals

CONSTANTS
    MaxAttempts,    \* setups begun
    Modes,          \* the kinds of database a setup may be given
    MaxFaults       \* crashes and failing operations

ASSUME InstallationBounds ==
    /\ MaxAttempts \in Nat \ {0}
    /\ MaxFaults \in Nat
    /\ Modes \subseteq {"managed", "external"}

VARIABLES
    files,          \* the instance an output file belongs to, 0 if absent
    dir,            \* the data directory exists
    litter,         \* a temporary file is left in it
    roles,          \* PostgreSQL roles
    db,             \* PostgreSQL databases
    mode,           \* the kind of database of each instance
    setupJournal,   \* .centrald-initial-setup-recovery.json
    nukeJournal,    \* .server.toml.centrald-nuke-recovery.json
    linked,         \* journals that also have their temporary name
    status,         \* what has become of an instance
    attempts,       \* setups begun so far
    cmd,            \* the setup or --nuke that holds the setup lock
    server,         \* a centrald-server run
    lost,           \* history: a server removed the journal of a setup under way
    faults

disk == <<files, dir, litter>>
postgres == <<roles, db>>
journals == <<setupJournal, nukeJournal, linked>>
installVars == <<disk, postgres, mode, journals, status, attempts, cmd,
                 server, lost, faults>>

Instances == 1..MaxAttempts

\* The 11 files of persist_runtime_material are one output.  The recovery key
\* is written where the operator says and is never removed by --nuke.
Outputs == {"material", "key", "env", "marker", "config"}

NoJournal == [phase |-> "none", instance |-> 0]
NoDatabase == [by |-> 0, state |-> "none"]
Idle == [pc |-> "idle", instance |-> 0, failed |-> FALSE, next |-> "idle"]
Off == [pc |-> "off", instance |-> 0, since |-> 0]

----------------------------------------------------------------------------
Init ==
    /\ files = [o \in Outputs |-> 0]
    /\ dir = FALSE
    /\ litter = FALSE
    /\ roles = {}
    /\ \E foreign \in {NoDatabase, [by |-> 0, state |-> "ready"]} :
          db = [n \in Instances \cup {0} |-> IF n = 0 THEN foreign ELSE NoDatabase]
    /\ mode = [i \in Instances |-> "unset"]
    /\ setupJournal = NoJournal
    /\ nukeJournal = NoJournal
    /\ linked = {}
    /\ status = [i \in Instances |-> "unused"]
    /\ attempts = 0
    /\ cmd = Idle
    /\ server = Off
    /\ lost = FALSE
    /\ faults = 0

\* The database of an instance; 0 is the external one.
Name(i) == IF mode[i] = "managed" THEN i ELSE 0

Owned(i) == db[Name(i)].by = i
Managed == mode[cmd.instance] = "managed"

Fine == UNCHANGED faults

Fault ==
    /\ faults < MaxFaults
    /\ faults' = faults + 1

Goto(there) == cmd' = [cmd EXCEPT !.pc = there]

\* A step of cleaning up failed; the others are still tried.
GotoFailed(there) == cmd' = [cmd EXCEPT !.pc = there, !.failed = TRUE]

\* The locks of local_control::acquire_server_lock.
ResetSteps == {"authorize", "dropDatabase", "recordDrop", "dropRole",
               "nukeFiles", "nukeData", "nukeMarker", "nukeDir", "nukeEnd"}

ResetHoldsLock == cmd.pc \in ResetSteps
ServerHoldsLock == server.pc \in {"locked", "up"}

----------------------------------------------------------------------------
(***************************************************************************)
(* initial-setup.                                                          *)
(***************************************************************************)

\* A journal must be a file with one name.
SetupJournalReads == "setup" \notin linked
NukeJournalReads == "nuke" \notin linked

\* Mutant: a recovered setup is not cleaned up, only forgotten.
RecoverBeforeForgets ==
    /\ cmd = Idle
    /\ SetupJournalReads
    /\ cmd' = [Idle EXCEPT !.pc = "fresh"]
    /\ setupJournal' = NoJournal
    /\ UNCHANGED <<disk, postgres, mode, nukeJournal, linked, status, attempts,
                   server, faults>>

\* acquire_setup_mutation_lock and recover_before_initial_setup.
RecoverBeforeInitialSetup ==
    /\ cmd = Idle
    /\ SetupJournalReads
    /\ \/ /\ setupJournal.phase = "none"
          /\ cmd' = [Idle EXCEPT !.pc = "fresh"]
          /\ UNCHANGED setupJournal
       \/ /\ setupJournal.phase = "committed"
          /\ files["config"] # 0
          /\ setupJournal' = NoJournal
          /\ UNCHANGED cmd
       \/ /\ setupJournal.phase = "provisioning"
          /\ cmd' = [Idle EXCEPT !.pc = "cleanDatabase", !.next = "fresh",
                                 !.instance = setupJournal.instance]
          /\ UNCHANGED setupJournal
    /\ UNCHANGED <<disk, postgres, mode, nukeJournal, linked, status, attempts,
                   server, faults>>

\* preflight_data_root, and validate_empty_data_root_after_marker_retirement.
DataRootIsEmpty == ~litter /\ files["material"] = 0 /\ files["marker"] = 0

\* preflight_targets.  The operator names a path for the recovery key that is
\* free.
TargetsAreFree == \A o \in Outputs \ {"key"} : files[o] = 0

\* preflight, after the check that nothing is configured.
PreflightPasses == DataRootIsEmpty /\ TargetsAreFree

\* wizard::collect: the options of the setup, of which the database matters.
Collect(i) == \E m \in Modes : mode' = [mode EXCEPT ![i] = m]

\* prepare_directories.
PrepareDirectories == dir' = TRUE

Preflight ==
    /\ cmd.pc = "fresh"
    /\ attempts < MaxAttempts
    /\ PreflightPasses
    /\ PrepareDirectories
    /\ files' = [files EXCEPT !["key"] = 0]
    /\ Collect(attempts + 1)
    /\ cmd' = [Idle EXCEPT !.pc = "begin", !.instance = attempts + 1]
    /\ UNCHANGED <<litter, postgres, journals, status, attempts, server, faults>>

\* The host is already configured, or preflight found something.
SetupRefused ==
    /\ cmd.pc = "fresh"
    /\ attempts = MaxAttempts \/ ~PreflightPasses
    /\ cmd' = Idle
    /\ UNCHANGED <<disk, postgres, mode, journals, status, attempts, server,
                   faults>>

\* What write_new_file leaves of a file when it does not return: nothing, or
\* a temporary file, or the file with both of its names, or the file.
BeginSetup ==
    /\ cmd.pc = "begin"
    /\ attempts' = cmd.instance
    /\ LET journal == [phase |-> "provisioning", instance |-> cmd.instance]
           begun == [status EXCEPT ![cmd.instance] = "begun"]
       IN \/ /\ Fine
             /\ setupJournal' = journal
             /\ status' = begun
             /\ Goto(IF Managed THEN "role" ELSE "material")
             /\ UNCHANGED <<litter, linked>>
          \/ /\ Fault
             /\ cmd' = Idle
             /\ \/ litter' \in BOOLEAN /\ UNCHANGED <<setupJournal, linked, status>>
                \/ /\ setupJournal' = journal
                   /\ status' = begun
                   /\ litter' \in BOOLEAN
                   /\ linked' = IF litter' THEN linked \cup {"setup"} ELSE linked
    /\ UNCHANGED <<files, dir, postgres, mode, nukeJournal, server>>

\* provision_role: the role and its comment are one transaction.
ProvisionRole ==
    /\ cmd.pc = "role"
    /\ \/ Fine /\ Goto("create") /\ roles' = roles \cup {cmd.instance}
       \/ /\ Fault
          /\ Goto("rollback")
          /\ \E r \in {roles, roles \cup {cmd.instance}} : roles' = r
    /\ UNCHANGED <<disk, db, mode, journals, status, attempts, server>>

SetDatabase(state) ==
    db' = [db EXCEPT ![Name(cmd.instance)] = [by |-> cmd.instance, state |-> state]]

\* Mutant: a database that exists is dropped like one that was just created.
CreateDatabaseDrops ==
    /\ cmd.pc = "create"
    /\ IF db[Name(cmd.instance)].state = "none"
       THEN Goto("comment") /\ SetDatabase("bare")
       ELSE Goto("dropNew") /\ UNCHANGED db
    /\ Fine
    /\ UNCHANGED <<disk, roles, mode, journals, status, attempts, server>>

\* CREATE DATABASE, of provision_database or of ensure_database_and_migrate,
\* which never adopts a database that exists.
CreateDatabase ==
    /\ cmd.pc = "create"
    /\ \/ /\ Fine
          /\ db[Name(cmd.instance)].state = "none"
          /\ Goto("comment")
          /\ SetDatabase("bare")
       \/ /\ Fine
          /\ db[Name(cmd.instance)].state # "none"
          /\ Goto("rollback")
          /\ UNCHANGED db
       \/ /\ Fault
          /\ db[Name(cmd.instance)].state = "none"
          /\ Goto("rollback")
          /\ SetDatabase("bare") \/ UNCHANGED db
    /\ UNCHANGED <<disk, roles, mode, journals, status, attempts, server>>

\* COMMENT ON DATABASE.
CommentDatabase ==
    /\ cmd.pc = "comment"
    /\ \/ /\ Fine
          /\ SetDatabase("marked")
          /\ Goto(IF Managed THEN "material" ELSE "migrate")
       \/ /\ Fault
          /\ SetDatabase("marked") \/ UNCHANGED db
          /\ Goto(IF Managed THEN "rollback" ELSE "dropNew")
    /\ UNCHANGED <<disk, roles, mode, journals, status, attempts, server>>

After == [material |-> "key", key |-> "env", env |-> "marker", marker |-> "config"]

\* initialize writes its files one after the other, the configuration last.
WriteOutput ==
    /\ cmd.pc \in Outputs
    /\ \/ /\ Fine
          /\ files' = [files EXCEPT ![cmd.pc] = cmd.instance]
          /\ Goto(IF cmd.pc # "config" THEN After[cmd.pc]
                  ELSE IF Managed THEN "migrate" ELSE "create")
          /\ UNCHANGED litter
       \/ /\ Fault
          /\ \E i \in {0, cmd.instance} : files' = [files EXCEPT ![cmd.pc] = i]
          /\ IF cmd.pc \in {"material", "marker"} THEN litter' \in BOOLEAN
             ELSE UNCHANGED litter
          /\ Goto("undoFiles") \/ cmd' = Idle
    /\ UNCHANGED <<dir, postgres, mode, journals, status, attempts, server>>

\* Migrations and the installation row: migrate_precreated_database, or the
\* rest of ensure_database_and_migrate.
MigrateDatabase ==
    /\ cmd.pc = "migrate"
    /\ \/ Fine /\ Goto("adminKey") /\ SetDatabase("ready")
       \/ /\ Fault
          /\ Goto(IF Managed THEN "rollback" ELSE "dropNew")
          /\ SetDatabase("ready") \/ UNCHANGED db
    /\ UNCHANGED <<disk, roles, mode, journals, status, attempts, server>>

\* cleanup_new_database, whose failure is only logged.
CleanupNewDatabase ==
    /\ cmd.pc = "dropNew"
    /\ \/ Fine /\ db' = [db EXCEPT ![Name(cmd.instance)] = NoDatabase]
       \/ Fault /\ UNCHANGED db
    /\ Goto("rollback")
    /\ UNCHANGED <<disk, roles, mode, journals, status, attempts, server>>

\* harden_role, and create_key for the first Admin.
CreateAdminKey ==
    /\ cmd.pc = "adminKey"
    /\ \/ Fine /\ Goto("commit")
       \/ Fault /\ Goto("rollback")
    /\ UNCHANGED <<disk, postgres, mode, journals, status, attempts, server>>

\* mark_committed: from here on the installation is not rolled back.  The
\* journal is replaced by way of a second file in the data directory, which
\* stays there when the rename is not reached.
MarkCommitted ==
    /\ cmd.pc = "commit"
    /\ LET commit ==
               /\ setupJournal' = [setupJournal EXCEPT !.phase = "committed"]
               /\ status' = [status EXCEPT ![cmd.instance] = "committed"]
       IN \/ /\ Fine
             /\ setupJournal.phase = "provisioning"
             /\ Goto("retire") /\ commit /\ UNCHANGED litter
          \/ /\ Fine
             /\ setupJournal.phase # "provisioning"
             /\ Goto("rollback") /\ UNCHANGED <<setupJournal, status, litter>>
          \/ /\ Fault
             /\ setupJournal.phase = "provisioning"
             /\ Goto("rollback") \/ cmd' = Idle
             /\ \/ commit /\ UNCHANGED litter
                \/ litter' \in {litter, TRUE} /\ UNCHANGED <<setupJournal, status>>
    /\ UNCHANGED <<files, dir, postgres, mode, nukeJournal, linked, attempts, server>>

\* retire_committed; a failure is only logged, and a server that started may
\* have been faster.
RetireCommitted ==
    /\ cmd.pc = "retire"
    /\ cmd' = Idle
    /\ \/ Fine /\ setupJournal' = NoJournal
       \/ Fault /\ UNCHANGED setupJournal
    /\ UNCHANGED <<disk, postgres, mode, nukeJournal, linked, status, attempts,
                   server>>

----------------------------------------------------------------------------
(***************************************************************************)
(* Rolling back a setup: cleanup_abandoned_setup.                          *)
(***************************************************************************)

\* Mutant: the phase of the journal is not looked at.
RollbackCurrentSetupAlways ==
    /\ cmd.pc = "rollback"
    /\ Goto("cleanDatabase")
    /\ UNCHANGED <<disk, postgres, mode, journals, status, attempts, server,
                   faults>>

\* setup_failure: rollback_current_setup refuses a journal that says
\* committed.
RollbackCurrentSetup ==
    /\ cmd.pc = "rollback"
    /\ IF setupJournal.phase = "provisioning" THEN Goto("cleanDatabase")
       ELSE cmd' = Idle
    /\ UNCHANGED <<disk, postgres, mode, journals, status, attempts, server,
                   faults>>

DropDatabase(i) == db' = [db EXCEPT ![Name(i)] = NoDatabase]

\* Mutant: a database without its comment is taken for somebody else's.
CleanManagedMarked(i) ==
    IF i \in roles /\ db[i].state \in {"marked", "ready"} THEN DropDatabase(i)
    ELSE UNCHANGED db

\* The database of cleanup_managed_resources: with the role goes a database
\* that it owns, commented or not.
CleanManaged(i) ==
    IF i \in roles THEN DropDatabase(i) ELSE UNCHANGED db

\* cleanup_external_database: the URL is in the environment file; without
\* the file there is nothing to do, without the comment it fails.
ExternalFails(i) ==
    /\ files["env"] # 0
    /\ db[0].state # "none"
    /\ ~(Owned(i) /\ db[0].state # "bare")

CleanExternal(i) ==
    IF files["env"] # 0 /\ db[0].state # "none" THEN DropDatabase(i)
    ELSE UNCHANGED db

CleanDatabase ==
    /\ cmd.pc = "cleanDatabase"
    /\ \/ Fine /\ Managed /\ CleanManaged(cmd.instance) /\ Goto("cleanRole")
       \/ /\ Fine
          /\ ~Managed
          /\ IF ExternalFails(cmd.instance)
             THEN GotoFailed("cleanFiles") /\ UNCHANGED db
             ELSE Goto("cleanFiles") /\ CleanExternal(cmd.instance)
       \/ Fault /\ GotoFailed("cleanFiles") /\ UNCHANGED db
    /\ UNCHANGED <<disk, roles, mode, journals, status, attempts, server>>

CleanRole ==
    /\ cmd.pc = "cleanRole"
    /\ \/ Fine /\ roles' = roles \ {cmd.instance} /\ Goto("cleanFiles")
       \/ Fault /\ UNCHANGED roles /\ GotoFailed("cleanFiles")
    /\ UNCHANGED <<disk, db, mode, journals, status, attempts, server>>

\* rollback_interrupted_setup_files removes what it can.
Kept(kept) == [o \in Outputs |-> IF o \in kept THEN files[o] ELSE 0]

Present == {o \in Outputs : files[o] # 0}

\* In cleanup_abandoned_setup, and before it in rollback_failed_setup when it
\* is initialize that failed.
RollbackFiles ==
    /\ cmd.pc \in {"undoFiles", "cleanFiles"}
    /\ LET there == IF cmd.pc = "undoFiles" THEN "rollback" ELSE "cleanJournal"
       IN \/ Fine /\ files' = Kept({}) /\ Goto(there)
          \/ /\ Fault
             /\ \E kept \in SUBSET Present \ {{}} : files' = Kept(kept)
             /\ \/ cmd' = Idle
                \/ cmd.pc = "undoFiles" /\ Goto(there)
                \/ cmd.pc = "cleanFiles" /\ GotoFailed(there)
    /\ UNCHANGED <<dir, litter, postgres, mode, journals, status, attempts,
                   server>>

\* The journal is kept when something failed; else it is removed, which fails
\* if it is not there, and then the directories, if they are empty.
CleanJournal ==
    /\ cmd.pc = "cleanJournal"
    /\ \/ Fine /\ cmd.failed /\ cmd' = Idle /\ UNCHANGED <<setupJournal, dir>>
       \/ /\ Fine
          /\ ~cmd.failed
          /\ setupJournal = NoJournal
          /\ cmd' = Idle
          /\ UNCHANGED <<setupJournal, dir>>
       \/ /\ Fine
          /\ ~cmd.failed
          /\ setupJournal # NoJournal
          /\ setupJournal' = NoJournal
          /\ dir' = litter
          /\ cmd' = [Idle EXCEPT !.pc = cmd.next]
       \/ /\ Fault
          /\ ~cmd.failed
          /\ \E journal \in {setupJournal, NoJournal} : setupJournal' = journal
          /\ cmd' = Idle
          /\ UNCHANGED dir
    /\ UNCHANGED <<files, litter, postgres, mode, nukeJournal, linked, status,
                   attempts, server>>

----------------------------------------------------------------------------
(***************************************************************************)
(* --nuke.                                                                 *)
(***************************************************************************)

\* reset_interrupted_setup_for_nuke.
ResetInterruptedSetup ==
    /\ cmd = Idle
    /\ SetupJournalReads
    /\ \/ /\ setupJournal.phase = "none"
          /\ cmd' = [Idle EXCEPT !.pc = "nuke"]
          /\ UNCHANGED setupJournal
       \/ /\ setupJournal.phase = "committed"
          /\ files["config"] # 0
          /\ setupJournal' = NoJournal
          /\ cmd' = [Idle EXCEPT !.pc = "nuke"]
       \/ /\ setupJournal.phase = "provisioning"
          /\ cmd' = [Idle EXCEPT !.pc = "cleanDatabase",
                                 !.instance = setupJournal.instance]
          /\ UNCHANGED setupJournal
    /\ UNCHANGED <<disk, postgres, mode, nukeJournal, linked, status, attempts,
                   server, faults>>

\* Mutant: nobody asks whether a server runs.
LockIsFreeUnchecked == TRUE

\* acquire_server_lock and ensure_socket_inactive.
LockIsFree == ~ServerHoldsLock

\* validate_data_root.
MarkerHolds(i) == dir /\ files["marker"] = i

\* parse_database_environment: the file's first line names its instance.
EnvironmentHolds(i) == files["env"] = i

\* NukePlan::validate and resolve_database_url_from_file.
PlanHolds(i) == files["config"] = i /\ MarkerHolds(i) /\ EnvironmentHolds(i)

\* verify_owned_database.
DatabaseVerifies(i) == Owned(i) /\ db[Name(i)].state = "ready"

\* validate_journal_plan.
JournalHolds(journal) ==
    \/ MarkerHolds(journal.instance)
    \/ journal.phase = "dropped" /\ (~dir \/ DataRootIsEmpty)

Authorizes ==
    /\ nukeJournal.phase = "none"
    /\ files["config"] # 0
    /\ PlanHolds(files["config"])
    /\ LockIsFree
    /\ DatabaseVerifies(files["config"])

Resumes ==
    /\ nukeJournal.phase # "none"
    /\ NukeJournalReads
    /\ JournalHolds(nukeJournal)
    /\ LockIsFree
    /\ nukeJournal.phase = "authorized" => PlanHolds(nukeJournal.instance)

\* nuke, up to the journal; resume_nuke.
StartNuke ==
    /\ cmd.pc = "nuke"
    /\ \/ Authorizes /\ cmd' = [Idle EXCEPT !.pc = "authorize", !.instance = files["config"]]
       \/ Resumes /\ cmd' = [Idle EXCEPT !.instance = nukeJournal.instance,
                    !.pc = IF nukeJournal.phase = "authorized" THEN "dropDatabase" ELSE "dropRole"]
       \/ ~Authorizes /\ ~Resumes /\ cmd' = Idle
    /\ UNCHANGED <<disk, postgres, mode, journals, status, attempts, server,
                   faults>>

WriteNukeJournal ==
    /\ cmd.pc = "authorize"
    /\ LET authorize ==
               /\ nukeJournal' = [phase |-> "authorized", instance |-> cmd.instance]
               /\ status' = [status EXCEPT ![cmd.instance] = "authorized"]
       IN \/ Fine /\ Goto("dropDatabase") /\ authorize /\ UNCHANGED linked
          \/ /\ Fault
             /\ cmd' = Idle
             /\ \/ UNCHANGED <<nukeJournal, status, linked>>
                \/ authorize /\ linked' \in {linked, linked \cup {"nuke"}}
    /\ UNCHANGED <<disk, postgres, mode, setupJournal, attempts, server>>

\* continue_authorized_nuke: require_owned_role, then drop_owned_database; a
\* database that is missing was dropped before.
DropOwnedDatabase ==
    /\ cmd.pc = "dropDatabase"
    /\ LET allowed == /\ Managed => cmd.instance \in roles
                      /\ \/ db[Name(cmd.instance)].state = "none"
                         \/ DatabaseVerifies(cmd.instance)
       IN \/ Fine /\ allowed /\ Goto("recordDrop") /\ DropDatabase(cmd.instance)
          \/ Fine /\ ~allowed /\ cmd' = Idle /\ UNCHANGED db
          \/ Fault /\ cmd' = Idle /\ (DropDatabase(cmd.instance) \/ UNCHANGED db)
    /\ UNCHANGED <<disk, roles, mode, journals, status, attempts, server>>

RecordDrop ==
    /\ cmd.pc = "recordDrop"
    /\ LET record == nukeJournal' = [nukeJournal EXCEPT !.phase = "dropped"]
       IN \/ Fine /\ Goto("dropRole") /\ record
          \/ Fault /\ cmd' = Idle /\ (record \/ UNCHANGED nukeJournal)
    /\ UNCHANGED <<disk, postgres, mode, setupJournal, linked, status, attempts,
                   server>>

\* finish_nuke, from here on.
DropOwnedRole ==
    /\ cmd.pc = "dropRole"
    /\ \/ Fine /\ Goto("nukeFiles") /\ roles' = roles \ {cmd.instance}
       \/ Fault /\ cmd' = Idle /\ (UNCHANGED roles \/ roles' = roles \ {cmd.instance})
    /\ UNCHANGED <<disk, db, mode, journals, status, attempts, server>>

NukeFiles ==
    /\ cmd.pc = "nukeFiles"
    /\ \/ Fine /\ Goto("nukeData") /\ files' = [files EXCEPT !["env"] = 0, !["config"] = 0]
       \/ /\ Fault
          /\ \E o \in {"env", "config"} : files' = [files EXCEPT ![o] = 0]
          /\ GotoFailed("nukeData")
    /\ UNCHANGED <<dir, litter, postgres, mode, journals, status, attempts,
                   server>>

\* Mutant: the marker goes first.
RemoveDataEntriesLast ==
    /\ cmd.pc = "nukeData"
    /\ IF dir /\ files["marker"] # 0
       THEN Goto("nukeMarker") /\ files' = [files EXCEPT !["marker"] = 0]
       ELSE Goto("nukeEnd") /\ UNCHANGED files
    /\ Fine
    /\ UNCHANGED <<dir, litter, postgres, mode, journals, status, attempts,
                   server>>

\* remove_data_dir_if_present keeps the marker until all else is gone.
RemoveDataEntries ==
    /\ cmd.pc = "nukeData"
    /\ \/ Fine /\ ~dir /\ Goto("nukeEnd") /\ UNCHANGED <<files, litter>>
       \/ /\ Fine
          /\ dir
          /\ files["marker"] = 0
          /\ IF DataRootIsEmpty THEN Goto("nukeDir") ELSE GotoFailed("nukeEnd")
          /\ UNCHANGED <<files, litter>>
       \/ /\ Fine
          /\ dir
          /\ files["marker"] # 0
          /\ files' = [files EXCEPT !["material"] = 0]
          /\ litter' = FALSE
          /\ Goto("nukeMarker")
       \/ Fault /\ dir /\ GotoFailed("nukeEnd") /\ UNCHANGED <<files, litter>>
    /\ UNCHANGED <<dir, postgres, mode, journals, status, attempts, server>>

RetireMarker ==
    /\ cmd.pc = "nukeMarker"
    /\ \/ Fine /\ Goto("nukeDir") /\ files' = [files EXCEPT !["marker"] = 0]
       \/ Fault /\ GotoFailed("nukeEnd") /\ UNCHANGED files
    /\ UNCHANGED <<dir, litter, postgres, mode, journals, status, attempts,
                   server>>

RemoveDataDir ==
    /\ cmd.pc = "nukeDir"
    /\ \/ Fine /\ Goto("nukeEnd") /\ dir' = FALSE
       \/ Fault /\ GotoFailed("nukeEnd") /\ UNCHANGED dir
    /\ UNCHANGED <<files, litter, postgres, mode, journals, status, attempts,
                   server>>

RemoveNukeJournal ==
    /\ cmd.pc = "nukeEnd"
    /\ cmd' = Idle
    /\ \/ Fine /\ cmd.failed /\ UNCHANGED nukeJournal
       \/ Fine /\ ~cmd.failed /\ nukeJournal' = NoJournal
       \/ Fault /\ ~cmd.failed /\ UNCHANGED nukeJournal
    /\ UNCHANGED <<disk, postgres, mode, setupJournal, linked, status, attempts,
                   server>>

----------------------------------------------------------------------------
(***************************************************************************)
(* centrald-server run, and crashes.                                       *)
(***************************************************************************)

\* prepare_for_normal_command: without the setup lock, it reads the journal
\* and then removes one that said committed.
PrepareForNormalCommand ==
    /\ server = Off
    /\ SetupJournalReads
    /\ setupJournal.phase # "provisioning"
    /\ setupJournal.phase = "committed" => files["config"] # 0
    /\ server' = [Off EXCEPT !.since = attempts,
                     !.pc = IF setupJournal = NoJournal THEN "checked" ELSE "retiring"]
    /\ UNCHANGED <<disk, postgres, mode, journals, status, attempts, cmd, faults>>

\* remove_journal removes whatever journal is there by then.
RemoveJournal ==
    /\ server.pc = "retiring"
    /\ IF setupJournal = NoJournal \/ ~SetupJournalReads
       THEN server' = Off /\ UNCHANGED setupJournal
       ELSE server' = [server EXCEPT !.pc = "checked"] /\ setupJournal' = NoJournal
    /\ UNCHANGED <<disk, postgres, mode, nukeJournal, linked, status, attempts,
                   cmd, faults>>

LoadConfig ==
    /\ server.pc = "checked"
    /\ files["config"] # 0
    /\ server' = [server EXCEPT !.pc = "loaded", !.instance = files["config"]]
    /\ UNCHANGED <<disk, postgres, mode, journals, status, attempts, cmd, faults>>

AcquireServerLock ==
    /\ server.pc = "loaded"
    /\ ~ResetHoldsLock
    /\ server' = [server EXCEPT !.pc = "locked"]
    /\ UNCHANGED <<disk, postgres, mode, journals, status, attempts, cmd, faults>>

\* RuntimeState::load: the URL, and connect_and_migrate.
ConnectAndMigrate ==
    /\ server.pc = "locked"
    /\ EnvironmentHolds(server.instance)
    /\ DatabaseVerifies(server.instance)
    /\ server' = [server EXCEPT !.pc = "up"]
    /\ UNCHANGED <<disk, postgres, mode, journals, status, attempts, cmd, faults>>

\* A check of its start fails, or it stops.
ServerEnds ==
    /\ server # Off
    /\ server' = Off
    /\ UNCHANGED <<disk, postgres, mode, journals, status, attempts, cmd, faults>>

Crash ==
    /\ cmd # Idle
    /\ Fault
    /\ cmd' = Idle
    /\ UNCHANGED <<disk, postgres, mode, journals, status, attempts, server>>

----------------------------------------------------------------------------
Setup ==
    \/ RecoverBeforeInitialSetup \/ Preflight \/ SetupRefused \/ BeginSetup
    \/ ProvisionRole \/ CreateDatabase \/ CommentDatabase \/ WriteOutput
    \/ MigrateDatabase \/ CleanupNewDatabase \/ CreateAdminKey
    \/ MarkCommitted \/ RetireCommitted

Cleanup ==
    \/ RollbackCurrentSetup \/ CleanDatabase \/ CleanRole \/ RollbackFiles
    \/ CleanJournal

Nuke ==
    \/ ResetInterruptedSetup \/ StartNuke \/ WriteNukeJournal
    \/ DropOwnedDatabase \/ RecordDrop \/ DropOwnedRole \/ NukeFiles
    \/ RemoveDataEntries \/ RetireMarker \/ RemoveDataDir \/ RemoveNukeJournal

Run ==
    \/ PrepareForNormalCommand \/ RemoveJournal \/ LoadConfig
    \/ AcquireServerLock \/ ConnectAndMigrate \/ ServerEnds

\* The journal that a step of a server removes is not the one it read.
Loses ==
    /\ setupJournal.phase = "provisioning"
    /\ server.pc = "retiring" /\ server'.pc = "checked"

Next ==
    /\ Setup \/ Cleanup \/ Nuke \/ Run \/ Crash
    /\ lost' = (lost \/ Loses)

Spec == Init /\ [][Next]_installVars

----------------------------------------------------------------------------
TypeOK ==
    /\ files \in [Outputs -> 0..MaxAttempts]
    /\ {dir, litter} \subseteq BOOLEAN
    /\ roles \subseteq Instances
    /\ db \in [0..MaxAttempts -> [by : 0..MaxAttempts,
                                  state : {"none", "bare", "marked", "ready"}]]
    /\ setupJournal \in [phase : {"none", "provisioning", "committed"},
                         instance : 0..MaxAttempts]
    /\ nukeJournal \in [phase : {"none", "authorized", "dropped"},
                        instance : 0..MaxAttempts]
    /\ linked \subseteq {"setup", "nuke"}
    /\ status \in [Instances -> {"unused", "begun", "committed", "authorized"}]
    /\ attempts \in 0..MaxAttempts
    /\ server.pc \in {"off", "retiring", "checked", "loaded", "locked", "up"}

\* Everything a server needs.
Whole(i) ==
    /\ \A o \in Outputs \ {"key"} : files[o] = i
    /\ dir
    /\ DatabaseVerifies(i)
    /\ mode[i] = "managed" => i \in roles

\* prepare_for_normal_command may remove the journal of a setup that began
\* after it read the journal of an earlier one.  Such a setup can neither be
\* committed nor recovered; what is said of servers and of what is left behind
\* is about hosts where that has not happened (~lost).

\* Once mark_committed has taken effect, whether or not it says so, no crash,
\* failed step, recovery or later setup takes anything of the installation
\* away, until a reset of this very instance was authorized.  Nor does the
\* reset of an earlier instance whose journal was left behind.
PublishedIsWhole ==
    \A i \in Instances : status[i] = "committed" => Whole(i)

\* A setup that was rolled back, and a reset that was finished, leave nothing
\* behind: once neither a journal nor a command knows of an instance, it has
\* no role, no database and no files.  Left out is the database of an
\* external setup that never committed: when dropping it fails once, the
\* environment file with its URL is removed all the same, and the retry finds
\* nothing to do.
RetiredIsClean ==
    ~lost =>
    \A i \in Instances :
        (/\ status[i] \in {"begun", "authorized"}
         /\ i \notin {cmd.instance, setupJournal.instance, nukeJournal.instance})
        => /\ i \notin roles
           /\ \A o \in Outputs \ {"key"} : files[o] # i
           /\ status[i] = "begun" => files["key"] # i
           /\ mode[i] = "managed" \/ status[i] = "authorized" =>
                 ~(Owned(i) /\ db[Name(i)].state # "none")

\* No interruption strands the host: a journal says how to go on, or a complete
\* installation is there, or preflight finds nothing in the way of a new one.
\* Excepted is one inside write_new_file, or inside the replacement of the
\* journal by mark_committed, that leaves a temporary file in the data
\* directory, which no recovery removes and preflight_data_root refuses, or a
\* journal with two names.
HostIsNotStranded ==
    cmd = Idle /\ ~litter /\ linked = {} /\ ~lost =>
        \/ setupJournal # NoJournal
        \/ nukeJournal # NoJournal
        \/ PreflightPasses
        \/ files["config"] # 0 /\ Whole(files["config"])

\* An authorized reset can be resumed wherever it stopped: once no server runs,
\* what resume_nuke checks holds, and what continue_authorized_nuke checks.
\* A journal whose writing was interrupted while it had two names is excepted:
\* read_nuke_journal refuses it for good.  A setup that is begun over the
\* remains ends this too: the reset then refuses, rightly, but for good.
ResetCanResume ==
    (/\ nukeJournal # NoJournal /\ attempts = nukeJournal.instance
     /\ cmd = Idle /\ NukeJournalReads) =>
        /\ LockIsFree => Resumes
        /\ nukeJournal.phase = "authorized" =>
              /\ mode[attempts] = "managed" => attempts \in roles
              /\ DatabaseVerifies(attempts) \/ db[Name(attempts)].state = "none"

\* No setup, recovery or reset takes the database or the files of a server
\* that is up, as long as the setup began before the server's command looked
\* for a journal.  The look is not repeated, so a later setup is not excluded.
ServerIsWhole ==
    server.pc = "up" /\ server.instance <= server.since /\ ~lost =>
        Whole(server.instance)

\* A database that is not CentralD's, under the name an operator gave by
\* mistake, is never dropped or adopted.
ForeignIsKept ==
    [][db[0] = [by |-> 0, state |-> "ready"] => db'[0] = db[0]]_installVars

=============================================================================
