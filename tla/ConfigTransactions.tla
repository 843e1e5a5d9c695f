------------------------- MODULE ConfigTransactions -------------------------
(***************************************************************************)
(* The server configuration file and the PostgreSQL environment file, and  *)
(* the journaled transactions that replace them                            *)
(* (crates/centrald-server/src/config_lock.rs and its callers): the remote *)
(* settings update of an Admin (services.rs), the local save and the local *)
(* database update of the configuration TUI (manage.rs), and the recovery  *)
(* that startup and every locked operation run first.                      *)
(*                                                                         *)
(* All writers serialize on one advisory file lock, so a single program    *)
(* counter, `step', describes whoever holds it. Every file operation is a  *)
(* step of its own. A process may die between any two of them, and any of  *)
(* them may fail; the code's error path then runs. write_new_file and      *)
(* replace_file_atomically publish by link and rename, so no file is ever  *)
(* half written, but both report the failure of the directory sync that    *)
(* follows, when the file is already in place (late). A cancelled          *)
(* RPC drops its future at an await and releases the lock without a        *)
(* rollback, which leaves the files as a crash at the same step does.      *)
(*                                                                         *)
(* A configuration is a record [rev, base, env]: rev stands for the        *)
(* SHA-256 revision of its bytes, base for the revision it was edited      *)
(* from, env for the generation of the environment file it was published   *)
(* with.                                                                   *)
(***************************************************************************)
EXTENDS Naturals, FiniteSets

CONSTANTS
  Daemon,           \* the server, on behalf of its Admins
  Locals,           \* configuration TUIs and CLI commands
  None,             \* no file, no holder, nothing loaded
  MaxRev,           \* bound: revisions ever written
  MaxDisruptions    \* bound: crashes and failed operations

ASSUME ConfigAssumption ==
  /\ MaxRev \in Nat /\ MaxDisruptions \in Nat
  /\ None \notin Locals \cup {Daemon} /\ Daemon \notin Locals

Procs == Locals \cup {Daemon}

VARIABLES
  files,        \* the configuration, the environment file and all artifacts
  lock,         \* holder of the ConfigFileLock
  op,           \* what the holder does
  step,         \* its program counter
  intended,     \* the replacement configuration it computed
  loaded,       \* loaded[p]: the revision p last read
  prepared,     \* revisions with a durable "pending" audit record
  succeeded,    \* revisions with a durable "succeeded" audit record
  nextRev,      \* next fresh revision
  disruptions,  \* crashes and failures so far
  late          \* history: an operation failed after it had taken effect

vars == <<files, lock, op, step, intended, loaded, prepared, succeeded,
          nextRev, disruptions, late>>
failures == <<disruptions, late>>

-----------------------------------------------------------------------------
Revs == 0..MaxRev
Configuration == [rev : Revs, base : Revs, env : Revs]
ASSUME NoneIsNothing == None \notin Revs /\ None \notin Configuration
FileState ==
  [config : Configuration, env : Revs,
   original : Configuration \cup {None}, journal : Revs \cup {None},
   published : Revs \cup {None},
   dbJournal : Revs \cup {None}, envStage : Revs \cup {None},
   configStage : Configuration \cup {None}]

Ops == {"startup_database", "startup_settings", "get", "update", "save",
        "database", "rollback", "reconcile", "reconcile_db"}
Steps == {"recover_db", "recover_settings", "restore", "drop_published",
          "drop_journal", "drop_original", "check", "prepare", "original",
          "journal", "publish", "mark", "final", "complete_journal",
          "complete_original", "complete_published", "pending", "replace",
          "stage_env", "stage_config", "journal_db", "publish_env",
          "publish_config", "drop_db_journal", "recorded"}

TypeOK ==
  /\ files \in FileState
  /\ lock \in Procs \cup {None}
  /\ op \in Ops \cup {"idle"} /\ step \in Steps \cup {"idle"}
  /\ intended \in Configuration \cup {None}
  /\ loaded \in [Procs -> Revs \cup {None}]
  /\ prepared \subseteq Revs /\ succeeded \subseteq Revs
  /\ nextRev \in 1..(MaxRev + 1) /\ disruptions \in 0..MaxDisruptions
  /\ late \in BOOLEAN

Init ==
  /\ files = [config |-> [rev |-> 0, base |-> 0, env |-> 0], env |-> 0,
              original |-> None, journal |-> None, published |-> None,
              dbJournal |-> None, envStage |-> None, configStage |-> None]
  /\ lock = None /\ op = "idle" /\ step = "idle" /\ intended = None
  /\ loaded = [p \in Procs |-> None]
  /\ prepared = {} /\ succeeded = {} /\ nextRev = 1
  /\ disruptions = 0 /\ late = FALSE

-----------------------------------------------------------------------------
(* The holder's control flow. *)

At(s) == lock # None /\ step = s

\* The guard of the lock file is dropped with the operation's other locals.
Release ==
  /\ lock' = None /\ op' = "idle" /\ step' = "idle" /\ intended' = None

Goto(o, s) ==
  /\ op' = o /\ step' = s /\ UNCHANGED <<lock, intended>>

Fail(tookEffect) ==
  /\ disruptions < MaxDisruptions
  /\ disruptions' = disruptions + 1
  /\ late' = (late \/ tookEffect)

Disrupt == Fail(FALSE)

\* One file operation of the holder: it leaves the files as f and goes on to
\* ok, or it fails, with or without that effect, and takes the error path bad,
\* which leaves one of the states in Left(the files it found).
FileStepOr(s, f, Left(_), ok, bad) ==
  /\ At(s)
  /\ \/ files' = f /\ ok /\ UNCHANGED failures
     \/ /\ bad
        /\ \E tookEffect \in BOOLEAN :
              /\ Fail(tookEffect)
              /\ files' \in Left(IF tookEffect THEN f ELSE files)
  /\ UNCHANGED <<loaded, prepared, succeeded, nextRev>>

FileStep(s, f, ok, bad) == FileStepOr(s, f, LAMBDA g : {g}, ok, bad)

\* Where the holder goes when the interrupted settings update is recovered.
AfterRecovery ==
  IF op \in {"update", "save", "database"} THEN Goto(op, "check") ELSE Release

-----------------------------------------------------------------------------
(* Opening the configuration. *)

DatabaseArtifacts ==
  \E a \in {"dbJournal", "envStage", "configStage"} : files[a] # None
SettingsArtifacts ==
  \E a \in {"journal", "original", "published"} : files[a] # None

Acquire(p, o, s) ==
  /\ lock = None
  /\ lock' = p /\ op' = o /\ step' = s
  /\ UNCHANGED <<files, intended, loaded, prepared, succeeded, nextRev,
                 failures>>

\* main.rs runs each recovery before the command, and takes the lock only
\* when it sees an artifact.
StartupDatabase(p) ==
  DatabaseArtifacts /\ Acquire(p, "startup_database", "recover_db")

StartupSettings(p) ==
  SettingsArtifacts /\ Acquire(p, "startup_settings", "recover_settings")

\* The TUI loads the configuration without the lock; an Admin's revision comes
\* from an earlier get_server_settings or from the answer to an update.
Load(p) ==
  /\ loaded[p] # files.config.rev
  /\ loaded' = [loaded EXCEPT ![p] = files.config.rev]
  /\ UNCHANGED <<files, lock, op, step, intended, prepared, succeeded,
                 nextRev, failures>>

GetServerSettings == Acquire(Daemon, "get", "recover_db")

UpdateServerSettings ==
  /\ loaded[Daemon] # None /\ nextRev <= MaxRev
  /\ Acquire(Daemon, "update", "recover_db")

SaveConfig(p) ==
  loaded[p] # None /\ nextRev <= MaxRev /\ Acquire(p, "save", "recover_db")

ConfigureDatabase(p) ==
  loaded[p] # None /\ nextRev <= MaxRev /\ Acquire(p, "database", "recover_db")

-----------------------------------------------------------------------------
(* recover_interrupted_database_update_locked: rolls forward. The files    *)
(* alone say how far it got, so each pass of the action is its next step.  *)

DatabaseRefused ==
  /\ files.dbJournal # None /\ files.configStage = None
  /\ files.config.rev # files.dbJournal

(* Mutant: the configuration stage is dropped instead of published.         *)
DatabaseRecoveryForgetsConfig ==
  IF files.envStage # None
  THEN [files EXCEPT !.env = files.envStage, !.envStage = None]
  ELSE IF files.dbJournal # None THEN [files EXCEPT !.dbJournal = None]
       ELSE [files EXCEPT !.configStage = None]

DatabaseRecoveryStep ==
  IF files.dbJournal = None
  THEN IF files.envStage # None
       THEN [files EXCEPT !.envStage = None]
       ELSE [files EXCEPT !.configStage = None]
  ELSE IF files.envStage # None
       THEN [files EXCEPT !.env = files.envStage, !.envStage = None]
       ELSE IF files.configStage # None
            THEN [files EXCEPT !.config = files.configStage,
                               !.configStage = None]
            ELSE [files EXCEPT !.dbJournal = None]

AfterDatabaseRecovery ==
  IF op = "startup_database" THEN Release
  ELSE IF op = "reconcile_db"
       THEN Goto("database", "recorded")
       ELSE Goto(op, "recover_settings")

RecoverDatabase ==
  \/ /\ DatabaseArtifacts /\ ~(DatabaseRefused /\ files.envStage = None)
     /\ FileStep("recover_db", DatabaseRecoveryStep, Goto(op, step), Release)
  \/ /\ At("recover_db") /\ DatabaseRefused /\ files.envStage = None
     /\ Release
     /\ UNCHANGED <<files, loaded, prepared, succeeded, nextRev, failures>>
  \/ /\ At("recover_db") /\ ~DatabaseArtifacts
     /\ AfterDatabaseRecovery
     /\ UNCHANGED <<files, loaded, prepared, succeeded, nextRev, failures>>

-----------------------------------------------------------------------------
(* recover_interrupted_settings_update_locked: rolls back unless the        *)
(* publication marker vouches for the configuration in place.              *)

MarkerIgnored == files.published = None

MarkerVouches ==
  /\ files.published # None /\ files.published = files.journal
  /\ files.config.rev = files.journal

SettingsRefused ==
  \/ files.journal # None /\ files.original = None
  \/ /\ files.journal = None /\ files.published # None
     /\ files.published # files.config.rev

\* A marker without a journal: the transaction was committed.
RetireCommitted ==
  IF files.original # None THEN [files EXCEPT !.original = None]
                           ELSE [files EXCEPT !.published = None]

\* The fate of an interrupted transaction is decided once, from the marker.
DecideInterrupted ==
  /\ At("recover_settings")
  /\ files.journal # None /\ ~SettingsRefused
  /\ Goto(op, IF MarkerVouches THEN "drop_published" ELSE "restore")
  /\ UNCHANGED <<files, loaded, prepared, succeeded, nextRev, failures>>

RecoverSettings ==
  \/ DecideInterrupted
  \/ /\ files.journal = None /\ SettingsArtifacts /\ ~SettingsRefused
     /\ FileStep("recover_settings",
                 IF files.published # None THEN RetireCommitted
                 ELSE [files EXCEPT !.original = None],
                 Goto(op, step), Release)
  \/ /\ At("recover_settings") /\ SettingsRefused
     /\ Release
     /\ UNCHANGED <<files, loaded, prepared, succeeded, nextRev, failures>>
  \/ /\ At("recover_settings") /\ ~SettingsArtifacts
     /\ AfterRecovery
     /\ UNCHANGED <<files, loaded, prepared, succeeded, nextRev, failures>>

RestoreOriginal ==
  FileStep("restore", [files EXCEPT !.config = files.original],
           Goto(op, "drop_published"), Release)

\* cleanup_transaction_files, in its order.
DropPublished ==
  FileStep("drop_published", [files EXCEPT !.published = None],
           Goto(op, "drop_journal"), Release)

DropJournal ==
  FileStep("drop_journal", [files EXCEPT !.journal = None],
           Goto(op, "drop_original"), Release)

DropOriginal ==
  FileStep("drop_original", [files EXCEPT !.original = None],
           AfterRecovery, Release)

CleanupTransactionFiles == DropPublished \/ DropJournal \/ DropOriginal

-----------------------------------------------------------------------------
(* The optimistic check, and the audit record every change starts with.    *)

FirstStep == [update |-> "prepare", save |-> "pending", database |-> "pending"]

CheckSkipped ==
  /\ At("check")
  /\ intended' = [rev |-> nextRev, base |-> loaded[lock],
                  env |-> files.config.env]
  /\ nextRev' = nextRev + 1
  /\ step' = FirstStep[op]
  /\ UNCHANGED <<files, lock, op, loaded, prepared, succeeded, failures>>

\* The environment file of a database update may be new or the current one.
CheckCurrent ==
  /\ At("check") /\ loaded[lock] = files.config.rev
  /\ \E env \in {files.config.env} \cup
                IF op = "database" THEN {nextRev} ELSE {} :
       intended' = [rev |-> nextRev, base |-> files.config.rev, env |-> env]
  /\ nextRev' = nextRev + 1
  /\ step' = FirstStep[op]
  /\ UNCHANGED <<files, lock, op, loaded, prepared, succeeded, failures>>

\* "server settings changed; reload before saving"
CheckFails ==
  /\ At("check") /\ loaded[lock] # files.config.rev
  /\ Release
  /\ UNCHANGED <<files, loaded, prepared, succeeded, nextRev, failures>>

Check == CheckCurrent \/ CheckFails

Recorded(next) ==
  /\ prepared' = prepared \cup {intended.rev}
  /\ Goto(op, next)
  /\ UNCHANGED <<files, loaded, succeeded, nextRev, failures>>

NotRecorded ==
  /\ Disrupt /\ Release
  /\ prepared' \in {prepared, prepared \cup {intended.rev}}
  /\ UNCHANGED <<files, loaded, succeeded, nextRev>>

\* server_settings.update.prepare, in PostgreSQL.
AuditPrepare == At("prepare") /\ (Recorded("original") \/ NotRecorded)

\* local_audit::record, in the local journal.
RecordPending ==
  /\ At("pending")
  /\ \/ Recorded(IF op = "save" THEN "replace" ELSE "stage_env")
     \/ NotRecorded

-----------------------------------------------------------------------------
(* update_server_settings and SettingsUpdateTransaction. *)

Rollback == Goto("rollback", "restore")
Reconcile == Goto("reconcile", "recover_settings")

WriteOriginal ==
  FileStep("original", [files EXCEPT !.original = files.config],
           Goto(op, "journal"), Release)

\* When the journal cannot be written, the recovery copy is removed, if it
\* can be.
WriteJournal ==
  LET written == [files EXCEPT !.journal = intended.rev]
      Left(g) == {g, [g EXCEPT !.original = None]}
  IN  FileStepOr("journal", written, Left,
                 Goto(op, "publish"), Release)

BeginSettings == WriteOriginal \/ WriteJournal

Publish ==
  FileStep("publish", [files EXCEPT !.config = intended],
           Goto(op, "mark"), Rollback)

MarkPublished ==
  /\ files.config.rev = files.journal
  /\ FileStep("mark", [files EXCEPT !.published = files.config.rev],
              Goto(op, "final"), Rollback)

AuditSucceeded ==
  /\ At("final")
  /\ \/ /\ succeeded' = succeeded \cup {intended.rev}
        /\ Goto(op, "complete_journal") /\ UNCHANGED failures
     \/ /\ Rollback
        /\ \E tookEffect \in BOOLEAN :
              /\ Fail(tookEffect)
              /\ succeeded' = IF tookEffect THEN succeeded \cup {intended.rev}
                                            ELSE succeeded
  /\ UNCHANGED <<files, loaded, prepared, nextRev>>

CompleteOriginalFirst ==
  FileStep("complete_journal", [files EXCEPT !.original = None],
           Goto(op, "complete_original"), Reconcile)

CompleteJournal ==
  FileStep("complete_journal", [files EXCEPT !.journal = None],
           Goto(op, "complete_original"), Reconcile)

CompleteOriginal ==
  FileStep("complete_original", [files EXCEPT !.original = None],
           Goto(op, "complete_published"), Reconcile)

CompletePublished ==
  FileStep("complete_published", [files EXCEPT !.published = None],
           Release, Reconcile)

Complete == CompleteJournal \/ CompleteOriginal \/ CompletePublished

-----------------------------------------------------------------------------
(* save_config, and configure_database with DatabaseUpdateTransaction. *)

ReplaceConfig ==
  FileStep("replace", [files EXCEPT !.config = intended],
           Goto(op, "recorded"), Release)

StageEnvironment ==
  FileStep("stage_env", [files EXCEPT !.envStage = intended.env],
           Goto(op, "stage_config"), Release)

\* When a stage or the journal cannot be written, the stages before it are
\* removed, if they can be.
StageConfig ==
  LET staged == [files EXCEPT !.configStage = intended]
      Left(g) == {g, [g EXCEPT !.envStage = None]}
  IN  FileStepOr("stage_config", staged, Left,
                 Goto(op, "journal_db"), Release)

WriteDatabaseJournal ==
  LET written == [files EXCEPT !.dbJournal = intended.rev]
      Left(g) == {g, [g EXCEPT !.envStage = None], [g EXCEPT !.configStage = None],
                  [g EXCEPT !.envStage = None, !.configStage = None]}
  IN  FileStepOr("journal_db", written, Left,
                 Goto(op, "publish_env"), Release)

BeginDatabase == StageEnvironment \/ StageConfig \/ WriteDatabaseJournal

ReconcileDb == Goto("reconcile_db", "recover_db")

PublishEnvironment ==
  FileStep("publish_env",
           [files EXCEPT !.env = files.envStage, !.envStage = None],
           Goto(op, "publish_config"), ReconcileDb)

PublishConfig ==
  FileStep("publish_config",
           [files EXCEPT !.config = files.configStage, !.configStage = None],
           Goto(op, "drop_db_journal"), ReconcileDb)

DropDatabaseJournal ==
  FileStep("drop_db_journal", [files EXCEPT !.dbJournal = None],
           Goto(op, "recorded"), ReconcileDb)

CommitDatabase == PublishEnvironment \/ PublishConfig \/ DropDatabaseJournal

\* The final local record; its failure is only a warning.
RecordSucceeded ==
  /\ At("recorded")
  /\ \/ succeeded' = succeeded \cup {intended.rev} /\ UNCHANGED failures
     \/ Disrupt /\ UNCHANGED succeeded
  /\ loaded' = [loaded EXCEPT ![lock] = files.config.rev]
  /\ Release
  /\ UNCHANGED <<files, prepared, nextRev>>

-----------------------------------------------------------------------------
\* The holder dies, or its RPC is cancelled; the kernel drops its lock. What
\* an Admin loaded outlives the server.
Crash ==
  /\ lock # None /\ Disrupt /\ Release
  /\ loaded' = [p \in Procs |->
                  IF p = lock /\ p \in Locals THEN None ELSE loaded[p]]
  /\ UNCHANGED <<files, prepared, succeeded, nextRev>>

HolderStep ==
  \/ RecoverDatabase \/ RecoverSettings \/ RestoreOriginal
  \/ CleanupTransactionFiles \/ Check \/ AuditPrepare \/ RecordPending
  \/ BeginSettings \/ Publish \/ MarkPublished \/ AuditSucceeded \/ Complete
  \/ ReplaceConfig \/ BeginDatabase \/ CommitDatabase \/ RecordSucceeded

Open(p) ==
  \/ StartupDatabase(p) \/ StartupSettings(p) \/ Load(p)

Edit(p) == SaveConfig(p) \/ ConfigureDatabase(p)

Next ==
  \/ HolderStep \/ Crash
  \/ GetServerSettings \/ UpdateServerSettings
  \/ \E p \in Procs : Open(p)
  \/ \E p \in Locals : Edit(p)

Spec == Init /\ [][Next]_vars

-----------------------------------------------------------------------------
(***************************************************************************)
(* Properties                                                              *)
(***************************************************************************)

(* DatabaseUpdateTransaction publishes two files. Whenever nobody holds the *)
(* lock and no database journal is waiting to be rolled forward, the        *)
(* environment file is the one the configuration was published with, unless *)
(* an operation failed late.                                                *)
PairAtRest ==
  (lock = None /\ files.dbJournal = None /\ ~late) =>
    files.env = files.config.env

(* Recovery always finds what it needs: no interruption leaves a database   *)
(* journal without its stage, a settings journal without its original copy, *)
(* or a commit marker for other bytes, on which recovery bails and the      *)
(* server refuses to start. It takes a late failure to break this.          *)
RecoverySucceeds ==
  lock = None /\ ~late => ~DatabaseRefused /\ ~SettingsRefused

(* No lost update and no stale restore: the configuration only moves to a   *)
(* revision edited from the one in place (expected_revision, or the TUI's   *)
(* comparison), or back to exactly the revision it was edited from.         *)
StepwiseHistory ==
  [][files'.config # files.config =>
       \/ files'.config.base = files.config.rev
       \/ files'.config.rev = files.config.base]_files

(* No single interruption rolls back a revision whose "succeeded" record is *)
(* durable: "it never restores the old bytes"                               *)
(* (SettingsUpdateTransaction::complete).                                   *)
SucceededIsKept ==
  [][files.config.rev \in succeeded /\ disruptions <= 1 /\ ~late =>
       files'.config.rev >= files.config.rev]_files
=============================================================================
