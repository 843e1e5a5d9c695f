----------------------- MODULE ConfigTransactionsProofs -----------------------
(***************************************************************************)
(* The configuration and the environment file survive every interruption,  *)
(* for any number of processes, revisions, crashes and failed operations.  *)
(*                                                                         *)
(* The properties look at the files when nobody holds the lock. What keeps *)
(* them true is what the holder may rely on at each of its steps (AtStep), *)
(* which only successful operations lead to, and what the files alone say  *)
(* whoever died or failed: some of it always (Sound), the rest as long as  *)
(* no operation failed late (Intact, Kept).                                *)
(***************************************************************************)
EXTENDS ConfigTransactions, TLAPS

NoDatabase ==
  files.dbJournal = None /\ files.envStage = None /\ files.configStage = None
NoSettings ==
  files.journal = None /\ files.original = None /\ files.published = None

\* Steps of the recovery of a settings update, and of the rollback.
Undoing == {"restore", "drop_published", "drop_journal", "drop_original"}
\* Steps between the check and the first file operation.
Ready == {"prepare", "pending", "original", "replace", "stage_env"}
DatabaseSteps == {"recover_db", "stage_config", "journal_db", "publish_env", "publish_config",
                  "drop_db_journal"}

Opened == {"get", "update", "save", "database"}

\* Who is at which step.
Control ==
  /\ lock = None <=> step = "idle"
  /\ step = "idle" <=> op = "idle"
  /\ step = "recover_db" => op \in Opened \cup {"startup_database", "reconcile_db"}
  /\ step = "recover_settings" => op \in Opened \cup {"startup_settings", "reconcile"}
  /\ op \in {"update", "save", "database"}
       /\ step \in Undoing \cup {"recover_db", "recover_settings", "check"} => nextRev <= MaxRev
  /\ step \in Undoing => op \in Opened \cup {"startup_settings", "reconcile", "rollback"}
  /\ step = "check" => op \in {"update", "save", "database"}
  /\ step \in {"prepare", "original", "journal", "publish", "mark", "final", "complete_journal",
               "complete_original", "complete_published"} => op = "update"
  /\ step = "pending" => op \in {"save", "database"}
  /\ step = "replace" => op = "save"
  /\ step \in {"stage_env", "stage_config", "journal_db", "publish_env", "publish_config",
               "drop_db_journal"} => op = "database"

\* The replacement is an edit of the configuration in place.
Edited ==
  /\ intended \in Configuration
  /\ intended.base = files.config.rev
  /\ files.config.rev < intended.rev

\* It was not recorded as succeeded yet.
Unrecorded == \A r \in succeeded : r < intended.rev

\* What the holder relies on.
AtStep ==
  /\ step \notin DatabaseSteps \cup {"idle"} => NoDatabase
  /\ step \in {"stage_config", "journal_db", "publish_env", "publish_config", "drop_db_journal",
               "check"} \cup Ready => NoSettings
  /\ op = "reconcile_db" \/ step = "recorded" => NoSettings /\ intended \in Configuration
  /\ step \in Ready \cup {"journal", "publish", "stage_config", "journal_db", "publish_env",
                          "publish_config"} => Edited
  /\ step \in Ready \cup {"journal", "publish", "mark", "final"} =>
       intended \in Configuration /\ Unrecorded
  /\ op \in {"update", "save"} /\ step \in Ready \cup {"journal", "publish"} =>
       intended.env = files.config.env
  /\ step \in {"restore", "drop_published", "drop_journal"} =>
       files.journal # None /\ files.original # None
  /\ step = "drop_journal" => files.published = None
  /\ step = "drop_original" => files.journal = None /\ files.published = None
  /\ step \in {"journal", "publish"} => files.original = files.config /\ files.published = None
  /\ step = "journal" => files.journal = None
  /\ step = "publish" => files.journal = intended.rev
  /\ step \in {"mark", "final", "complete_journal"} =>
       /\ files.config = intended /\ files.journal = intended.rev
       /\ files.original # None
  /\ step = "mark" => files.published = None
  /\ step \in {"final", "complete_journal", "complete_original", "complete_published"} =>
       files.published = files.config.rev
  /\ step \in {"complete_original", "complete_published"} => files.journal = None
  /\ step = "complete_published" => files.original = None
  /\ step \in {"stage_config", "journal_db", "publish_env"} => files.envStage = intended.env
  /\ step \in {"stage_config", "journal_db"} => files.dbJournal = None
  /\ step = "stage_config" => files.configStage = None
  /\ step \in {"journal_db", "publish_env", "publish_config"} => files.configStage = intended
  /\ step \in {"publish_env", "publish_config", "drop_db_journal"} =>
       files.dbJournal = intended.rev
  /\ step = "publish_config" => files.envStage = None
  /\ step = "drop_db_journal" =>
       files.envStage = None /\ files.configStage = None /\ intended \in Configuration

\* Whatever failed, at most one kind of transaction is under way, the staged
\* configuration was edited from the one in place, and the recovery copy is it
\* or what it was edited from.
Sound ==
  /\ NoDatabase \/ NoSettings
  /\ files.configStage # None =>
       /\ files.configStage.base = files.config.rev
       /\ files.config.rev < files.configStage.rev /\ files.configStage.rev < nextRev
  /\ files.original # None =>
       /\ files.original = files.config \/ files.config.base = files.original.rev
       /\ files.original.env = files.config.env
       /\ files.original.rev < nextRev
  /\ files.config.rev < nextRev

\* Revisions are given out in order.
Numbered ==
  /\ intended # None => intended.rev < nextRev
  /\ \A r \in succeeded : r < nextRev

\* As long as nothing failed late, recovery finds what it needs and ends with
\* the environment file of the configuration.
Intact ==
  /\ files.dbJournal = None => files.env = files.config.env
  /\ files.dbJournal # None /\ files.configStage # None =>
       /\ files.configStage.rev = files.dbJournal
       /\ files.envStage # None => files.envStage = files.configStage.env
       /\ files.envStage = None => files.env = files.configStage.env
  /\ files.dbJournal # None /\ files.configStage = None =>
       files.envStage = None /\ files.config.rev = files.dbJournal /\ files.env = files.config.env
  /\ files.journal # None => files.original # None
  /\ files.journal = None /\ files.published # None => files.published = files.config.rev

Vouched == files.published = files.journal /\ files.config.rev = files.journal

\* As long as nothing failed late, a published update whose success is
\* recorded is not rolled back by what one interruption leaves.
Kept ==
  /\ files.config.rev \in succeeded /\ files.journal # None
  /\ files.original # files.config /\ disruptions <= 1
  => /\ step \notin {"restore", "publish", "mark", "final"}
     /\ step # "drop_journal" => Vouched
     /\ step # "complete_journal" => disruptions = 1

Invariant ==
  /\ TypeOK /\ Control /\ AtStep /\ Sound /\ Numbered
  /\ ~late => Intact /\ Kept

-----------------------------------------------------------------------------
\* Changes of the files.

SettingsSame ==
  /\ files'.journal = files.journal /\ files'.original = files.original
  /\ files'.published = files.published
DatabaseSame ==
  /\ files'.dbJournal = files.dbJournal /\ files'.envStage = files.envStage
  /\ files'.configStage = files.configStage

\* The types of the rest of the state.
RestTyped ==
  /\ lock \in Procs \cup {None}
  /\ op \in Ops \cup {"idle"} /\ step \in Steps \cup {"idle"}
  /\ intended \in Configuration \cup {None}
  /\ loaded \in [Procs -> Revs \cup {None}]
  /\ prepared \subseteq Revs /\ succeeded \subseteq Revs
  /\ nextRev \in 1..(MaxRev + 1) /\ disruptions \in 0..MaxDisruptions
  /\ late \in BOOLEAN

\* TypeOK in two parts.
LEMMA Types == TypeOK <=> files \in FileState /\ RestTyped
  BY DEF TypeOK, RestTyped

\* The same of the next state.
LEMMA TypesNext == TypeOK' <=> files' \in FileState /\ RestTyped'
  BY DEF TypeOK, RestTyped

\* What each file holds.
LEMMA FieldTypes ==
  ASSUME files \in FileState
  PROVE  /\ files.config \in Configuration /\ files.env \in Revs
         /\ files.original \in Configuration \cup {None} /\ files.journal \in Revs \cup {None}
         /\ files.published \in Revs \cup {None} /\ files.dbJournal \in Revs \cup {None}
         /\ files.envStage \in Revs \cup {None}
         /\ files.configStage \in Configuration \cup {None}
  BY DEF FileState

\* Revisions are numbers.
LEMMA RevsAreNumbers ==
  /\ Revs \subseteq Nat /\ MaxRev \in Nat /\ MaxDisruptions \in Nat
  /\ \A c \in Configuration : c.rev \in Nat /\ c.base \in Nat /\ c.env \in Nat
                              /\ c.rev \in Revs /\ c.base \in Revs /\ c.env \in Revs
                              /\ c.rev # None /\ c.env # None /\ c # None
  BY ConfigAssumption, NoneIsNothing DEF Revs, Configuration

-----------------------------------------------------------------------------
\* Ends of an operation.

\* Nothing is expected of the steps of nobody.
LEMMA NobodyWorks ==
  ASSUME Release
  PROVE  Control' /\ AtStep'
<1>1. lock' = None /\ op' = "idle" /\ step' = "idle" /\ intended' = None
  BY DEF Release
<1>2. Control'
  BY ONLY <1>1 DEF Control, Opened, Undoing
<1>3. AtStep'
  BY ONLY <1>1 DEF AtStep, DatabaseSteps, Ready
<1> QED BY <1>2, <1>3

\* Files that are as they were are as good as they were.
LEMMA SameFiles ==
  ASSUME files' = files, nextRev' = nextRev
  PROVE  /\ NoDatabase' = NoDatabase /\ NoSettings' = NoSettings
         /\ Sound' = Sound /\ Intact' = Intact /\ Vouched' = Vouched
  BY DEF NoDatabase, NoSettings, Sound, Intact, Vouched

\* The other variables, when an operation ends in failure.
LEMMA FailTypes ==
  ASSUME RestTyped, Release \/ (\E o \in Ops, s \in Steps : Goto(o, s)),
         NEW t \in BOOLEAN, Fail(t),
         loaded' \in [Procs -> Revs \cup {None}], prepared' \subseteq Revs, succeeded' \subseteq Revs,
         nextRev' = nextRev
  PROVE  RestTyped' /\ disruptions' = disruptions + 1 /\ disruptions' \in Nat
         /\ disruptions \in Nat /\ late' = (late \/ t)
<1>1. /\ disruptions' \in 0..MaxDisruptions /\ late' \in BOOLEAN /\ late' = (late \/ t)
      /\ disruptions' = disruptions + 1 /\ disruptions \in Nat /\ disruptions' \in Nat
  BY RevsAreNumbers DEF RestTyped, Fail
<1>2. lock' \in Procs \cup {None} /\ op' \in Ops \cup {"idle"} /\ step' \in Steps \cup {"idle"}
      /\ intended' \in Configuration \cup {None}
  BY DEF RestTyped, Release, Goto
<1> QED BY <1>1, <1>2 DEF RestTyped

\* An operation that gives up, with its last step undone or done, or its
\* artifacts removed.
LEMMA CleansUp ==
  ASSUME Invariant, lock # None, Release, NEW t \in BOOLEAN, Fail(t),
         UNCHANGED <<succeeded, nextRev>>,
         loaded' \in [Procs -> Revs \cup {None}], prepared' \subseteq Revs,
         files' \in FileState, Sound', ~t /\ ~late => files' = files \/ (Intact' /\ NoSettings')
  PROVE  Invariant'
<1>1. RestTyped' /\ disruptions' = disruptions + 1 /\ disruptions' \in Nat
      /\ disruptions \in Nat /\ late' = (late \/ t)
  BY FailTypes, Types DEF Invariant, RestTyped
<1>2. TypeOK'
  BY <1>1, TypesNext
<1>3. Numbered'
  BY DEF Invariant, Numbered, Release
<1>4. ASSUME ~late' PROVE Intact' /\ Kept'
  <2>1. ~late /\ ~t
    BY <1>1, <1>4
  <2>2. CASE files' = files
    <3>1. Intact' /\ (Vouched' <=> Vouched)
      BY <2>1, <2>2, SameFiles DEF Invariant
    <3>2. step' = "idle" /\ Kept
      BY <2>1 DEF Release, Invariant
    <3>3. Kept'
      BY <1>1, <2>2, <3>1, <3>2 DEF Kept
    <3> QED BY <3>1, <3>3
  <2>3. CASE Intact' /\ NoSettings'
    BY <2>3 DEF Kept, NoSettings
  <2> QED BY <2>1, <2>2, <2>3
<1> QED BY <1>2, <1>3, <1>4, NobodyWorks DEF Invariant

\* An operation that gives up and leaves its artifacts.
LEMMA GivesUp ==
  ASSUME Invariant, lock # None, Release, NEW t \in BOOLEAN, Fail(t),
         UNCHANGED <<succeeded, nextRev>>,
         loaded' \in [Procs -> Revs \cup {None}], prepared' \subseteq Revs,
         files' \in FileState, Sound', ~t => files' = files
  PROVE  Invariant'
<1>1. ASSUME ~t, ~late PROVE files' = files
  BY ONLY <1>1, ~t => files' = files
<1>2. ~t /\ ~late => files' = files \/ (Intact' /\ NoSettings')
  BY ONLY <1>1
<1> QED BY <1>2, CleansUp

\* An operation that ends without touching a file.
LEMMA Ends ==
  ASSUME Invariant, lock # None, Release,
         UNCHANGED <<files, succeeded, nextRev, prepared, failures>>,
         step \notin {"complete_journal", "drop_journal"},
         loaded' \in [Procs -> Revs \cup {None}]
  PROVE  Invariant'
<1>1. RestTyped'
  BY Types DEF Invariant, RestTyped, Release, failures
<1>2. TypeOK'
  BY <1>1, Types, TypesNext DEF Invariant
<1>3. Numbered'
  BY DEF Invariant, Numbered, Release
<1>4. Sound' /\ (~late => Intact') /\ (Vouched' <=> Vouched)
  BY SameFiles DEF Invariant
<1>5. ASSUME ~late PROVE Kept'
  <2>1. Kept /\ step' = "idle" /\ disruptions' = disruptions
    BY <1>5 DEF Invariant, Release, failures
  <2> QED BY <1>4, <2>1 DEF Kept
<1> QED BY <1>2, <1>3, <1>4, <1>5, NobodyWorks DEF Invariant, failures

\* The first configuration satisfies the invariant.
LEMMA InitHolds == Init => Invariant
<1> SUFFICES ASSUME Init PROVE Invariant
  OBVIOUS
<1>1. /\ files.config = [rev |-> 0, base |-> 0, env |-> 0] /\ files.env = 0
      /\ NoDatabase /\ NoSettings /\ files \in FileState
  <2>1. 0 \in Revs
    BY ConfigAssumption DEF Revs
  <2> QED BY <2>1 DEF Init, NoDatabase, NoSettings, FileState, Configuration
<1>2. TypeOK
  <2>1. nextRev \in 1..(MaxRev + 1) /\ disruptions \in 0..MaxDisruptions
    BY ConfigAssumption DEF Init
  <2>2. late \in BOOLEAN /\ loaded \in [Procs -> Revs \cup {None}]
    BY DEF Init
  <2>3. RestTyped
    BY <2>1, <2>2 DEF Init, RestTyped
  <2> QED BY <1>1, <2>3, Types
<1>3. Control /\ AtStep
  <2>1. lock = None /\ op = "idle" /\ step = "idle" /\ intended = None
    BY DEF Init
  <2>2. Control
    BY ONLY <2>1 DEF Control, Opened, Undoing
  <2>3. AtStep
    BY ONLY <2>1 DEF AtStep, DatabaseSteps, Ready
  <2> QED BY <2>2, <2>3
<1>4. Sound /\ Numbered /\ Intact /\ Kept
  BY <1>1 DEF Init, Sound, Numbered, Intact, Kept, NoDatabase, NoSettings
<1> QED BY <1>2, <1>3, <1>4 DEF Invariant

\* A process takes the lock.
LEMMA Opens ==
  ASSUME Invariant, NEW p \in Procs, NEW o \in Ops, NEW s \in {"recover_db", "recover_settings"},
         Acquire(p, o, s),
         s = "recover_db" => o \in Opened \cup {"startup_database"},
         s = "recover_settings" => o = "startup_settings" /\ NoDatabase,
         o \in {"update", "save", "database"} => nextRev <= MaxRev
  PROVE  Invariant'
<1>1. /\ lock = None /\ lock' = p /\ op' = o /\ step' = s /\ p # None
      /\ UNCHANGED <<files, intended, loaded, prepared, succeeded, nextRev, disruptions, late>>
  BY ConfigAssumption DEF Acquire, failures, Procs
<1>2. TypeOK'
  <2>1. RestTyped'
    BY <1>1, Types DEF Invariant, RestTyped, Steps
  <2> QED BY <1>1, <2>1, Types, TypesNext DEF Invariant
<1>3. Control'
  BY ONLY <1>1, s \in {"recover_db", "recover_settings"}, o \in Ops,
          s = "recover_db" => o \in Opened \cup {"startup_database"},
          s = "recover_settings" => o = "startup_settings" /\ NoDatabase,
          o \in {"update", "save", "database"} => nextRev <= MaxRev
     DEF Control, Opened, Undoing, Ops
<1>4. AtStep'
  <2>1. op' # "reconcile_db"
    BY <1>1 DEF Opened
  <2>2. s = "recover_settings" => NoDatabase'
    BY <1>1, SameFiles
  <2> QED BY ONLY <1>1, <2>1, <2>2, s \in {"recover_db", "recover_settings"}
          DEF AtStep, Ready, DatabaseSteps
<1>5. Sound' /\ (~late => Intact') /\ (Vouched' <=> Vouched)
  BY <1>1, SameFiles DEF Invariant
<1>6. Numbered'
  BY <1>1 DEF Invariant, Numbered
<1>7. ASSUME ~late PROVE Kept'
  <2>1. Kept /\ step = "idle"
    BY <1>1, <1>7 DEF Invariant, Control
  <2> QED BY <1>1, <1>5, <2>1 DEF Kept
<1> QED BY <1>1, <1>2, <1>3, <1>4, <1>5, <1>6, <1>7 DEF Invariant

\* Artifacts of one kind exclude those of the other.
LEMMA Exclusive ==
  ASSUME Invariant
  PROVE  /\ DatabaseArtifacts <=> ~NoDatabase
         /\ SettingsArtifacts <=> ~NoSettings
         /\ SettingsArtifacts => NoDatabase
         /\ DatabaseArtifacts => NoSettings
<1>1. files \in FileState
  BY Types DEF Invariant
<1>2. /\ DatabaseArtifacts <=> ~NoDatabase
      /\ SettingsArtifacts <=> ~NoSettings
  BY <1>1 DEF DatabaseArtifacts, SettingsArtifacts, NoDatabase, NoSettings, FileState
<1> QED BY <1>2 DEF Invariant, Sound

\* Every way to take the lock.
LEMMA OpenHolds ==
  ASSUME Invariant,
         \/ GetServerSettings \/ UpdateServerSettings
         \/ \E p \in Procs : StartupDatabase(p) \/ StartupSettings(p)
         \/ \E p \in Locals : Edit(p)
  PROVE  Invariant'
<1> USE DEF Ops, Opened, Procs
<1>1. CASE GetServerSettings
  BY <1>1, Opens DEF GetServerSettings
<1>2. CASE UpdateServerSettings
  BY <1>2, Opens DEF UpdateServerSettings
<1>3. ASSUME NEW p \in Procs, StartupDatabase(p) PROVE Invariant'
  BY <1>3, Opens DEF StartupDatabase
<1>4. ASSUME NEW p \in Procs, StartupSettings(p) PROVE Invariant'
  BY <1>4, Opens, Exclusive DEF StartupSettings
<1>5. ASSUME NEW p \in Locals, Edit(p) PROVE Invariant'
  BY <1>5, Opens DEF Edit, SaveConfig, ConfigureDatabase
<1> QED BY <1>1, <1>2, <1>3, <1>4, <1>5

\* Loading changes nothing but what the process knows.
LEMMA LoadHolds ==
  ASSUME Invariant, NEW p \in Procs, Load(p)
  PROVE  Invariant'
<1>1. /\ loaded' = [loaded EXCEPT ![p] = files.config.rev]
      /\ UNCHANGED <<files, lock, op, step, intended, prepared, succeeded, nextRev,
                     disruptions, late>>
  BY DEF Load, failures
<1>2. files.config.rev \in Revs
  BY Types, FieldTypes, RevsAreNumbers DEF Invariant
<1>3. TypeOK'
  <2>1. RestTyped'
    BY <1>1, <1>2, Types DEF Invariant, RestTyped
  <2> QED BY <1>1, <2>1, Types, TypesNext DEF Invariant
<1>4. Control' /\ AtStep' /\ Numbered'
  BY <1>1 DEF Invariant, Control, AtStep, Numbered, NoDatabase, NoSettings, Edited, Unrecorded
<1>5. Sound' /\ (~late => Intact' /\ Kept')
  BY <1>1, SameFiles DEF Invariant, Kept
<1> QED BY <1>1, <1>3, <1>4, <1>5 DEF Invariant

\* A death leaves the files as they are.
LEMMA CrashHolds ==
  ASSUME Invariant, Crash
  PROVE  Invariant'
<1>1. loaded' \in [Procs -> Revs \cup {None}]
  BY Types DEF Invariant, RestTyped, Crash
<1>2. files' = files /\ Fail(FALSE) /\ lock # None /\ Release /\ prepared' = prepared
      /\ UNCHANGED <<succeeded, nextRev>>
  BY DEF Crash, Disrupt
<1>3. files' \in FileState /\ Sound' /\ prepared' \subseteq Revs
  BY <1>2, SameFiles, Types DEF Invariant, RestTyped
<1> QED BY <1>1, <1>2, <1>3, GivesUp

-----------------------------------------------------------------------------
\* Steps that succeed.

\* What remains to be shown of one.
LEMMA Proceeds ==
  ASSUME Invariant, NEW o \in Ops, NEW s \in Steps, Goto(o, s),
         UNCHANGED <<loaded, succeeded, nextRev, failures>>,
         prepared' = prepared \/ prepared' \subseteq Revs,
         files' \in FileState, Sound', ~late => Intact' /\ Kept', Control', AtStep'
  PROVE  Invariant'
<1>1. RestTyped'
  BY Types DEF Invariant, RestTyped, Goto, failures
<1>2. TypeOK'
  BY <1>1, TypesNext
<1>3. Numbered'
  BY DEF Invariant, Numbered, Goto
<1> QED BY <1>2, <1>3 DEF Invariant, failures

\* With no settings update under way nothing can be rolled back.
LEMMA NothingToKeep == ASSUME NoSettings' PROVE Kept'
  BY DEF Kept, NoSettings

\* One step of the recovery of a database update.
LEMMA DatabaseRecoveryEffect ==
  ASSUME Invariant, DatabaseArtifacts, ~(DatabaseRefused /\ files.envStage = None),
         files' = DatabaseRecoveryStep, nextRev' = nextRev
  PROVE  files' \in FileState /\ Sound' /\ (~late => Intact') /\ NoSettings'
<1>1. files \in FileState /\ NoSettings /\ ~NoDatabase
  BY Types, Exclusive DEF Invariant
<1>2. CASE files.dbJournal = None /\ files.envStage # None
  <2>1. files' = [files EXCEPT !.envStage = None]
    BY <1>2 DEF DatabaseRecoveryStep
  <2>2. /\ files' \in FileState /\ files'.config = files.config /\ files'.env = files.env
        /\ SettingsSame /\ files'.dbJournal = files.dbJournal /\ files'.envStage = None
        /\ files'.configStage = files.configStage
    BY ONLY <2>1, <1>1 DEF FileState, SettingsSame
  <2> QED BY <1>1, <1>2, <2>2
          DEF Invariant, Sound, Intact, NoSettings, NoDatabase, SettingsSame
<1>3. CASE files.dbJournal = None /\ files.envStage = None
  <2>1. files' = [files EXCEPT !.configStage = None]
    BY <1>3 DEF DatabaseRecoveryStep
  <2>2. /\ files' \in FileState /\ files'.config = files.config /\ files'.env = files.env
        /\ SettingsSame /\ files'.dbJournal = files.dbJournal
        /\ files'.envStage = files.envStage /\ files'.configStage = None
    BY ONLY <2>1, <1>1 DEF FileState, SettingsSame
  <2> QED BY <1>1, <1>3, <2>2
          DEF Invariant, Sound, Intact, NoSettings, NoDatabase, SettingsSame
<1>4. CASE files.dbJournal # None /\ files.envStage # None
  <2>1. files' = [files EXCEPT !.env = files.envStage, !.envStage = None]
    BY <1>4 DEF DatabaseRecoveryStep
  <2>2. /\ files' \in FileState /\ files'.config = files.config /\ files'.env = files.envStage
        /\ SettingsSame /\ files'.dbJournal = files.dbJournal /\ files'.envStage = None
        /\ files'.configStage = files.configStage
    BY ONLY <2>1, <1>1, <1>4 DEF FileState, SettingsSame
  <2> QED BY <1>1, <1>4, <2>2
          DEF Invariant, Sound, Intact, NoSettings, NoDatabase, SettingsSame
<1>5. CASE files.dbJournal # None /\ files.envStage = None /\ files.configStage # None
  <2>1. files' = [files EXCEPT !.config = files.configStage, !.configStage = None]
    BY <1>5 DEF DatabaseRecoveryStep
  <2>2. /\ files' \in FileState /\ files'.config = files.configStage /\ files'.env = files.env
        /\ SettingsSame /\ files'.dbJournal = files.dbJournal
        /\ files'.envStage = files.envStage /\ files'.configStage = None
    BY ONLY <2>1, <1>1, <1>5 DEF FileState, SettingsSame
  <2> QED BY <1>1, <1>5, <2>2
          DEF Invariant, Sound, Intact, NoSettings, NoDatabase, SettingsSame
<1>6. CASE files.dbJournal # None /\ files.envStage = None /\ files.configStage = None
  <2>1. files' = [files EXCEPT !.dbJournal = None]
    BY <1>6 DEF DatabaseRecoveryStep
  <2>2. /\ files' \in FileState /\ files'.config = files.config /\ files'.env = files.env
        /\ SettingsSame /\ files'.dbJournal = None
        /\ files'.envStage = files.envStage /\ files'.configStage = files.configStage
    BY ONLY <2>1, <1>1 DEF FileState, SettingsSame
  <2> QED BY <1>1, <1>6, <2>2
          DEF Invariant, Sound, Intact, NoSettings, NoDatabase, SettingsSame
<1> QED BY <1>2, <1>3, <1>4, <1>5, <1>6


\* What a step of the database recovery may find.
LEMMA ToDatabaseRecovery ==
  ASSUME step' = "recover_db", op' = "reconcile_db" => NoSettings' /\ intended' \in Configuration
  PROVE  AtStep'
  BY DEF AtStep, Ready, DatabaseSteps

\* What a step of the settings recovery may find.
LEMMA ToSettingsRecovery ==
  ASSUME step' = "recover_settings", op' # "reconcile_db", NoDatabase'
  PROVE  AtStep'
  BY DEF AtStep, Ready, DatabaseSteps

\* recover_interrupted_database_update_locked.
LEMMA RecoverDatabaseHolds ==
  ASSUME Invariant, RecoverDatabase
  PROVE  Invariant'
<1>1. CASE /\ DatabaseArtifacts /\ ~(DatabaseRefused /\ files.envStage = None)
           /\ FileStep("recover_db", DatabaseRecoveryStep, Goto(op, step), Release)
  <2>1. step = "recover_db" /\ lock # None /\ UNCHANGED <<loaded, prepared, succeeded, nextRev>>
    BY <1>1 DEF FileStep, FileStepOr, At
  <2>2. ASSUME files' = DatabaseRecoveryStep
        PROVE  files' \in FileState /\ Sound' /\ (~late => Intact') /\ NoSettings'
    BY <1>1, <2>1, <2>2, DatabaseRecoveryEffect
  <2>3. loaded' \in [Procs -> Revs \cup {None}] /\ prepared' \subseteq Revs
    BY <2>1, Types DEF Invariant, RestTyped
  <2>4. CASE files' = DatabaseRecoveryStep /\ Goto(op, step) /\ UNCHANGED failures
    <3>1. op' = op /\ step' = step /\ lock' = lock /\ intended' = intended
          /\ nextRev' = nextRev
      BY <2>1, <2>4 DEF Goto
    <3>2. op \in Ops /\ step \in Steps
      BY <2>1, Types DEF Invariant, RestTyped, Control, Steps
    <3>3. Control'
      BY <3>1 DEF Invariant, Control
    <3>4. AtStep'
      BY <2>1, <2>2, <2>4, <3>1, ToDatabaseRecovery DEF Invariant, AtStep
    <3> QED BY <2>1, <2>2, <2>4, <3>2, <3>3, <3>4, NothingToKeep, Proceeds
  <2>5. ASSUME Release, NEW t \in BOOLEAN, Fail(t),
               files' = IF t THEN DatabaseRecoveryStep ELSE files
        PROVE  Invariant'
    <3>1. files' \in FileState /\ Sound' /\ (~t => files' = files)
      BY <2>1, <2>2, <2>5, SameFiles, Types DEF Invariant
    <3> QED BY <2>1, <2>3, <2>5, <3>1, GivesUp
  <2> QED BY <1>1, <2>4, <2>5 DEF FileStep, FileStepOr
<1>2. CASE /\ At("recover_db") /\ DatabaseRefused /\ files.envStage = None /\ Release
           /\ UNCHANGED <<files, loaded, prepared, succeeded, nextRev, failures>>
  BY <1>2, Types, Ends DEF At, Invariant, RestTyped
<1>3. CASE /\ At("recover_db") /\ ~DatabaseArtifacts /\ AfterDatabaseRecovery
           /\ UNCHANGED <<files, loaded, prepared, succeeded, nextRev, failures>>
  <2>1. NoDatabase /\ files' \in FileState
    BY <1>3, Exclusive, Types DEF Invariant
  <2>2. Sound' /\ NoDatabase' /\ (NoSettings' <=> NoSettings) /\ (~late => Intact')
    BY <1>3, <2>1, SameFiles DEF Invariant
  <2>3. ASSUME ~late PROVE step' \notin {"complete_journal", "drop_journal", "restore", "publish",
                                         "mark", "final"} => Kept'
    BY <1>3, <2>3, SameFiles DEF Invariant, Kept, At, failures
  <2>4. CASE op = "startup_database"
    BY <1>3, <2>4, Types, Ends DEF At, Invariant, RestTyped, AfterDatabaseRecovery
  <2>5. CASE op = "reconcile_db"
    <3>1. Goto("database", "recorded")
      BY <1>3, <2>5 DEF AfterDatabaseRecovery
    <3>2. op' = "database" /\ step' = "recorded" /\ lock' = lock /\ intended' = intended
          /\ lock # None /\ NoSettings' /\ intended \in Configuration
      BY <1>3, <2>2, <2>5, <3>1 DEF Goto, At, Invariant, AtStep
    <3>3. Control'
      BY ONLY <3>2 DEF Control, Opened, Undoing
    <3>4. AtStep'
      BY ONLY <3>2, <2>2 DEF AtStep, Ready, DatabaseSteps
    <3> QED BY <1>3, <2>1, <2>2, <3>1, <3>2, <3>3, <3>4, NothingToKeep, Proceeds DEF Ops, Steps
  <2>6. CASE op \notin {"startup_database", "reconcile_db"}
    <3>1. Goto(op, "recover_settings")
      BY <1>3, <2>6 DEF AfterDatabaseRecovery
    <3>2. op' = op /\ step' = "recover_settings" /\ lock' = lock /\ nextRev' = nextRev
          /\ lock # None /\ op \in Opened
          /\ (op \in {"update", "save", "database"} => nextRev <= MaxRev)
      BY <1>3, <2>6, <3>1 DEF Goto, At, Invariant, Control
    <3>3. Control'
      BY ONLY <3>2 DEF Control, Opened, Undoing
    <3>4. AtStep'
      BY <2>2, <2>6, <3>2, ToSettingsRecovery
    <3>5. ~late => Kept'
      BY <2>3, <3>2
    <3> QED BY <1>3, <2>1, <2>2, <3>1, <3>2, <3>3, <3>4, <3>5, Proceeds DEF Ops, Opened, Steps
  <2> QED BY <2>4, <2>5, <2>6
<1> QED BY <1>1, <1>2, <1>3 DEF RecoverDatabase

-----------------------------------------------------------------------------
\* recover_interrupted_settings_update_locked and cleanup_transaction_files.

\* An operation that ends with its last file operation.
LEMMA Finishes ==
  ASSUME Invariant, Release, UNCHANGED <<succeeded, nextRev, prepared, failures>>,
         loaded' \in [Procs -> Revs \cup {None}],
         files' \in FileState, Sound', ~late => Intact' /\ Kept'
  PROVE  Invariant'
<1>1. RestTyped'
  BY Types DEF Invariant, RestTyped, Release, failures
<1>2. Numbered'
  BY DEF Invariant, Numbered, Release
<1> QED BY <1>1, <1>2, TypesNext, NobodyWorks DEF Invariant, failures

\* The journal is written or removed.
LEMMA SetJournal ==
  ASSUME files \in FileState, NEW v \in Revs \cup {None}, files' = [files EXCEPT !.journal = v]
  PROVE  /\ files' \in FileState /\ DatabaseSame
         /\ files'.config = files.config /\ files'.env = files.env
         /\ files'.journal = v /\ files'.original = files.original
         /\ files'.published = files.published
  BY DEF FileState, DatabaseSame

\* The recovery copy is written or removed.
LEMMA SetOriginal ==
  ASSUME files \in FileState, NEW v \in Configuration \cup {None},
         files' = [files EXCEPT !.original = v]
  PROVE  /\ files' \in FileState /\ DatabaseSame
         /\ files'.config = files.config /\ files'.env = files.env
         /\ files'.journal = files.journal /\ files'.original = v
         /\ files'.published = files.published
  BY DEF FileState, DatabaseSame

\* The marker is written or removed.
LEMMA SetPublished ==
  ASSUME files \in FileState, NEW v \in Revs \cup {None}, files' = [files EXCEPT !.published = v]
  PROVE  /\ files' \in FileState /\ DatabaseSame
         /\ files'.config = files.config /\ files'.env = files.env
         /\ files'.journal = files.journal /\ files'.original = files.original
         /\ files'.published = v
  BY DEF FileState, DatabaseSame

\* The configuration is replaced.
LEMMA SetConfig ==
  ASSUME files \in FileState, NEW v \in Configuration, files' = [files EXCEPT !.config = v]
  PROVE  /\ files' \in FileState /\ DatabaseSame /\ SettingsSame
         /\ files'.config = v /\ files'.env = files.env
  BY DEF FileState, DatabaseSame, SettingsSame

\* Every settings step finds no database artifact.
LEMMA NoDatabaseSame == ASSUME NoDatabase, DatabaseSame PROVE NoDatabase'
  BY DEF NoDatabase, DatabaseSame

\* Removing an artifact of a settings update does no harm unless it was a
\* recovery copy still needed.
LEMMA RemovalEffect ==
  ASSUME Invariant, nextRev' = nextRev,
         \/ files' = [files EXCEPT !.journal = None] /\ (files.published = None \/
                files.published = files.config.rev)
         \/ files' = [files EXCEPT !.original = None] /\ files.journal = None
         \/ files' = [files EXCEPT !.published = None]
  PROVE  files' \in FileState /\ Sound' /\ (~late => Intact') /\ DatabaseSame
         /\ files'.config = files.config
<1>1. files \in FileState /\ None \in Revs \cup {None} /\ None \in Configuration \cup {None}
  BY Types DEF Invariant
<1>2. CASE files' = [files EXCEPT !.journal = None] /\ (files.published = None \/
                files.published = files.config.rev)
  <2>1. /\ files' \in FileState /\ DatabaseSame
        /\ files'.config = files.config /\ files'.env = files.env
        /\ files'.journal = None /\ files'.original = files.original
        /\ files'.published = files.published
    BY <1>1, <1>2, SetJournal
  <2> QED BY <1>2, <2>1 DEF Invariant, Sound, Intact, NoDatabase, NoSettings, DatabaseSame
<1>3. CASE files' = [files EXCEPT !.original = None] /\ files.journal = None
  <2>1. /\ files' \in FileState /\ DatabaseSame
        /\ files'.config = files.config /\ files'.env = files.env
        /\ files'.journal = files.journal /\ files'.original = None
        /\ files'.published = files.published
    BY <1>1, <1>3, SetOriginal
  <2> QED BY <1>3, <2>1 DEF Invariant, Sound, Intact, NoDatabase, NoSettings, DatabaseSame
<1>4. CASE files' = [files EXCEPT !.published = None]
  <2>1. /\ files' \in FileState /\ DatabaseSame
        /\ files'.config = files.config /\ files'.env = files.env
        /\ files'.journal = files.journal /\ files'.original = files.original
        /\ files'.published = None
    BY <1>1, <1>4, SetPublished
  <2> QED BY <1>4, <2>1 DEF Invariant, Sound, Intact, NoDatabase, NoSettings, DatabaseSame
<1> QED BY <1>2, <1>3, <1>4

\* The way from one step of the recovery to the next.
LEMMA Undoes ==
  ASSUME Invariant, step \in Undoing \cup {"recover_settings"}, lock # None,
         NEW s \in Undoing \cup {"recover_settings"}, Goto(op, s),
         s = "recover_settings" => op # "rollback",
         UNCHANGED <<loaded, prepared, succeeded, nextRev, failures>>,
         files' \in FileState, Sound', ~late => Intact' /\ Kept', NoDatabase',
         s \in {"restore", "drop_published", "drop_journal"} =>
           files'.journal # None /\ files'.original # None,
         s = "drop_journal" => files'.published = None,
         s = "drop_original" => files'.journal = None /\ files'.published = None
  PROVE  Invariant'
<1>1. op' = op /\ step' = s /\ lock' = lock /\ nextRev' = nextRev
  BY DEF Goto
<1>2. op \in Opened \cup {"startup_settings", "reconcile", "rollback"}
      /\ (op \in {"update", "save", "database"} => nextRev <= MaxRev)
  BY DEF Invariant, Control, Undoing
<1>3. Control'
  BY ONLY <1>1, <1>2, lock # None, s \in Undoing \cup {"recover_settings"},
          s = "recover_settings" => op # "rollback"
     DEF Control, Opened, Undoing
<1>4. AtStep'
  BY ONLY <1>1, <1>2, s \in Undoing \cup {"recover_settings"}, NoDatabase',
         s \in {"restore", "drop_published", "drop_journal"} =>
           files'.journal # None /\ files'.original # None,
         s = "drop_journal" => files'.published = None,
         s = "drop_original" => files'.journal = None /\ files'.published = None
     DEF AtStep, Opened, Undoing, Ready, DatabaseSteps
<1>5. op \in Ops /\ s \in Steps
  BY ONLY <1>2, s \in Undoing \cup {"recover_settings"} DEF Opened, Undoing, Ops, Steps
<1> QED BY <1>3, <1>4, <1>5, Proceeds

\* The way from the recovery to the operation it precedes.
LEMMA Recovers ==
  ASSUME Invariant, step \in {"recover_settings", "drop_original"}, lock # None, AfterRecovery,
         UNCHANGED <<loaded, prepared, succeeded, nextRev, failures>>,
         files' \in FileState, Sound', ~late => Intact', NoDatabase', NoSettings'
  PROVE  Invariant'
<1>1. Kept'
  BY NothingToKeep
<1>2. loaded' \in [Procs -> Revs \cup {None}]
  BY Types DEF Invariant, RestTyped
<1>3. CASE op \in {"update", "save", "database"}
  <2>1. Goto(op, "check") /\ nextRev <= MaxRev
    BY <1>3 DEF AfterRecovery, Invariant, Control, Undoing
  <2>2. op' = op /\ step' = "check" /\ lock' = lock /\ nextRev' = nextRev
    BY <2>1 DEF Goto
  <2>3. Control'
    BY ONLY <1>3, <2>1, <2>2, lock # None DEF Control, Opened, Undoing
  <2>4. AtStep'
    BY ONLY <1>3, <2>2, NoDatabase', NoSettings' DEF AtStep, Ready, DatabaseSteps
  <2> QED BY <1>1, <1>3, <2>1, <2>3, <2>4, Proceeds DEF Ops, Steps
<1>4. CASE op \notin {"update", "save", "database"}
  BY <1>1, <1>2, <1>4, Finishes DEF AfterRecovery
<1> QED BY <1>3, <1>4

\* The first steps of the recovery.
LEMMA RecoverSettingsHolds ==
  ASSUME Invariant, RecoverSettings
  PROVE  Invariant'
<1>0. files \in FileState /\ loaded \in [Procs -> Revs \cup {None}] /\ prepared \subseteq Revs
  BY Types DEF Invariant, RestTyped
<1>1. CASE DecideInterrupted
  <2>1. /\ step = "recover_settings" /\ lock # None /\ files.journal # None /\ ~SettingsRefused
        /\ UNCHANGED <<files, loaded, prepared, succeeded, nextRev, failures>>
    BY <1>1 DEF DecideInterrupted, At
  <2>2. files.original # None /\ NoDatabase /\ op # "rollback"
    BY <2>1 DEF SettingsRefused, Invariant, AtStep, Control, DatabaseSteps, Opened
  <2>3. files' \in FileState /\ Sound' /\ (~late => Intact') /\ NoDatabase'
    BY <1>0, <2>1, <2>2, SameFiles DEF Invariant
  <2>4. CASE MarkerVouches
    <3>1. Goto(op, "drop_published")
      BY <1>1, <2>4 DEF DecideInterrupted
    <3>2. ~late => Kept'
      BY <2>1, <3>1, SameFiles DEF Invariant, Kept, Goto, failures
    <3> QED BY <2>1, <2>2, <2>3, <3>1, <3>2, Undoes DEF Undoing
  <2>5. CASE ~MarkerVouches
    <3>1. Goto(op, "restore")
      BY <1>1, <2>5 DEF DecideInterrupted
    <3>2. ~late => Kept'
      BY <2>1, <2>5, <3>1 DEF Invariant, Kept, Vouched, MarkerVouches, Goto, failures
    <3> QED BY <2>1, <2>2, <2>3, <3>1, <3>2, Undoes DEF Undoing
  <2> QED BY <2>4, <2>5
<1>2. CASE /\ files.journal = None /\ SettingsArtifacts /\ ~SettingsRefused
           /\ FileStep("recover_settings",
                       IF files.published # None THEN RetireCommitted
                       ELSE [files EXCEPT !.original = None],
                       Goto(op, step), Release)
  <2> DEFINE f == IF files.published # None THEN RetireCommitted
                  ELSE [files EXCEPT !.original = None]
  <2>1. /\ step = "recover_settings" /\ lock # None
        /\ UNCHANGED <<loaded, prepared, succeeded, nextRev>>
    BY <1>2 DEF FileStep, FileStepOr, At
  <2>2. f = [files EXCEPT !.original = None] \/ f = [files EXCEPT !.published = None]
    BY DEF RetireCommitted
  <2>3. NoDatabase /\ op # "rollback"
    BY <2>1 DEF Invariant, AtStep, Control, DatabaseSteps, Opened
  <2>4. ASSUME files' = f
        PROVE  files' \in FileState /\ Sound' /\ (~late => Intact') /\ NoDatabase'
               /\ files'.journal = None
    <3>1. files' \in FileState /\ Sound' /\ (~late => Intact') /\ DatabaseSame
      BY <1>2, <2>1, <2>2, <2>4, RemovalEffect
    <3>2. files'.journal = None
      BY <1>0, <1>2, <2>2, <2>4, SetOriginal, SetPublished
    <3> QED BY <2>3, <3>1, <3>2, NoDatabaseSame
  <2> HIDE DEF f
  <2>5. CASE files' = f /\ Goto(op, step) /\ UNCHANGED failures
    <3>1. Kept'
      BY <2>4, <2>5 DEF Kept
    <3> QED BY <2>1, <2>3, <2>4, <2>5, <3>1, Undoes DEF Undoing
  <2>6. ASSUME Release, NEW t \in BOOLEAN, Fail(t), files' = IF t THEN f ELSE files
        PROVE  Invariant'
    <3>1. files' \in FileState /\ Sound' /\ (~t => files' = files)
      BY <1>0, <2>1, <2>4, <2>6, SameFiles DEF Invariant
    <3> QED BY <1>0, <2>1, <2>6, <3>1, GivesUp
  <2> QED BY <1>2, <2>5, <2>6 DEF FileStep, FileStepOr, f
<1>3. CASE /\ At("recover_settings") /\ SettingsRefused /\ Release
           /\ UNCHANGED <<files, loaded, prepared, succeeded, nextRev, failures>>
  BY <1>0, <1>3, Ends DEF At
<1>4. CASE /\ At("recover_settings") /\ ~SettingsArtifacts /\ AfterRecovery
           /\ UNCHANGED <<files, loaded, prepared, succeeded, nextRev, failures>>
  <2>1. NoSettings /\ NoDatabase
    BY <1>4, Exclusive DEF Invariant, AtStep, DatabaseSteps, At
  <2>2. files' \in FileState /\ Sound' /\ (~late => Intact') /\ NoDatabase' /\ NoSettings'
    BY <1>0, <1>4, <2>1, SameFiles DEF Invariant
  <2> QED BY <1>4, <2>2, Recovers DEF At
<1> QED BY <1>1, <1>2, <1>3, <1>4 DEF RecoverSettings

\* The restored configuration is the recovery copy.
LEMMA RestoreOriginalHolds ==
  ASSUME Invariant, RestoreOriginal
  PROVE  Invariant'
<1>0. files \in FileState /\ loaded \in [Procs -> Revs \cup {None}] /\ prepared \subseteq Revs
  BY Types DEF Invariant, RestTyped
<1>1. /\ step = "restore" /\ lock # None
      /\ UNCHANGED <<loaded, prepared, succeeded, nextRev>>
  BY DEF RestoreOriginal, FileStep, FileStepOr, At
<1>2. NoDatabase /\ files.journal # None /\ files.original # None
      /\ files.original \in Configuration
  BY <1>0, <1>1, FieldTypes DEF Invariant, AtStep, DatabaseSteps
<1>3. ASSUME files' = [files EXCEPT !.config = files.original]
      PROVE  /\ files' \in FileState /\ Sound' /\ (~late => Intact') /\ NoDatabase'
             /\ files'.journal # None /\ files'.original # None /\ files'.config = files'.original
  <2>1. /\ files' \in FileState /\ DatabaseSame /\ SettingsSame
        /\ files'.config = files.original /\ files'.env = files.env
    BY <1>0, <1>2, <1>3, SetConfig
  <2>2. Sound'
    BY <1>1, <1>2, <2>1 DEF Invariant, Sound, NoDatabase, DatabaseSame, SettingsSame
  <2>3. ~late => Intact'
    BY <1>1, <1>2, <2>1 DEF Invariant, Sound, Intact, NoDatabase, DatabaseSame, SettingsSame
  <2> QED BY <1>2, <2>1, <2>2, <2>3, NoDatabaseSame DEF SettingsSame
<1>4. CASE files' = [files EXCEPT !.config = files.original] /\ Goto(op, "drop_published")
           /\ UNCHANGED failures
  <2>1. Kept'
    BY <1>3, <1>4 DEF Kept
  <2> QED BY <1>1, <1>3, <1>4, <2>1, Undoes DEF Undoing
<1>5. ASSUME Release, NEW t \in BOOLEAN, Fail(t),
             files' = IF t THEN [files EXCEPT !.config = files.original] ELSE files
      PROVE  Invariant'
  <2>1. files' \in FileState /\ Sound' /\ (~t => files' = files)
    BY <1>0, <1>1, <1>3, <1>5, SameFiles DEF Invariant
  <2> QED BY <1>0, <1>1, <1>5, <2>1, GivesUp
<1> QED BY <1>4, <1>5 DEF RestoreOriginal, FileStep, FileStepOr

\* The marker goes first.
LEMMA DropPublishedHolds ==
  ASSUME Invariant, DropPublished
  PROVE  Invariant'
<1>0. files \in FileState /\ loaded \in [Procs -> Revs \cup {None}] /\ prepared \subseteq Revs
  BY Types DEF Invariant, RestTyped
<1>1. /\ step = "drop_published" /\ lock # None
      /\ UNCHANGED <<loaded, prepared, succeeded, nextRev>>
  BY DEF DropPublished, FileStep, FileStepOr, At
<1>2. NoDatabase /\ files.journal # None /\ files.original # None
  BY <1>1 DEF Invariant, AtStep, DatabaseSteps
<1>3. ASSUME files' = [files EXCEPT !.published = None]
      PROVE  /\ files' \in FileState /\ Sound' /\ (~late => Intact') /\ NoDatabase'
             /\ files'.journal = files.journal /\ files'.original = files.original
             /\ files'.published = None /\ files'.config = files.config
  BY <1>0, <1>1, <1>2, <1>3, SetPublished, RemovalEffect, NoDatabaseSame
<1>4. CASE files' = [files EXCEPT !.published = None] /\ Goto(op, "drop_journal")
           /\ UNCHANGED failures
  <2>1. ~late => Kept'
    BY <1>1, <1>3, <1>4 DEF Invariant, Kept, Goto, failures
  <2> QED BY <1>1, <1>2, <1>3, <1>4, <2>1, Undoes DEF Undoing
<1>5. ASSUME Release, NEW t \in BOOLEAN, Fail(t),
             files' = IF t THEN [files EXCEPT !.published = None] ELSE files
      PROVE  Invariant'
  <2>1. files' \in FileState /\ Sound' /\ (~t => files' = files)
    BY <1>0, <1>1, <1>3, <1>5, SameFiles DEF Invariant
  <2> QED BY <1>0, <1>1, <1>5, <2>1, GivesUp
<1> QED BY <1>4, <1>5 DEF DropPublished, FileStep, FileStepOr

\* The journal goes next.
LEMMA DropJournalHolds ==
  ASSUME Invariant, DropJournal
  PROVE  Invariant'
<1>0. files \in FileState /\ loaded \in [Procs -> Revs \cup {None}] /\ prepared \subseteq Revs
  BY Types DEF Invariant, RestTyped
<1>1. /\ step = "drop_journal" /\ lock # None
      /\ UNCHANGED <<loaded, prepared, succeeded, nextRev>>
  BY DEF DropJournal, FileStep, FileStepOr, At
<1>2. NoDatabase /\ files.published = None
  BY <1>1 DEF Invariant, AtStep, DatabaseSteps
<1>3. ASSUME files' = [files EXCEPT !.journal = None]
      PROVE  /\ files' \in FileState /\ Sound' /\ (~late => Intact') /\ NoDatabase'
             /\ files'.journal = None /\ files'.published = None
  BY <1>0, <1>1, <1>2, <1>3, SetJournal, RemovalEffect, NoDatabaseSame
<1>4. CASE files' = [files EXCEPT !.journal = None] /\ Goto(op, "drop_original")
           /\ UNCHANGED failures
  <2>1. Kept'
    BY <1>3, <1>4 DEF Kept
  <2> QED BY <1>1, <1>3, <1>4, <2>1, Undoes DEF Undoing
<1>5. ASSUME Release, NEW t \in BOOLEAN, Fail(t),
             files' = IF t THEN [files EXCEPT !.journal = None] ELSE files
      PROVE  Invariant'
  <2>1. files' \in FileState /\ Sound' /\ (~t => files' = files)
    BY <1>0, <1>1, <1>3, <1>5, SameFiles DEF Invariant
  <2> QED BY <1>0, <1>1, <1>5, <2>1, GivesUp
<1> QED BY <1>4, <1>5 DEF DropJournal, FileStep, FileStepOr

\* The recovery copy goes last.
LEMMA DropOriginalHolds ==
  ASSUME Invariant, DropOriginal
  PROVE  Invariant'
<1>0. files \in FileState /\ loaded \in [Procs -> Revs \cup {None}] /\ prepared \subseteq Revs
  BY Types DEF Invariant, RestTyped
<1>1. /\ step = "drop_original" /\ lock # None
      /\ UNCHANGED <<loaded, prepared, succeeded, nextRev>>
  BY DEF DropOriginal, FileStep, FileStepOr, At
<1>2. NoDatabase /\ files.journal = None /\ files.published = None
  BY <1>1 DEF Invariant, AtStep, DatabaseSteps
<1>3. ASSUME files' = [files EXCEPT !.original = None]
      PROVE  files' \in FileState /\ Sound' /\ (~late => Intact') /\ NoDatabase' /\ NoSettings'
  BY <1>0, <1>1, <1>2, <1>3, SetOriginal, RemovalEffect, NoDatabaseSame DEF NoSettings
<1>4. CASE files' = [files EXCEPT !.original = None] /\ AfterRecovery /\ UNCHANGED failures
  BY <1>1, <1>3, <1>4, Recovers
<1>5. ASSUME Release, NEW t \in BOOLEAN, Fail(t),
             files' = IF t THEN [files EXCEPT !.original = None] ELSE files
      PROVE  Invariant'
  <2>1. files' \in FileState /\ Sound' /\ (~t => files' = files)
    BY <1>0, <1>1, <1>3, <1>5, SameFiles DEF Invariant
  <2> QED BY <1>0, <1>1, <1>5, <2>1, GivesUp
<1> QED BY <1>4, <1>5 DEF DropOriginal, FileStep, FileStepOr

-----------------------------------------------------------------------------
\* The check, and the records an operation starts with.

\* A current revision is edited; a stale one is refused.
LEMMA CheckHolds ==
  ASSUME Invariant, Check
  PROVE  Invariant'
<1>0. files \in FileState /\ loaded \in [Procs -> Revs \cup {None}] /\ prepared \subseteq Revs
  BY Types DEF Invariant, RestTyped
<1>1. CASE CheckFails
  BY <1>0, <1>1, Ends DEF CheckFails, At
<1>2. CASE CheckCurrent
  <2>1. /\ step = "check" /\ lock # None /\ nextRev' = nextRev + 1
        /\ UNCHANGED <<files, lock, op, loaded, prepared, succeeded, disruptions, late>>
        /\ step' = FirstStep[op]
    BY <1>2 DEF CheckCurrent, At, failures
  <2>2. NoDatabase /\ NoSettings /\ nextRev <= MaxRev /\ op \in {"update", "save", "database"}
    BY <2>1 DEF Invariant, AtStep, Control, DatabaseSteps, Ready, Undoing
  <2>3. PICK e \in {files.config.env} \cup IF op = "database" THEN {nextRev} ELSE {} :
          intended' = [rev |-> nextRev, base |-> files.config.rev, env |-> e]
    BY <1>2 DEF CheckCurrent
  <2>4. nextRev \in Revs /\ nextRev \in Nat /\ nextRev' \in 1..(MaxRev + 1)
    BY <2>1, <2>2, Types, ConfigAssumption DEF Invariant, RestTyped, Revs
  <2>5. files.config \in Configuration /\ files.config.rev \in Nat /\ files.config.rev \in Revs
        /\ files.config.env \in Revs /\ files.config.rev < nextRev
    BY <1>0, FieldTypes, RevsAreNumbers DEF Invariant, Sound
  <2>6. /\ intended' \in Configuration /\ intended'.rev = nextRev
        /\ intended'.base = files.config.rev
        /\ op \in {"update", "save"} => intended'.env = files.config.env
    <3>1. e \in Revs /\ (op \in {"update", "save"} => e = files.config.env)
      BY <2>3, <2>4, <2>5
    <3> QED BY <2>3, <2>4, <2>5, <3>1 DEF Configuration
  <2>7. (op = "update" => step' = "prepare") /\ (op \in {"save", "database"} => step' = "pending")
    BY <2>1, <2>2 DEF FirstStep
  <2>8. \A r \in succeeded : r < nextRev /\ r \in Nat
    BY Types, RevsAreNumbers DEF Invariant, Numbered, RestTyped
  <2>9. TypeOK'
    <3>1. RestTyped'
      BY <2>1, <2>2, <2>4, <2>6, <2>7, Types DEF Invariant, RestTyped, Steps
    <3> QED BY <1>0, <2>1, <3>1, TypesNext
  <2>10. Control'
    BY ONLY <2>1, <2>2, <2>7 DEF Control, Opened, Undoing
  <2>11. NoDatabase' /\ NoSettings' /\ Edited' /\ Unrecorded'
    BY <2>1, <2>2, <2>5, <2>6, <2>8 DEF NoDatabase, NoSettings, Edited, Unrecorded
  <2>12. AtStep'
    BY ONLY <2>1, <2>2, <2>6, <2>7, <2>11 DEF AtStep, Ready, DatabaseSteps
  <2>13. Sound'
    BY <2>1, <2>2, <2>4, <2>5 DEF Sound, NoDatabase, NoSettings
  <2>14. Numbered'
    BY <2>1, <2>4, <2>6, <2>8 DEF Numbered
  <2>15. (~late => Intact') /\ Kept'
    BY <2>1, <2>11, NothingToKeep DEF Invariant, Intact
  <2> QED BY <2>1, <2>9, <2>10, <2>12, <2>13, <2>14, <2>15 DEF Invariant
<1> QED BY <1>1, <1>2 DEF Check

\* The record that a change is pending.
LEMMA RecordHolds ==
  ASSUME Invariant, AuditPrepare \/ RecordPending
  PROVE  Invariant'
<1>0. files \in FileState /\ loaded \in [Procs -> Revs \cup {None}] /\ prepared \subseteq Revs
  BY Types DEF Invariant, RestTyped
<1>1. step \in {"prepare", "pending"} /\ lock # None
  BY DEF AuditPrepare, RecordPending, At
<1>2. NoDatabase /\ NoSettings /\ Edited /\ Unrecorded /\ intended \in Configuration
      /\ (op \in {"update", "save"} => intended.env = files.config.env)
      /\ (step = "prepare" => op = "update") /\ (step = "pending" => op \in {"save", "database"})
  BY <1>1 DEF Invariant, AtStep, Control, DatabaseSteps, Ready
<1>3. prepared \cup {intended.rev} \subseteq Revs
  BY <1>0, <1>2, RevsAreNumbers
<1>4. CASE NotRecorded
  <2>1. /\ Release /\ Fail(FALSE) /\ files' = files /\ prepared' \subseteq Revs
        /\ UNCHANGED <<loaded, succeeded, nextRev>>
    BY <1>0, <1>3, <1>4 DEF NotRecorded, Disrupt
  <2>2. files' \in FileState /\ Sound'
    BY <1>0, <2>1, SameFiles DEF Invariant
  <2> QED BY <1>0, <1>1, <2>1, <2>2, GivesUp
<1>5. ASSUME NEW s \in Ready, Recorded(s), s = "original" => op = "update",
             s = "replace" => op = "save", s = "stage_env" => op = "database",
             s \in {"original", "replace", "stage_env"}
      PROVE  Invariant'
  <2>1. /\ Goto(op, s) /\ prepared' \subseteq Revs
        /\ UNCHANGED <<files, loaded, succeeded, nextRev, failures>>
    BY <1>3, <1>5 DEF Recorded
  <2>2. op' = op /\ step' = s /\ lock' = lock /\ intended' = intended /\ nextRev' = nextRev
    BY <2>1 DEF Goto
  <2>3. Control'
    BY ONLY <1>1, <1>5, <2>2 DEF Control, Opened, Undoing
  <2>4. NoDatabase' /\ NoSettings' /\ Edited' /\ Unrecorded' /\ intended' \in Configuration
        /\ (op' \in {"update", "save"} => intended'.env = files'.config.env)
    BY <1>2, <2>1, <2>2 DEF NoDatabase, NoSettings, Edited, Unrecorded
  <2>5. AtStep'
    BY ONLY <1>5, <2>2, <2>4 DEF AtStep, Ready, DatabaseSteps
  <2>6. files' \in FileState /\ Sound' /\ (~late => Intact') /\ Kept'
    BY <1>0, <2>1, <2>4, SameFiles, NothingToKeep DEF Invariant
  <2>7. op \in Ops /\ s \in Steps
    BY ONLY <1>5 DEF Ops, Steps
  <2> QED BY <2>1, <2>3, <2>5, <2>6, <2>7, Proceeds
<1>6. CASE AuditPrepare
  BY <1>2, <1>4, <1>5, <1>6 DEF AuditPrepare, Ready, At
<1>7. CASE RecordPending
  BY <1>2, <1>4, <1>5, <1>7 DEF RecordPending, Ready, At
<1> QED BY <1>6, <1>7

-----------------------------------------------------------------------------
\* update_server_settings and SettingsUpdateTransaction.

\* A failed step of a published update rolls it back.
LEMMA RollsBack ==
  ASSUME Invariant, step \in {"publish", "mark", "final"}, lock # None, Rollback,
         NEW t \in BOOLEAN, Fail(t),
         UNCHANGED <<loaded, prepared, nextRev>>,
         files' \in FileState, Sound', NoDatabase',
         files'.journal # None, files'.original # None,
         ~t => files' = files /\ succeeded' = succeeded,
         succeeded' \subseteq Revs, \A r \in succeeded' : r < nextRev
  PROVE  Invariant'
<1>1. op' = "rollback" /\ step' = "restore" /\ lock' = lock /\ intended' = intended
  BY DEF Rollback, Goto
<1>2. RestTyped' /\ disruptions' = disruptions + 1 /\ disruptions' \in Nat
      /\ disruptions \in Nat /\ late' = (late \/ t)
  <2>1. "rollback" \in Ops /\ "restore" \in Steps
    BY DEF Ops, Steps
  <2> QED BY <2>1, FailTypes, Types DEF Invariant, RestTyped, Rollback
<1>3. Control'
  BY ONLY <1>1, lock # None DEF Control, Opened, Undoing
<1>4. AtStep'
  BY ONLY <1>1, NoDatabase', files'.journal # None, files'.original # None
     DEF AtStep, Ready, DatabaseSteps
<1>5. Numbered'
  BY <1>1 DEF Invariant, Numbered
<1>6. ASSUME ~late' PROVE Intact' /\ Kept'
  <2>1. ~late /\ files' = files /\ succeeded' = succeeded
    BY <1>2, <1>6
  <2>2. Intact' /\ Kept
    BY <2>1, SameFiles DEF Invariant
  <2>3. Kept'
    BY <1>1, <1>2, <2>1, <2>2 DEF Kept
  <2> QED BY <2>2, <2>3
<1> QED BY <1>2, <1>3, <1>4, <1>5, <1>6, TypesNext DEF Invariant

\* A failed step of the clean-up leaves the rest to the recovery.
LEMMA ReconcilesSettings ==
  ASSUME Invariant, step \in {"complete_journal", "complete_original", "complete_published"},
         lock # None, Reconcile, NEW t \in BOOLEAN, Fail(t),
         UNCHANGED <<loaded, prepared, succeeded, nextRev>>,
         files' \in FileState, Sound', NoDatabase', ~t => files' = files
  PROVE  Invariant'
<1>1. op' = "reconcile" /\ step' = "recover_settings" /\ lock' = lock /\ intended' = intended
  BY DEF Reconcile, Goto
<1>2. RestTyped' /\ disruptions' = disruptions + 1 /\ disruptions' \in Nat
      /\ disruptions \in Nat /\ late' = (late \/ t)
  <2>1. "reconcile" \in Ops /\ "recover_settings" \in Steps
    BY DEF Ops, Steps
  <2> QED BY <2>1, FailTypes, Types DEF Invariant, RestTyped, Reconcile
<1>3. Control'
  BY ONLY <1>1, lock # None DEF Control, Opened, Undoing
<1>4. AtStep'
  BY <1>1, ToSettingsRecovery
<1>5. Numbered'
  BY <1>1 DEF Invariant, Numbered
<1>6. ASSUME ~late' PROVE Intact' /\ Kept'
  <2>1. ~late /\ files' = files
    BY <1>2, <1>6
  <2>2. Intact' /\ Kept /\ (Vouched' <=> Vouched)
    BY <2>1, SameFiles DEF Invariant
  <2>3. Kept'
    BY <1>1, <1>2, <2>1, <2>2 DEF Kept
  <2> QED BY <2>2, <2>3
<1> QED BY <1>2, <1>3, <1>4, <1>5, <1>6, TypesNext DEF Invariant

\* The recovery copy is written.
LEMMA WriteOriginalHolds ==
  ASSUME Invariant, WriteOriginal
  PROVE  Invariant'
<1>0. files \in FileState /\ loaded \in [Procs -> Revs \cup {None}] /\ prepared \subseteq Revs
  BY Types DEF Invariant, RestTyped
<1>1. /\ step = "original" /\ lock # None
      /\ UNCHANGED <<loaded, prepared, succeeded, nextRev>>
  BY DEF WriteOriginal, FileStep, FileStepOr, At
<1>2. /\ NoDatabase /\ NoSettings /\ Edited /\ Unrecorded /\ intended \in Configuration
      /\ op = "update" /\ intended.env = files.config.env
  BY <1>1 DEF Invariant, AtStep, Control, DatabaseSteps, Ready
<1>3. ASSUME files' = [files EXCEPT !.original = files.config]
      PROVE  /\ files' \in FileState /\ Sound' /\ (~late => Intact') /\ NoDatabase'
             /\ files'.journal = None /\ files'.published = None
             /\ files'.original = files'.config /\ files'.config = files.config
  <2>1. files.config \in Configuration
    BY <1>0, FieldTypes
  <2>2. /\ files' \in FileState /\ DatabaseSame
        /\ files'.config = files.config /\ files'.env = files.env
        /\ files'.journal = files.journal /\ files'.original = files.config
        /\ files'.published = files.published
    BY <1>0, <1>3, <2>1, SetOriginal
  <2>3. Sound'
    BY <1>1, <1>2, <2>2 DEF Invariant, Sound, NoDatabase, DatabaseSame
  <2>4. ~late => Intact'
    BY <1>1, <1>2, <2>2 DEF Invariant, Intact, NoDatabase, NoSettings, DatabaseSame
  <2> QED BY <1>2, <2>2, <2>3, <2>4, NoDatabaseSame DEF NoSettings
<1>4. CASE files' = [files EXCEPT !.original = files.config] /\ Goto(op, "journal")
           /\ UNCHANGED failures
  <2>1. op' = "update" /\ step' = "journal" /\ lock' = lock /\ intended' = intended
    BY <1>2, <1>4 DEF Goto
  <2>2. Control'
    BY ONLY <1>1, <2>1 DEF Control, Opened, Undoing
  <2>3. Edited' /\ Unrecorded' /\ intended' \in Configuration
        /\ intended'.env = files'.config.env
    BY <1>1, <1>2, <1>3, <1>4, <2>1 DEF Edited, Unrecorded
  <2>4. AtStep'
    BY ONLY <1>3, <1>4, <2>1, <2>3 DEF AtStep, Ready, DatabaseSteps
  <2>5. Kept'
    BY <1>3, <1>4 DEF Kept
  <2> QED BY <1>1, <1>2, <1>3, <1>4, <2>2, <2>4, <2>5, Proceeds DEF Ops, Steps
<1>5. ASSUME Release, NEW t \in BOOLEAN, Fail(t),
             files' = IF t THEN [files EXCEPT !.original = files.config] ELSE files
      PROVE  Invariant'
  <2>1. files' \in FileState /\ Sound' /\ (~t => files' = files)
    BY <1>0, <1>1, <1>3, <1>5, SameFiles DEF Invariant
  <2> QED BY <1>0, <1>1, <1>5, <2>1, GivesUp
<1> QED BY <1>4, <1>5 DEF WriteOriginal, FileStep, FileStepOr

\* The journal is written; without it the recovery copy is removed, if it can
\* be.
LEMMA WriteJournalHolds ==
  ASSUME Invariant, WriteJournal
  PROVE  Invariant'
<1> DEFINE written == [files EXCEPT !.journal = intended.rev]
<1>0. files \in FileState /\ loaded \in [Procs -> Revs \cup {None}] /\ prepared \subseteq Revs
  BY Types DEF Invariant, RestTyped
<1>1. /\ step = "journal" /\ lock # None
      /\ UNCHANGED <<loaded, prepared, succeeded, nextRev>>
  BY DEF WriteJournal, FileStepOr, At
<1>2. /\ NoDatabase /\ Edited /\ Unrecorded /\ intended \in Configuration
      /\ op = "update" /\ intended.env = files.config.env
      /\ files.original = files.config /\ files.journal = None /\ files.published = None
  BY <1>1 DEF Invariant, AtStep, Control, DatabaseSteps, Ready
<1>3. intended.rev \in Revs /\ intended.rev # None /\ files.original # None
      /\ files.config \in Configuration
  BY <1>0, <1>2, RevsAreNumbers, FieldTypes
<1>4. ASSUME files' = written
      PROVE  /\ files' \in FileState /\ Sound' /\ (~late => Intact') /\ NoDatabase'
             /\ files'.journal = intended.rev /\ files'.published = None
             /\ files'.original = files'.config /\ files'.config = files.config
  <2>1. /\ files' \in FileState /\ DatabaseSame
        /\ files'.config = files.config /\ files'.env = files.env
        /\ files'.journal = intended.rev /\ files'.original = files.original
        /\ files'.published = files.published
    BY <1>0, <1>3, <1>4, SetJournal
  <2>2. Sound'
    BY <1>1, <1>2, <2>1 DEF Invariant, Sound, NoDatabase, DatabaseSame
  <2>3. ~late => Intact'
    BY <1>1, <1>2, <1>3, <2>1 DEF Invariant, Intact, NoDatabase, DatabaseSame
  <2> QED BY <1>2, <2>1, <2>2, <2>3, NoDatabaseSame
<1>5. CASE files' = written /\ Goto(op, "publish") /\ UNCHANGED failures
  <2>1. op' = "update" /\ step' = "publish" /\ lock' = lock /\ intended' = intended
    BY <1>2, <1>5 DEF Goto
  <2>2. Control'
    BY ONLY <1>1, <2>1 DEF Control, Opened, Undoing
  <2>3. Edited' /\ Unrecorded' /\ intended' \in Configuration
        /\ intended'.env = files'.config.env
    BY <1>1, <1>2, <1>4, <1>5, <2>1 DEF Edited, Unrecorded
  <2>4. AtStep'
    BY ONLY <1>4, <1>5, <2>1, <2>3 DEF AtStep, Ready, DatabaseSteps
  <2>5. Kept'
    BY <1>4, <1>5 DEF Kept
  <2> QED BY <1>1, <1>2, <1>4, <1>5, <2>2, <2>4, <2>5, Proceeds DEF Ops, Steps
<1>6. ASSUME Release, NEW t \in BOOLEAN, Fail(t),
             files' \in LET g == IF t THEN written ELSE files
                        IN  {g, [g EXCEPT !.original = None]}
      PROVE  Invariant'
  <2>1. CASE files' = files
    BY <1>0, <1>1, <1>6, <2>1, SameFiles, GivesUp DEF Invariant
  <2>2. CASE t /\ files' = written
    BY <1>0, <1>1, <1>4, <1>6, <2>2, GivesUp
  <2>3. CASE ~t /\ files' = [files EXCEPT !.original = None]
    <3>1. files' \in FileState /\ Sound' /\ (~late => Intact')
      BY <1>1, <1>2, <2>3, RemovalEffect
    <3>2. NoSettings'
      BY <1>0, <1>2, <2>3, SetOriginal DEF NoSettings
    <3> QED BY <1>0, <1>1, <1>6, <3>1, <3>2, CleansUp
  <2>4. CASE t /\ files' = [written EXCEPT !.original = None]
    <3>1. /\ files' \in FileState /\ DatabaseSame
          /\ files'.config = files.config /\ files'.original = None
      BY ONLY <1>0, <1>3, <2>4 DEF FileState, DatabaseSame
    <3>2. Sound'
      BY <1>1, <1>2, <3>1 DEF Invariant, Sound, NoDatabase, DatabaseSame
    <3> QED BY <1>0, <1>1, <1>6, <2>4, <3>1, <3>2, GivesUp
  <2> QED BY <1>6, <2>1, <2>2, <2>3, <2>4
<1> QED BY <1>5, <1>6 DEF WriteJournal, FileStepOr

\* The replacement is published.
LEMMA PublishHolds ==
  ASSUME Invariant, Publish
  PROVE  Invariant'
<1>0. files \in FileState /\ succeeded \subseteq Revs
  BY Types DEF Invariant, RestTyped
<1>1. /\ step = "publish" /\ lock # None
      /\ UNCHANGED <<loaded, prepared, succeeded, nextRev>>
  BY DEF Publish, FileStep, FileStepOr, At
<1>2. /\ NoDatabase /\ Edited /\ Unrecorded /\ intended \in Configuration
      /\ op = "update" /\ intended.env = files.config.env
      /\ files.original = files.config /\ files.journal = intended.rev /\ files.published = None
  BY <1>1 DEF Invariant, AtStep, Control, DatabaseSteps, Ready
<1>3. /\ intended.rev # None /\ intended # None /\ files.original # None /\ intended.rev \in Nat
      /\ files.config \in Configuration /\ intended.rev < nextRev
      /\ \A r \in succeeded : r < nextRev /\ r \in Nat
  BY <1>0, <1>2, RevsAreNumbers, FieldTypes DEF Invariant, Numbered
<1>4. ASSUME files' = [files EXCEPT !.config = intended]
      PROVE  /\ files' \in FileState /\ Sound' /\ (~late => Intact') /\ NoDatabase'
             /\ files'.journal = intended.rev /\ files'.published = None
             /\ files'.original = files.original /\ files'.config = intended
  <2>1. /\ files' \in FileState /\ DatabaseSame /\ SettingsSame
        /\ files'.config = intended /\ files'.env = files.env
    BY <1>0, <1>2, <1>4, SetConfig
  <2>2. Sound'
    BY <1>1, <1>2, <1>3, <2>1
       DEF Invariant, Sound, NoDatabase, DatabaseSame, SettingsSame, Edited
  <2>3. ~late => Intact'
    BY <1>1, <1>2, <1>3, <2>1 DEF Invariant, Intact, NoDatabase, DatabaseSame, SettingsSame
  <2> QED BY <1>2, <2>1, <2>2, <2>3, NoDatabaseSame DEF SettingsSame
<1>5. CASE files' = [files EXCEPT !.config = intended] /\ Goto(op, "mark") /\ UNCHANGED failures
  <2>1. op' = "update" /\ step' = "mark" /\ lock' = lock /\ intended' = intended
    BY <1>2, <1>5 DEF Goto
  <2>2. Control'
    BY ONLY <1>1, <2>1 DEF Control, Opened, Undoing
  <2>3. Unrecorded' /\ intended' \in Configuration /\ files'.original # None
    BY <1>1, <1>2, <1>3, <1>4, <1>5, <2>1 DEF Unrecorded
  <2>4. AtStep'
    BY ONLY <1>4, <1>5, <2>1, <2>3 DEF AtStep, Ready, DatabaseSteps
  <2>5. intended.rev \notin succeeded
    BY <1>2, <1>3 DEF Unrecorded
  <2>6. Kept'
    BY <1>1, <1>4, <1>5, <2>5 DEF Kept
  <2> QED BY <1>1, <1>2, <1>4, <1>5, <2>2, <2>4, <2>6, Proceeds DEF Ops, Steps
<1>6. ASSUME Rollback, NEW t \in BOOLEAN, Fail(t),
             files' = IF t THEN [files EXCEPT !.config = intended] ELSE files
      PROVE  Invariant'
  <2>1. /\ files' \in FileState /\ Sound' /\ NoDatabase' /\ (~t => files' = files)
        /\ files'.journal # None /\ files'.original # None
    BY <1>0, <1>1, <1>2, <1>3, <1>4, <1>6, SameFiles DEF Invariant
  <2> QED BY <1>0, <1>1, <1>3, <1>6, <2>1, RollsBack
<1> QED BY <1>5, <1>6 DEF Publish, FileStep, FileStepOr

\* The marker vouches for it.
LEMMA MarkPublishedHolds ==
  ASSUME Invariant, MarkPublished
  PROVE  Invariant'
<1>0. files \in FileState /\ succeeded \subseteq Revs
  BY Types DEF Invariant, RestTyped
<1>1. /\ step = "mark" /\ lock # None
      /\ UNCHANGED <<loaded, prepared, succeeded, nextRev>>
  BY DEF MarkPublished, FileStep, FileStepOr, At
<1>2. /\ NoDatabase /\ Unrecorded /\ intended \in Configuration /\ op = "update"
      /\ files.config = intended /\ files.journal = intended.rev /\ files.original # None
  BY <1>1 DEF Invariant, AtStep, Control, DatabaseSteps, Ready
<1>3. /\ intended.rev # None /\ intended.rev \in Nat /\ intended.rev \in Revs
      /\ \A r \in succeeded : r < nextRev /\ r \in Nat
  BY <1>0, <1>2, RevsAreNumbers DEF Invariant, Numbered
<1>4. ASSUME files' = [files EXCEPT !.published = files.config.rev]
      PROVE  /\ files' \in FileState /\ Sound' /\ (~late => Intact') /\ NoDatabase'
             /\ files'.journal = intended.rev /\ files'.published = intended.rev
             /\ files'.original = files.original /\ files'.config = intended
  <2>1. /\ files' \in FileState /\ DatabaseSame
        /\ files'.config = files.config /\ files'.env = files.env
        /\ files'.journal = files.journal /\ files'.original = files.original
        /\ files'.published = files.config.rev
    BY <1>0, <1>2, <1>3, <1>4, SetPublished
  <2>2. Sound'
    BY <1>1, <1>2, <2>1 DEF Invariant, Sound, NoDatabase, DatabaseSame
  <2>3. ~late => Intact'
    BY <1>1, <1>2, <1>3, <2>1 DEF Invariant, Intact, NoDatabase, DatabaseSame
  <2> QED BY <1>2, <2>1, <2>2, <2>3, NoDatabaseSame
<1>5. CASE files' = [files EXCEPT !.published = files.config.rev] /\ Goto(op, "final")
           /\ UNCHANGED failures
  <2>1. op' = "update" /\ step' = "final" /\ lock' = lock /\ intended' = intended
    BY <1>2, <1>5 DEF Goto
  <2>2. Control'
    BY ONLY <1>1, <2>1 DEF Control, Opened, Undoing
  <2>3. Unrecorded' /\ intended' \in Configuration /\ files'.original # None
    BY <1>1, <1>2, <1>3, <1>4, <1>5, <2>1 DEF Unrecorded
  <2>4. AtStep'
    BY ONLY <1>4, <1>5, <2>1, <2>3 DEF AtStep, Ready, DatabaseSteps
  <2>5. intended.rev \notin succeeded
    BY <1>2, <1>3 DEF Unrecorded
  <2>6. Kept'
    BY <1>1, <1>4, <1>5, <2>5 DEF Kept
  <2> QED BY <1>1, <1>2, <1>4, <1>5, <2>2, <2>4, <2>6, Proceeds DEF Ops, Steps
<1>6. ASSUME Rollback, NEW t \in BOOLEAN, Fail(t),
             files' = IF t THEN [files EXCEPT !.published = files.config.rev] ELSE files
      PROVE  Invariant'
  <2>1. /\ files' \in FileState /\ Sound' /\ NoDatabase' /\ (~t => files' = files)
        /\ files'.journal # None /\ files'.original # None
    BY <1>0, <1>1, <1>2, <1>3, <1>4, <1>6, SameFiles DEF Invariant
  <2> QED BY <1>0, <1>1, <1>3, <1>6, <2>1, RollsBack
<1> QED BY <1>5, <1>6 DEF MarkPublished, FileStep, FileStepOr

\* The success is recorded, or the update is rolled back.
LEMMA AuditSucceededHolds ==
  ASSUME Invariant, AuditSucceeded
  PROVE  Invariant'
<1>0. files \in FileState /\ succeeded \subseteq Revs
  BY Types DEF Invariant, RestTyped
<1>1. step = "final" /\ lock # None /\ UNCHANGED <<files, loaded, prepared, nextRev>>
  BY DEF AuditSucceeded, At
<1>2. /\ NoDatabase /\ intended \in Configuration /\ op = "update"
      /\ files.config = intended /\ files.journal = intended.rev /\ files.original # None
      /\ files.published = files.config.rev
  BY <1>1 DEF Invariant, AtStep, Control, DatabaseSteps, Ready
<1>3. /\ intended.rev # None /\ intended # None /\ intended.rev \in Revs
      /\ intended.rev < nextRev /\ \A r \in succeeded : r < nextRev
  BY <1>2, RevsAreNumbers DEF Invariant, Numbered
<1>4. /\ files' \in FileState /\ Sound' /\ NoDatabase' /\ (~late => Intact')
      /\ files'.journal # None /\ files'.original # None
  BY <1>0, <1>1, <1>2, <1>3, SameFiles DEF Invariant
<1>5. CASE /\ succeeded' = succeeded \cup {intended.rev} /\ Goto(op, "complete_journal")
           /\ UNCHANGED failures
  <2>1. op' = "update" /\ step' = "complete_journal" /\ lock' = lock /\ intended' = intended
    BY <1>2, <1>5 DEF Goto
  <2>2. Control'
    BY ONLY <1>1, <2>1 DEF Control, Opened, Undoing
  <2>3. files'.config = intended' /\ files'.journal = intended'.rev
        /\ files'.published = files'.config.rev
    BY <1>1, <1>2, <2>1
  <2>4. AtStep'
    BY ONLY <1>4, <2>1, <2>3 DEF AtStep, Ready, DatabaseSteps
  <2>5. Kept'
    BY <2>1, <2>3 DEF Kept, Vouched
  <2>6. TypeOK'
    <3>1. RestTyped'
      BY <1>0, <1>1, <1>3, <1>5, <2>1, Types DEF Invariant, RestTyped, Ops, Steps, failures
    <3> QED BY <1>4, <3>1, TypesNext
  <2>7. Numbered'
    BY <1>1, <1>3, <1>5, <2>1 DEF Numbered
  <2> QED BY <1>4, <1>5, <2>2, <2>4, <2>5, <2>6, <2>7 DEF Invariant, failures
<1>6. ASSUME Rollback, NEW t \in BOOLEAN, Fail(t),
             succeeded' = IF t THEN succeeded \cup {intended.rev} ELSE succeeded
      PROVE  Invariant'
  <2>1. /\ succeeded' \subseteq Revs /\ (\A r \in succeeded' : r < nextRev)
        /\ (~t => files' = files /\ succeeded' = succeeded)
    BY <1>0, <1>1, <1>3, <1>6
  <2> QED BY <1>1, <1>4, <1>6, <2>1, RollsBack
<1> QED BY <1>5, <1>6 DEF AuditSucceeded

\* The artifacts of the completed update are removed.
LEMMA CompleteHolds ==
  ASSUME Invariant, Complete
  PROVE  Invariant'
<1>0. files \in FileState /\ loaded \in [Procs -> Revs \cup {None}] /\ prepared \subseteq Revs
  BY Types DEF Invariant, RestTyped
<1>1. CASE CompleteJournal
  <2>1. /\ step = "complete_journal" /\ lock # None
        /\ UNCHANGED <<loaded, prepared, succeeded, nextRev>>
    BY <1>1 DEF CompleteJournal, FileStep, FileStepOr, At
  <2>2. NoDatabase /\ files.published = files.config.rev /\ op = "update"
    BY <2>1 DEF Invariant, AtStep, Control, DatabaseSteps
  <2>3. ASSUME files' = [files EXCEPT !.journal = None]
        PROVE  /\ files' \in FileState /\ Sound' /\ (~late => Intact') /\ NoDatabase'
               /\ files'.journal = None /\ files'.published = files'.config.rev
    BY <1>0, <2>1, <2>2, <2>3, SetJournal, RemovalEffect, NoDatabaseSame
  <2>4. CASE files' = [files EXCEPT !.journal = None] /\ Goto(op, "complete_original")
             /\ UNCHANGED failures
    <3>1. op' = "update" /\ step' = "complete_original" /\ lock' = lock
      BY <2>2, <2>4 DEF Goto
    <3>2. Control'
      BY ONLY <2>1, <3>1 DEF Control, Opened, Undoing
    <3>3. AtStep'
      BY ONLY <2>3, <2>4, <3>1 DEF AtStep, Ready, DatabaseSteps
    <3>4. Kept'
      BY <2>3, <2>4 DEF Kept
    <3> QED BY <2>1, <2>2, <2>3, <2>4, <3>2, <3>3, <3>4, Proceeds DEF Ops, Steps
  <2>5. ASSUME Reconcile, NEW t \in BOOLEAN, Fail(t),
               files' = IF t THEN [files EXCEPT !.journal = None] ELSE files
        PROVE  Invariant'
    <3>1. files' \in FileState /\ Sound' /\ NoDatabase' /\ (~t => files' = files)
      BY <1>0, <2>1, <2>2, <2>3, <2>5, SameFiles DEF Invariant
    <3> QED BY <2>1, <2>5, <3>1, ReconcilesSettings
  <2> QED BY <1>1, <2>4, <2>5 DEF CompleteJournal, FileStep, FileStepOr
<1>2. CASE CompleteOriginal
  <2>1. /\ step = "complete_original" /\ lock # None
        /\ UNCHANGED <<loaded, prepared, succeeded, nextRev>>
    BY <1>2 DEF CompleteOriginal, FileStep, FileStepOr, At
  <2>2. NoDatabase /\ files.published = files.config.rev /\ files.journal = None /\ op = "update"
    BY <2>1 DEF Invariant, AtStep, Control, DatabaseSteps
  <2>3. ASSUME files' = [files EXCEPT !.original = None]
        PROVE  /\ files' \in FileState /\ Sound' /\ (~late => Intact') /\ NoDatabase'
               /\ files'.journal = None /\ files'.original = None
               /\ files'.published = files'.config.rev
    BY <1>0, <2>1, <2>2, <2>3, SetOriginal, RemovalEffect, NoDatabaseSame
  <2>4. CASE files' = [files EXCEPT !.original = None] /\ Goto(op, "complete_published")
             /\ UNCHANGED failures
    <3>1. op' = "update" /\ step' = "complete_published" /\ lock' = lock
      BY <2>2, <2>4 DEF Goto
    <3>2. Control'
      BY ONLY <2>1, <3>1 DEF Control, Opened, Undoing
    <3>3. AtStep'
      BY ONLY <2>3, <2>4, <3>1 DEF AtStep, Ready, DatabaseSteps
    <3>4. Kept'
      BY <2>3, <2>4 DEF Kept
    <3> QED BY <2>1, <2>2, <2>3, <2>4, <3>2, <3>3, <3>4, Proceeds DEF Ops, Steps
  <2>5. ASSUME Reconcile, NEW t \in BOOLEAN, Fail(t),
               files' = IF t THEN [files EXCEPT !.original = None] ELSE files
        PROVE  Invariant'
    <3>1. files' \in FileState /\ Sound' /\ NoDatabase' /\ (~t => files' = files)
      BY <1>0, <2>1, <2>2, <2>3, <2>5, SameFiles DEF Invariant
    <3> QED BY <2>1, <2>5, <3>1, ReconcilesSettings
  <2> QED BY <1>2, <2>4, <2>5 DEF CompleteOriginal, FileStep, FileStepOr
<1>3. CASE CompletePublished
  <2>1. /\ step = "complete_published" /\ lock # None
        /\ UNCHANGED <<loaded, prepared, succeeded, nextRev>>
    BY <1>3 DEF CompletePublished, FileStep, FileStepOr, At
  <2>2. NoDatabase /\ files.journal = None
    BY <2>1 DEF Invariant, AtStep, DatabaseSteps
  <2>3. ASSUME files' = [files EXCEPT !.published = None]
        PROVE  /\ files' \in FileState /\ Sound' /\ (~late => Intact') /\ NoDatabase'
               /\ files'.journal = None
    BY <1>0, <2>1, <2>2, <2>3, SetPublished, RemovalEffect, NoDatabaseSame
  <2>4. CASE files' = [files EXCEPT !.published = None] /\ Release /\ UNCHANGED failures
    <3>1. Kept'
      BY <2>3, <2>4 DEF Kept
    <3> QED BY <1>0, <2>1, <2>3, <2>4, <3>1, Finishes
  <2>5. ASSUME Reconcile, NEW t \in BOOLEAN, Fail(t),
               files' = IF t THEN [files EXCEPT !.published = None] ELSE files
        PROVE  Invariant'
    <3>1. files' \in FileState /\ Sound' /\ NoDatabase' /\ (~t => files' = files)
      BY <1>0, <2>1, <2>2, <2>3, <2>5, SameFiles DEF Invariant
    <3> QED BY <2>1, <2>5, <3>1, ReconcilesSettings
  <2> QED BY <1>3, <2>4, <2>5 DEF CompletePublished, FileStep, FileStepOr
<1> QED BY <1>1, <1>2, <1>3 DEF Complete

-----------------------------------------------------------------------------
\* save_config, configure_database and DatabaseUpdateTransaction.

\* save_config replaces the file.
LEMMA ReplaceConfigHolds ==
  ASSUME Invariant, ReplaceConfig
  PROVE  Invariant'
<1>0. files \in FileState /\ loaded \in [Procs -> Revs \cup {None}] /\ prepared \subseteq Revs
  BY Types DEF Invariant, RestTyped
<1>1. /\ step = "replace" /\ lock # None
      /\ UNCHANGED <<loaded, prepared, succeeded, nextRev>>
  BY DEF ReplaceConfig, FileStep, FileStepOr, At
<1>2. /\ NoDatabase /\ NoSettings /\ intended \in Configuration /\ op = "save"
      /\ intended.env = files.config.env
  BY <1>1 DEF Invariant, AtStep, Control, DatabaseSteps, Ready
<1>3. intended.rev < nextRev
  BY <1>2, RevsAreNumbers DEF Invariant, Numbered
<1>4. ASSUME files' = [files EXCEPT !.config = intended]
      PROVE  files' \in FileState /\ Sound' /\ (~late => Intact') /\ NoDatabase' /\ NoSettings'
  <2>1. /\ files' \in FileState /\ DatabaseSame /\ SettingsSame
        /\ files'.config = intended /\ files'.env = files.env
    BY <1>0, <1>2, <1>4, SetConfig
  <2>2. NoDatabase' /\ NoSettings'
    BY <1>2, <2>1 DEF NoDatabase, NoSettings, DatabaseSame, SettingsSame
  <2>3. Sound' /\ (~late => Intact')
    BY <1>1, <1>2, <1>3, <2>1, <2>2 DEF Invariant, Sound, Intact, NoDatabase, NoSettings
  <2> QED BY <2>1, <2>2, <2>3
<1>5. CASE files' = [files EXCEPT !.config = intended] /\ Goto(op, "recorded")
           /\ UNCHANGED failures
  <2>1. op' = "save" /\ step' = "recorded" /\ lock' = lock /\ intended' = intended
    BY <1>2, <1>5 DEF Goto
  <2>2. Control'
    BY ONLY <1>1, <2>1 DEF Control, Opened, Undoing
  <2>3. AtStep'
    BY ONLY <1>2, <1>4, <1>5, <2>1 DEF AtStep, Ready, DatabaseSteps
  <2> QED BY <1>1, <1>2, <1>4, <1>5, <2>2, <2>3, NothingToKeep, Proceeds DEF Ops, Steps
<1>6. ASSUME Release, NEW t \in BOOLEAN, Fail(t),
             files' = IF t THEN [files EXCEPT !.config = intended] ELSE files
      PROVE  Invariant'
  <2>1. files' \in FileState /\ Sound' /\ (~t => files' = files)
    BY <1>0, <1>1, <1>4, <1>6, SameFiles DEF Invariant
  <2> QED BY <1>0, <1>1, <1>6, <2>1, GivesUp
<1> QED BY <1>5, <1>6 DEF ReplaceConfig, FileStep, FileStepOr

\* What is true at each step of a database update.
LEMMA DatabaseStepFacts ==
  ASSUME Invariant,
         step \in {"stage_env", "stage_config", "journal_db", "publish_env", "publish_config"}
  PROVE  /\ NoSettings /\ Edited /\ op = "database" /\ intended \in Configuration
         /\ intended.rev < nextRev /\ intended.rev \in Revs /\ intended.env \in Revs
         /\ intended.rev # None /\ intended.env # None /\ intended # None
         /\ files \in FileState
<1>1. NoSettings /\ Edited /\ op = "database" /\ files \in FileState
  BY Types DEF Invariant, AtStep, Control, Ready
<1> QED BY <1>1, RevsAreNumbers DEF Invariant, Edited, Numbered

\* The way from one step of a database update to the next.
LEMMA DatabaseProceeds ==
  ASSUME Invariant, lock # None, op = "database",
         NEW s \in {"stage_config", "journal_db", "publish_env", "publish_config",
                    "drop_db_journal", "recorded"},
         Goto(op, s), UNCHANGED <<loaded, prepared, succeeded, nextRev, failures>>,
         files' \in FileState, Sound', ~late => Intact', NoSettings', AtStep'
  PROVE  Invariant'
<1>1. op' = "database" /\ step' = s /\ lock' = lock
  BY DEF Goto
<1>2. Control'
  BY ONLY <1>1, lock # None,
          s \in {"stage_config", "journal_db", "publish_env", "publish_config",
                 "drop_db_journal", "recorded"} DEF Control, Opened, Undoing
<1> QED BY <1>2, NothingToKeep, Proceeds DEF Ops, Steps

\* A failed step of a journaled update leaves the rest to the recovery.
LEMMA ReconcilesDatabase ==
  ASSUME Invariant, lock # None, ReconcileDb, NEW t \in BOOLEAN, Fail(t),
         UNCHANGED <<loaded, prepared, succeeded, nextRev>>, intended \in Configuration,
         files' \in FileState, Sound', NoSettings', ~t => files' = files
  PROVE  Invariant'
<1>1. op' = "reconcile_db" /\ step' = "recover_db" /\ lock' = lock /\ intended' = intended
  BY DEF ReconcileDb, Goto
<1>2. RestTyped' /\ late' = (late \/ t)
  <2>1. "reconcile_db" \in Ops /\ "recover_db" \in Steps
    BY DEF Ops, Steps
  <2> QED BY <2>1, FailTypes, Types DEF Invariant, RestTyped, ReconcileDb
<1>3. Control'
  BY ONLY <1>1, lock # None DEF Control, Opened, Undoing
<1>4. AtStep'
  BY <1>1, ToDatabaseRecovery
<1>5. Numbered'
  BY <1>1 DEF Invariant, Numbered
<1>6. ASSUME ~late' PROVE Intact' /\ Kept'
  BY <1>2, <1>6, SameFiles, NothingToKeep DEF Invariant
<1> QED BY <1>2, <1>3, <1>4, <1>5, <1>6, TypesNext DEF Invariant

\* The environment file is staged.
LEMMA StageEnvironmentHolds ==
  ASSUME Invariant, StageEnvironment
  PROVE  Invariant'
<1>0. files \in FileState /\ loaded \in [Procs -> Revs \cup {None}] /\ prepared \subseteq Revs
  BY Types DEF Invariant, RestTyped
<1>1. /\ step = "stage_env" /\ lock # None
      /\ UNCHANGED <<loaded, prepared, succeeded, nextRev>>
  BY DEF StageEnvironment, FileStep, FileStepOr, At
<1>2. /\ NoSettings /\ Edited /\ op = "database" /\ intended.env \in Revs
  BY <1>1, DatabaseStepFacts
<1>3. NoDatabase
  BY <1>1 DEF Invariant, AtStep, DatabaseSteps
<1>4. ASSUME files' = [files EXCEPT !.envStage = intended.env]
      PROVE  /\ files' \in FileState /\ Sound' /\ (~late => Intact') /\ NoSettings'
             /\ files'.config = files.config /\ files'.envStage = intended.env
             /\ files'.dbJournal = None /\ files'.configStage = None
  <2>1. /\ files' \in FileState /\ SettingsSame
        /\ files'.config = files.config /\ files'.env = files.env
        /\ files'.dbJournal = files.dbJournal /\ files'.envStage = intended.env
        /\ files'.configStage = files.configStage
    BY ONLY <1>0, <1>2, <1>4 DEF FileState, SettingsSame
  <2>2. NoSettings'
    BY <1>2, <2>1 DEF NoSettings, SettingsSame
  <2>3. Sound' /\ (~late => Intact')
    BY <1>1, <1>3, <2>1, <2>2 DEF Invariant, Sound, Intact, NoDatabase, NoSettings
  <2> QED BY <1>3, <2>1, <2>2, <2>3 DEF NoDatabase
<1>5. CASE files' = [files EXCEPT !.envStage = intended.env] /\ Goto(op, "stage_config")
           /\ UNCHANGED failures
  <2>1. op' = "database" /\ step' = "stage_config" /\ intended' = intended
    BY <1>2, <1>5 DEF Goto
  <2>2. Edited'
    BY <1>2, <1>4, <1>5, <2>1 DEF Edited
  <2>3. AtStep'
    BY ONLY <1>4, <1>5, <2>1, <2>2 DEF AtStep, Ready, DatabaseSteps
  <2> QED BY <1>1, <1>2, <1>4, <1>5, <2>3, DatabaseProceeds
<1>6. ASSUME Release, NEW t \in BOOLEAN, Fail(t),
             files' = IF t THEN [files EXCEPT !.envStage = intended.env] ELSE files
      PROVE  Invariant'
  <2>1. files' \in FileState /\ Sound' /\ (~t => files' = files)
    BY <1>0, <1>1, <1>4, <1>6, SameFiles DEF Invariant
  <2> QED BY <1>0, <1>1, <1>6, <2>1, GivesUp
<1> QED BY <1>5, <1>6 DEF StageEnvironment, FileStep, FileStepOr

\* While there is no journal, stages can come and go.
LEMMA StagesEffect ==
  ASSUME Invariant, NoSettings, Edited, files.dbJournal = None, intended.rev < nextRev,
         nextRev' = nextRev,
         files' \in FileState, SettingsSame, files'.config = files.config,
         files'.configStage \in {None, intended}
  PROVE  /\ Sound' /\ NoSettings'
         /\ (files'.dbJournal = None /\ files'.env = files.env /\ ~late) => Intact'
<1>1. NoSettings'
  BY DEF NoSettings, SettingsSame
<1>2. Sound'
  BY <1>1 DEF Invariant, Sound, Edited, NoSettings
<1>3. (files'.dbJournal = None /\ files'.env = files.env /\ ~late) => Intact'
  BY <1>1 DEF Invariant, Intact, NoSettings
<1> QED BY <1>1, <1>2, <1>3

\* The configuration is staged; without it the stage before it is removed.
LEMMA StageConfigHolds ==
  ASSUME Invariant, StageConfig
  PROVE  Invariant'
<1> DEFINE staged == [files EXCEPT !.configStage = intended]
<1>0. files \in FileState /\ loaded \in [Procs -> Revs \cup {None}] /\ prepared \subseteq Revs
  BY Types DEF Invariant, RestTyped
<1>1. /\ step = "stage_config" /\ lock # None
      /\ UNCHANGED <<loaded, prepared, succeeded, nextRev>>
  BY DEF StageConfig, FileStepOr, At
<1>2. /\ NoSettings /\ Edited /\ op = "database" /\ intended.env \in Revs
      /\ intended \in Configuration /\ intended.rev < nextRev
  BY <1>1, DatabaseStepFacts
<1>3. files.dbJournal = None /\ files.configStage = None /\ files.envStage = intended.env
  BY <1>1 DEF Invariant, AtStep
<1>4. ASSUME files' \in {files, staged, [files EXCEPT !.envStage = None],
                         [staged EXCEPT !.envStage = None]}
      PROVE  files' \in FileState /\ Sound' /\ NoSettings' /\ (~late => Intact')
             /\ files'.config = files.config /\ files'.dbJournal = None
  <2>1. /\ files' \in FileState /\ SettingsSame
        /\ files'.config = files.config /\ files'.env = files.env
        /\ files'.dbJournal = None /\ files'.configStage \in {None, intended}
    BY ONLY <1>0, <1>2, <1>3, <1>4 DEF FileState, SettingsSame
  <2> QED BY <1>1, <1>2, <1>3, <2>1, StagesEffect
<1>5. CASE files' = staged /\ Goto(op, "journal_db") /\ UNCHANGED failures
  <2>1. op' = "database" /\ step' = "journal_db" /\ intended' = intended
    BY <1>2, <1>5 DEF Goto
  <2>2. files'.configStage = intended /\ files'.envStage = intended.env
    BY ONLY <1>0, <1>3, <1>5 DEF FileState
  <2>3. Edited'
    BY <1>2, <1>4, <1>5, <2>1 DEF Edited
  <2>4. AtStep'
    BY ONLY <1>4, <1>5, <2>1, <2>2, <2>3 DEF AtStep, Ready, DatabaseSteps
  <2> QED BY <1>1, <1>2, <1>4, <1>5, <2>4, DatabaseProceeds
<1>6. ASSUME Release, NEW t \in BOOLEAN, Fail(t),
             files' \in LET g == IF t THEN staged ELSE files
                        IN  {g, [g EXCEPT !.envStage = None]}
      PROVE  Invariant'
  <2>1. files' \in {files, staged, [files EXCEPT !.envStage = None],
                    [staged EXCEPT !.envStage = None]}
    BY <1>6
  <2>2. files' \in FileState /\ Sound' /\ NoSettings' /\ (~late => Intact')
    BY <1>4, <2>1
  <2> HIDE DEF staged
  <2> QED BY <1>0, <1>1, <1>6, <2>2, CleansUp
<1> QED BY <1>5, <1>6 DEF StageConfig, FileStepOr

\* The journal is written; without it the stages are removed.
LEMMA WriteDatabaseJournalHolds ==
  ASSUME Invariant, WriteDatabaseJournal
  PROVE  Invariant'
<1> DEFINE written == [files EXCEPT !.dbJournal = intended.rev]
<1>0. files \in FileState /\ loaded \in [Procs -> Revs \cup {None}] /\ prepared \subseteq Revs
  BY Types DEF Invariant, RestTyped
<1>1. /\ step = "journal_db" /\ lock # None
      /\ UNCHANGED <<loaded, prepared, succeeded, nextRev>>
  BY DEF WriteDatabaseJournal, FileStepOr, At
<1>2. /\ NoSettings /\ Edited /\ op = "database" /\ intended.env \in Revs
      /\ intended \in Configuration /\ intended.rev < nextRev /\ intended.rev \in Revs
      /\ intended.rev # None /\ intended # None /\ intended.env # None
  BY <1>1, DatabaseStepFacts
<1>3. files.dbJournal = None /\ files.configStage = intended /\ files.envStage = intended.env
  BY <1>1 DEF Invariant, AtStep
<1>4. CASE files' = written /\ Goto(op, "publish_env") /\ UNCHANGED failures
  <2>1. op' = "database" /\ step' = "publish_env" /\ intended' = intended
    BY <1>2, <1>4 DEF Goto
  <2>2. /\ files' \in FileState /\ SettingsSame
        /\ files'.config = files.config /\ files'.env = files.env
        /\ files'.dbJournal = intended.rev /\ files'.configStage = intended
        /\ files'.envStage = intended.env
    BY ONLY <1>0, <1>2, <1>3, <1>4 DEF FileState, SettingsSame
  <2>3. NoSettings' /\ Edited' /\ Sound'
    BY <1>1, <1>2, <1>3, <2>1, <2>2, StagesEffect DEF Edited
  <2>4. Intact'
    BY <1>2, <2>2, <2>3 DEF Intact, NoSettings
  <2>5. AtStep'
    BY ONLY <2>1, <2>2, <2>3 DEF AtStep, Ready, DatabaseSteps
  <2> QED BY <1>1, <1>2, <1>4, <2>2, <2>3, <2>4, <2>5, DatabaseProceeds
<1>5. ASSUME Release, NEW t \in BOOLEAN, Fail(t),
             files' \in LET g == IF t THEN written ELSE files
                        IN  {g, [g EXCEPT !.envStage = None], [g EXCEPT !.configStage = None],
                             [g EXCEPT !.envStage = None, !.configStage = None]}
      PROVE  Invariant'
  <2>1. PICK g \in {written, files} :
          /\ files' \in {g, [g EXCEPT !.envStage = None], [g EXCEPT !.configStage = None],
                        [g EXCEPT !.envStage = None, !.configStage = None]}
          /\ ~t => g = files
    BY ONLY <1>5
  <2>2. /\ g \in FileState /\ g.config = files.config /\ g.env = files.env
        /\ g.journal = files.journal /\ g.original = files.original
        /\ g.published = files.published /\ g.configStage = intended
        /\ g = files => g.dbJournal = None
    BY ONLY <1>0, <1>2, <1>3, <2>1 DEF FileState
  <2> HIDE DEF written
  <2>3. /\ files' \in FileState /\ SettingsSame
        /\ files'.config = files.config /\ files'.env = files.env
        /\ files'.configStage \in {None, intended}
        /\ files'.dbJournal = g.dbJournal
    BY ONLY <2>1, <2>2 DEF FileState, SettingsSame
  <2>4. /\ Sound' /\ NoSettings'
        /\ (files'.dbJournal = None /\ files'.env = files.env /\ ~late) => Intact'
    BY <1>1, <1>2, <1>3, <2>3, StagesEffect
  <2>5. ~t => files'.dbJournal = None
    BY ONLY <2>1, <2>2, <2>3
  <2>6. ~t /\ ~late => Intact'
    BY ONLY <2>3, <2>4, <2>5
  <2> QED BY <1>0, <1>1, <1>5, <2>3, <2>4, <2>6, CleansUp
<1> QED BY <1>4, <1>5 DEF WriteDatabaseJournal, FileStepOr

\* The journaled update is rolled forward.
LEMMA CommitDatabaseHolds ==
  ASSUME Invariant, CommitDatabase
  PROVE  Invariant'
<1>0. files \in FileState /\ loaded \in [Procs -> Revs \cup {None}] /\ prepared \subseteq Revs
  BY Types DEF Invariant, RestTyped
<1>1. CASE PublishEnvironment
  <2> DEFINE f == [files EXCEPT !.env = files.envStage, !.envStage = None]
  <2>1. /\ step = "publish_env" /\ lock # None
        /\ UNCHANGED <<loaded, prepared, succeeded, nextRev>>
    BY <1>1 DEF PublishEnvironment, FileStep, FileStepOr, At
  <2>2. /\ NoSettings /\ Edited /\ op = "database" /\ intended.env \in Revs
        /\ intended \in Configuration /\ intended.rev < nextRev
        /\ intended.rev # None /\ intended # None
    BY <2>1, DatabaseStepFacts
  <2>3. /\ files.dbJournal = intended.rev /\ files.configStage = intended
        /\ files.envStage = intended.env
    BY <2>1 DEF Invariant, AtStep
  <2>4. ASSUME files' = f
        PROVE  /\ files' \in FileState /\ Sound' /\ Intact' /\ NoSettings'
               /\ files'.config = files.config /\ files'.dbJournal = intended.rev
               /\ files'.configStage = intended /\ files'.envStage = None
    <3>1. /\ files' \in FileState /\ SettingsSame
          /\ files'.config = files.config /\ files'.env = intended.env
          /\ files'.dbJournal = intended.rev /\ files'.configStage = intended
          /\ files'.envStage = None
      BY ONLY <1>0, <2>2, <2>3, <2>4 DEF FileState, SettingsSame
    <3>2. NoSettings'
      BY <2>2, <3>1 DEF NoSettings, SettingsSame
    <3>3. Sound'
      BY <2>1, <2>2, <3>1, <3>2 DEF Invariant, Sound, Edited, NoSettings
    <3>4. Intact'
      BY <2>2, <3>1, <3>2 DEF Intact, NoSettings
    <3> QED BY <3>1, <3>2, <3>3, <3>4
  <2> HIDE DEF f
  <2>5. CASE files' = f /\ Goto(op, "publish_config") /\ UNCHANGED failures
    <3>1. op' = "database" /\ step' = "publish_config" /\ intended' = intended
      BY <2>2, <2>5 DEF Goto
    <3>2. Edited'
      BY <2>2, <2>4, <2>5, <3>1 DEF Edited
    <3>3. AtStep'
      BY ONLY <2>4, <2>5, <3>1, <3>2 DEF AtStep, Ready, DatabaseSteps
    <3> QED BY <2>1, <2>2, <2>4, <2>5, <3>3, DatabaseProceeds
  <2>6. ASSUME ReconcileDb, NEW t \in BOOLEAN, Fail(t), files' = IF t THEN f ELSE files
        PROVE  Invariant'
    <3>1. files' \in FileState /\ Sound' /\ NoSettings' /\ (~t => files' = files)
      BY <1>0, <2>1, <2>2, <2>4, <2>6, SameFiles DEF Invariant
    <3> QED BY <2>1, <2>2, <2>6, <3>1, ReconcilesDatabase
  <2> QED BY <1>1, <2>5, <2>6 DEF PublishEnvironment, FileStep, FileStepOr, f
<1>2. CASE PublishConfig
  <2> DEFINE f == [files EXCEPT !.config = files.configStage, !.configStage = None]
  <2>1. /\ step = "publish_config" /\ lock # None
        /\ UNCHANGED <<loaded, prepared, succeeded, nextRev>>
    BY <1>2 DEF PublishConfig, FileStep, FileStepOr, At
  <2>2. /\ NoSettings /\ op = "database" /\ intended \in Configuration
        /\ intended.rev < nextRev /\ intended.rev # None /\ intended # None
    BY <2>1, DatabaseStepFacts
  <2>3. /\ files.dbJournal = intended.rev /\ files.configStage = intended
        /\ files.envStage = None
    BY <2>1 DEF Invariant, AtStep
  <2>4. ASSUME files' = f
        PROVE  /\ files' \in FileState /\ Sound' /\ (~late => Intact') /\ NoSettings'
               /\ files'.dbJournal = intended.rev
               /\ files'.configStage = None /\ files'.envStage = None
    <3>1. /\ files' \in FileState /\ SettingsSame
          /\ files'.config = intended /\ files'.env = files.env
          /\ files'.dbJournal = intended.rev /\ files'.configStage = None
          /\ files'.envStage = None
      BY ONLY <1>0, <2>2, <2>3, <2>4 DEF FileState, SettingsSame
    <3>2. NoSettings'
      BY <2>2, <3>1 DEF NoSettings, SettingsSame
    <3>3. Sound'
      BY <2>1, <2>2, <3>1, <3>2 DEF Sound, NoSettings
    <3>4. ~late => Intact'
      BY <2>2, <2>3, <3>1, <3>2 DEF Invariant, Intact, NoSettings
    <3> QED BY <3>1, <3>2, <3>3, <3>4
  <2> HIDE DEF f
  <2>5. CASE files' = f /\ Goto(op, "drop_db_journal") /\ UNCHANGED failures
    <3>1. op' = "database" /\ step' = "drop_db_journal" /\ intended' = intended
      BY <2>2, <2>5 DEF Goto
    <3>2. AtStep'
      BY ONLY <2>2, <2>4, <2>5, <3>1 DEF AtStep, Ready, DatabaseSteps
    <3> QED BY <2>1, <2>2, <2>4, <2>5, <3>2, DatabaseProceeds
  <2>6. ASSUME ReconcileDb, NEW t \in BOOLEAN, Fail(t), files' = IF t THEN f ELSE files
        PROVE  Invariant'
    <3>1. files' \in FileState /\ Sound' /\ NoSettings' /\ (~t => files' = files)
      BY <1>0, <2>1, <2>2, <2>4, <2>6, SameFiles DEF Invariant
    <3> QED BY <2>1, <2>2, <2>6, <3>1, ReconcilesDatabase
  <2> QED BY <1>2, <2>5, <2>6 DEF PublishConfig, FileStep, FileStepOr, f
<1>3. CASE DropDatabaseJournal
  <2> DEFINE f == [files EXCEPT !.dbJournal = None]
  <2>1. /\ step = "drop_db_journal" /\ lock # None
        /\ UNCHANGED <<loaded, prepared, succeeded, nextRev>>
    BY <1>3 DEF DropDatabaseJournal, FileStep, FileStepOr, At
  <2>2. NoSettings /\ op = "database" /\ files.configStage = None /\ files.envStage = None
        /\ files.dbJournal = intended.rev /\ intended \in Configuration
    BY <2>1 DEF Invariant, AtStep, Control, Ready
  <2>3. files.dbJournal # None
    BY <2>2, RevsAreNumbers
  <2>4. ASSUME files' = f
        PROVE  /\ files' \in FileState /\ Sound' /\ (~late => Intact')
               /\ NoSettings' /\ NoDatabase'
    <3>1. /\ files' \in FileState /\ SettingsSame
          /\ files'.config = files.config /\ files'.env = files.env
          /\ files'.dbJournal = None /\ files'.configStage = None /\ files'.envStage = None
      BY ONLY <1>0, <2>2, <2>4 DEF FileState, SettingsSame
    <3>2. NoSettings' /\ NoDatabase'
      BY <2>2, <3>1 DEF NoSettings, NoDatabase, SettingsSame
    <3>3. Sound'
      BY <2>1, <3>1, <3>2 DEF Invariant, Sound, NoSettings
    <3>4. ~late => Intact'
      BY <2>2, <2>3, <3>1, <3>2 DEF Invariant, Intact, NoSettings
    <3> QED BY <3>1, <3>2, <3>3, <3>4
  <2> HIDE DEF f
  <2>5. CASE files' = f /\ Goto(op, "recorded") /\ UNCHANGED failures
    <3>1. op' = "database" /\ step' = "recorded" /\ intended' = intended
      BY <2>2, <2>5 DEF Goto
    <3>2. AtStep'
      BY ONLY <2>2, <2>4, <2>5, <3>1 DEF AtStep, Ready, DatabaseSteps
    <3> QED BY <2>1, <2>2, <2>4, <2>5, <3>2, DatabaseProceeds
  <2>6. ASSUME ReconcileDb, NEW t \in BOOLEAN, Fail(t), files' = IF t THEN f ELSE files
        PROVE  Invariant'
    <3>1. files' \in FileState /\ Sound' /\ NoSettings' /\ (~t => files' = files)
      BY <1>0, <2>1, <2>2, <2>4, <2>6, SameFiles DEF Invariant
    <3> QED BY <2>1, <2>2, <2>6, <3>1, ReconcilesDatabase
  <2> QED BY <1>3, <2>5, <2>6 DEF DropDatabaseJournal, FileStep, FileStepOr, f
<1> QED BY <1>1, <1>2, <1>3 DEF CommitDatabase

-----------------------------------------------------------------------------
\* The end of a local update.
LEMMA RecordSucceededHolds ==
  ASSUME Invariant, RecordSucceeded
  PROVE  Invariant'
<1>1. /\ step = "recorded" /\ lock # None /\ Release /\ UNCHANGED <<files, prepared, nextRev>>
      /\ loaded' = [loaded EXCEPT ![lock] = files.config.rev]
      /\ \/ succeeded' = succeeded \cup {intended.rev} /\ UNCHANGED failures
         \/ Fail(FALSE) /\ UNCHANGED succeeded
  BY DEF RecordSucceeded, At, Disrupt
<1>2. NoSettings /\ intended \in Configuration
  BY <1>1 DEF Invariant, AtStep
<1>3. /\ files.config.rev \in Revs /\ intended.rev \in Revs /\ files \in FileState
      /\ intended.rev < nextRev /\ RestTyped
  BY <1>2, Types, FieldTypes, RevsAreNumbers DEF Invariant, Numbered
<1>4. loaded' \in [Procs -> Revs \cup {None}] /\ prepared' \subseteq Revs
  BY <1>1, <1>3 DEF RestTyped
<1>5. NoSettings' /\ Sound' /\ (~late => Intact')
  BY <1>1, <1>2, SameFiles DEF Invariant
<1>6. CASE Fail(FALSE) /\ UNCHANGED succeeded
  BY <1>1, <1>3, <1>4, <1>5, <1>6, GivesUp
<1>7. CASE succeeded' = succeeded \cup {intended.rev} /\ UNCHANGED failures
  <2>1. RestTyped'
    BY <1>1, <1>3, <1>4, <1>7 DEF RestTyped, Release, failures
  <2>2. TypeOK'
    BY <1>1, <1>3, <2>1, TypesNext
  <2>3. intended' = None
    BY <1>1 DEF Release
  <2>4. Numbered'
    BY <1>1, <1>3, <1>7, <2>3 DEF Invariant, Numbered
  <2> QED BY <1>1, <1>5, <1>7, <2>2, <2>4, NobodyWorks, NothingToKeep DEF Invariant, failures
<1> QED BY <1>1, <1>6, <1>7

\* Every step keeps the invariant.
LEMMA StepHolds ==
  ASSUME Invariant, [Next]_vars
  PROVE  Invariant'
<1>1. CASE HolderStep
  BY <1>1, RecoverDatabaseHolds, RecoverSettingsHolds, RestoreOriginalHolds, DropPublishedHolds,
     DropJournalHolds, DropOriginalHolds, CheckHolds, RecordHolds, WriteOriginalHolds,
     WriteJournalHolds, PublishHolds, MarkPublishedHolds, AuditSucceededHolds, CompleteHolds,
     ReplaceConfigHolds, StageEnvironmentHolds, StageConfigHolds, WriteDatabaseJournalHolds,
     CommitDatabaseHolds, RecordSucceededHolds
     DEF HolderStep, CleanupTransactionFiles, BeginSettings, BeginDatabase
<1>2. CASE Crash
  BY <1>2, CrashHolds
<1>3. CASE GetServerSettings \/ UpdateServerSettings \/ (\E p \in Locals : Edit(p))
  BY <1>3, OpenHolds
<1>4. ASSUME NEW p \in Procs, Open(p) PROVE Invariant'
  BY <1>4, OpenHolds, LoadHolds DEF Open
<1>5. CASE UNCHANGED vars
  BY <1>5 DEF vars, Invariant, TypeOK, Control, AtStep, Sound, Numbered, Intact, Kept, Vouched,
              NoDatabase, NoSettings, Edited, Unrecorded
<1> QED BY <1>1, <1>2, <1>3, <1>4, <1>5 DEF Next

\* What the holder relies on, and what the files alone say, always hold.
THEOREM ConfigInvariant == Spec => []Invariant
<1>1. Init => Invariant
  BY InitHolds
<1>2. Invariant /\ [Next]_vars => Invariant'
  BY StepHolds
<1> QED BY <1>1, <1>2, PTL DEF Spec

\* Every value stays in its type.
THEOREM ConfigTypes == Spec => []TypeOK
<1>1. Invariant => TypeOK
  BY DEF Invariant
<1> QED BY <1>1, ConfigInvariant, PTL

\* The environment file of a configuration at rest is the one it was published
\* with, wherever a database update was interrupted.
THEOREM ConfigPair == Spec => []PairAtRest
<1>1. Invariant => PairAtRest
  BY DEF Invariant, Intact, PairAtRest
<1> QED BY <1>1, ConfigInvariant, PTL

\* Neither recovery ever bails out: whatever was interrupted left it the stage,
\* the copy or the marker it needs.
THEOREM ConfigRecoverable == Spec => []RecoverySucceeds
<1>1. Invariant => RecoverySucceeds
  BY DEF Invariant, Intact, RecoverySucceeds, DatabaseRefused, SettingsRefused
<1> QED BY <1>1, ConfigInvariant, PTL

-----------------------------------------------------------------------------
\* The configuration moves in three ways.
Forward == files.configStage # None /\ files'.config = files.configStage
Backward == step = "restore" /\ files.original # None /\ files'.config = files.original
Replacing == Edited /\ files'.config = intended
Moves == files'.config = files.config \/ Forward \/ Backward \/ Replacing

\* A file operation leaves the files as they were or as it meant to.
LEMMA OneOrOther ==
  ASSUME NEW s, NEW f, NEW ok, NEW bad, FileStep(s, f, ok, bad)
  PROVE  step = s /\ (files' = f \/ files' = files)
  BY DEF FileStep, FileStepOr, At

\* No other operation touches it.
LEMMA ConfigMoves ==
  ASSUME Invariant, [Next]_vars
  PROVE  Moves
<1>0. files \in FileState
  BY Types DEF Invariant
<1>1. CASE files' = files
  BY <1>1 DEF Moves
<1>2. CASE RecoverDatabase
  <2>1. files' = files \/ files' = DatabaseRecoveryStep
    BY <1>2, OneOrOther DEF RecoverDatabase
  <2>2. ASSUME files' = DatabaseRecoveryStep PROVE Moves
    BY <1>0, <2>2 DEF DatabaseRecoveryStep, FileState, Moves, Forward
  <2> QED BY <1>1, <2>1, <2>2
<1>3. CASE RecoverSettings
  BY <1>0, <1>3 DEF RecoverSettings, DecideInterrupted, FileStep, FileStepOr, RetireCommitted, FileState, Moves
<1>4. CASE RestoreOriginal
  <2>1. step = "restore" /\ (files' = files \/ files' = [files EXCEPT !.config = files.original])
    BY <1>4, OneOrOther DEF RestoreOriginal
  <2>2. files.original # None
    BY <2>1 DEF Invariant, AtStep
  <2> QED BY <1>0, <2>1, <2>2 DEF FileState, Moves, Backward
<1>5. CASE CleanupTransactionFiles
  BY <1>0, <1>5 DEF CleanupTransactionFiles, DropPublished, DropJournal, DropOriginal, FileStep, FileStepOr,
                    FileState, Moves
<1>6. CASE Check \/ AuditPrepare \/ RecordPending \/ AuditSucceeded \/ RecordSucceeded
  BY <1>1, <1>6 DEF Check, CheckCurrent, CheckFails, AuditPrepare, RecordPending, Recorded, NotRecorded,
                    AuditSucceeded, RecordSucceeded
<1>7. CASE BeginSettings
  BY <1>0, <1>7 DEF BeginSettings, WriteOriginal, WriteJournal, FileStep, FileStepOr, FileState, Moves
<1>8. CASE Publish \/ ReplaceConfig
  <2>1. step \in {"publish", "replace"} /\ (files' = files \/ files' = [files EXCEPT !.config = intended])
    BY <1>8, OneOrOther DEF Publish, ReplaceConfig
  <2>2. Edited
    BY <2>1 DEF Invariant, AtStep, Ready
  <2> QED BY <1>0, <2>1, <2>2 DEF FileState, Moves, Replacing
<1>9. CASE MarkPublished \/ Complete
  BY <1>0, <1>9 DEF MarkPublished, Complete, CompleteJournal, CompleteOriginal, CompletePublished, FileStep,
                    FileStepOr, FileState, Moves
<1>10. CASE BeginDatabase
  BY <1>0, <1>10 DEF BeginDatabase, StageEnvironment, StageConfig, WriteDatabaseJournal, FileStep, FileStepOr,
                     FileState, Moves
<1>11. CASE PublishEnvironment \/ DropDatabaseJournal
  BY <1>0, <1>11 DEF PublishEnvironment, DropDatabaseJournal, FileStep, FileStepOr, FileState, Moves
<1>12. CASE PublishConfig
  <2>1. /\ step = "publish_config"
        /\ files' = files \/ files' = [files EXCEPT !.config = files.configStage, !.configStage = None]
    BY <1>12, OneOrOther DEF PublishConfig
  <2>2. files.configStage # None
    BY <2>1, DatabaseStepFacts DEF Invariant, AtStep
  <2> QED BY <1>0, <2>1, <2>2 DEF FileState, Moves, Forward
<1>13. CASE Crash \/ UNCHANGED vars \/ GetServerSettings \/ UpdateServerSettings
  BY <1>1, <1>13 DEF Crash, vars, GetServerSettings, UpdateServerSettings, Acquire
<1>14. ASSUME NEW p, Open(p) \/ Edit(p) PROVE Moves
  BY <1>1, <1>14 DEF Open, Edit, StartupDatabase, StartupSettings, Load, SaveConfig, ConfigureDatabase, Acquire
<1> QED BY <1>2, <1>3, <1>4, <1>5, <1>6, <1>7, <1>8, <1>9, <1>10, <1>11, <1>12, <1>13, <1>14
        DEF Next, HolderStep, CommitDatabase

\* An update only replaces the revision it was made from, and a rollback only
\* returns to that one: no edit is lost to a concurrent one.
THEOREM ConfigStepwise == Spec => StepwiseHistory
<1>1. Invariant /\ [Next]_vars =>
        [files'.config # files.config =>
           \/ files'.config.base = files.config.rev
           \/ files'.config.rev = files.config.base]_files
  BY ConfigMoves DEF Moves, Forward, Backward, Replacing, Edited, Invariant, Sound
<1> QED BY <1>1, ConfigInvariant, PTL DEF Spec, StepwiseHistory

\* One interruption or failed operation never undoes an update whose success
\* is on record.
THEOREM ConfigKept == Spec => SucceededIsKept
<1>1. ASSUME Invariant, Moves, files.config.rev \in succeeded /\ disruptions <= 1 /\ ~late
      PROVE  files'.config.rev >= files.config.rev
  <2>1. files.config.rev \in Nat
    BY <1>1, Types, FieldTypes, RevsAreNumbers DEF Invariant
  <2>2. CASE files'.config = files.config
    BY <2>1, <2>2
  <2>3. CASE Forward
    <3>1. files'.config \in Configuration /\ files.config.rev < files'.config.rev
      BY <1>1, <2>3, Types, FieldTypes DEF Forward, Invariant, Sound
    <3> QED BY <2>1, <3>1, RevsAreNumbers
  <2>4. CASE Backward
    <3>1. files.journal # None /\ step = "restore" /\ Kept
      BY <1>1, <2>4 DEF Backward, Invariant, AtStep
    <3>2. files.original = files.config
      BY <1>1, <3>1 DEF Kept
    <3> QED BY <2>1, <2>4, <3>2 DEF Backward
  <2>5. CASE Replacing
    <3>1. files'.config \in Configuration /\ files.config.rev < files'.config.rev
      BY <2>5 DEF Replacing, Edited
    <3> QED BY <2>1, <3>1, RevsAreNumbers
  <2> QED BY <1>1, <2>2, <2>3, <2>4, <2>5 DEF Moves
<1>2. Invariant /\ [Next]_vars =>
        [files.config.rev \in succeeded /\ disruptions <= 1 /\ ~late =>
           files'.config.rev >= files.config.rev]_files
  BY <1>1, ConfigMoves
<1> QED BY <1>2, ConfigInvariant, PTL DEF Spec, SucceededIsKept
=============================================================================
