------------------------- MODULE InstallationProofs -------------------------
(***************************************************************************)
(* Proofs about Installation, for any number of setups, faults and servers *)
(* and any choice of databases: what is committed stays whole, what is     *)
(* retired is clean, the host is not stranded, a reset can be resumed, a   *)
(* server is not taken apart, and a foreign database is kept.              *)
(*                                                                         *)
(* The invariant has three parts.  World relates the disk, PostgreSQL and  *)
(* the journals, whoever is running.  CommandOK says what the command may  *)
(* rely on at each of its steps, and ServerOK what a server relies on.     *)
(*                                                                         *)
(* The second part is about PkiRotation, for any operators, rotations,     *)
(* crashes and failures: certificates and keys fit together at rest, and   *)
(* rollback material goes only when the leaf on disk is in use.            *)
(***************************************************************************)
EXTENDS Installation, PkiRotation, TLAPS

world == <<files, dir, litter, roles, db, mode, setupJournal, nukeJournal,
           status, attempts>>

SetupSteps == {"role", "create", "comment", "material", "key", "env", "marker",
               "config", "migrate", "adminKey", "commit", "dropNew", "undoFiles"}

CleanSteps == {"cleanDatabase", "cleanRole", "cleanFiles", "cleanJournal"}

Commands ==
    [pc : SetupSteps \cup CleanSteps \cup ResetSteps
          \cup {"idle", "fresh", "begin", "retire", "rollback", "nuke"},
     instance : 0..MaxAttempts,
     failed : BOOLEAN,
     next : {"idle", "fresh"}]

Types ==
    /\ TypeOK
    /\ mode \in [Instances -> {"unset", "managed", "external"}]
    /\ cmd \in Commands
    /\ server \in [pc : {"off", "retiring", "checked", "loaded", "locked", "up"},
                   instance : 0..MaxAttempts, since : 0..MaxAttempts]

----------------------------------------------------------------------------
(***************************************************************************)
(* The world.                                                              *)
(***************************************************************************)

\* Every file is the latest setup's; without the directory there is nothing
\* in it.
FilesOK ==
    /\ \A o \in Outputs : files[o] \in {0, attempts}
    /\ ~dir => DataRootIsEmpty

\* The database of a managed instance is its own and has its role.
DatabasesOK ==
    /\ \A n \in 0..MaxAttempts : db[n].state = "none" => db[n] = NoDatabase
    /\ \A i \in Instances : db[i].state # "none" => db[i].by = i /\ i \in roles
    /\ \A i \in roles : mode[i] = "managed"

\* An instance whose journal was never written has left no trace.
UnusedOK ==
    \A i \in Instances :
        /\ i > attempts => status[i] = "unused"
        /\ status[i] = "unused" =>
              i \notin roles /\ db[0].by # i /\ \A o \in Outputs : files[o] # i

HasFiles(i) == \A o \in Outputs \ {"key"} : files[o] = i

Dropped(i) == ~(Owned(i) /\ db[Name(i)].state # "none")

\* Nothing is left of an instance, but for what RetiredIsClean leaves out.
Clean(i) ==
    /\ i \notin roles
    /\ \A o \in Outputs \ {"key"} : files[o] # i
    /\ status[i] = "begun" => files["key"] # i
    /\ mode[i] = "managed" \/ status[i] = "authorized" => Dropped(i)

\* Only the latest setup can be committed, and it is whole; what is begun or
\* being reset is clean or has a journal.
KnownOK ==
    \A i \in Instances :
        /\ status[i] = "committed" => i = attempts /\ Whole(i)
        /\ status[i] = "begun" =>
              Clean(i) \/ (setupJournal.phase = "provisioning" /\ i = attempts)
        /\ status[i] = "authorized" =>
              Clean(i) \/ (nukeJournal.phase # "none" /\ nukeJournal.instance = i)

SetupJournalOK ==
    /\ setupJournal.phase = "none" => setupJournal = NoJournal
    /\ setupJournal.phase # "none" => setupJournal.instance = attempts /\ attempts # 0
    /\ setupJournal.phase = "provisioning" => status[attempts] = "begun" /\ dir
    /\ setupJournal.phase = "committed" => status[attempts] = "committed"

\* An authorized reset has taken nothing but the database.  One that dropped
\* it took the role before any file, and the marker after all else.
NukeJournalOK ==
    /\ nukeJournal.phase = "none" => nukeJournal = NoJournal
    /\ nukeJournal.phase # "none" =>
          nukeJournal.instance \in 1..attempts /\ status[nukeJournal.instance] = "authorized"
    /\ nukeJournal.phase = "authorized" =>
          /\ nukeJournal.instance = attempts
          /\ HasFiles(attempts)
          /\ dir
          /\ mode[attempts] = "managed" => attempts \in roles
          /\ DatabaseVerifies(attempts) \/ db[Name(attempts)] = NoDatabase
    /\ nukeJournal.phase = "dropped" =>
          /\ Dropped(nukeJournal.instance)
          /\ nukeJournal.instance \in roles =>
                nukeJournal.instance = attempts /\ HasFiles(attempts)
          /\ nukeJournal.instance = attempts =>
                files["marker"] = attempts \/ DataRootIsEmpty

World ==
    /\ FilesOK
    /\ DatabasesOK
    /\ UnusedOK
    /\ KnownOK
    /\ SetupJournalOK
    /\ NukeJournalOK

----------------------------------------------------------------------------
(***************************************************************************)
(* The command.                                                            *)
(***************************************************************************)

\* The steps of a setup after it wrote its configuration.
AllWritten ==
    \/ cmd.pc \in {"migrate", "adminKey", "commit"}
    \/ cmd.pc \in {"create", "comment"} /\ ~Managed

SetupOK ==
    /\ cmd.pc \in SetupSteps \cup CleanSteps \cup {"retire", "rollback"} =>
          cmd.instance = attempts /\ attempts # 0
    /\ cmd.pc \in SetupSteps \cup CleanSteps => setupJournal.phase = "provisioning"
    /\ cmd.pc = "retire" => status[attempts] = "committed"
    /\ cmd.pc = "rollback" =>
          setupJournal.phase = "provisioning" \/ status[attempts] = "committed"
    /\ cmd.pc \in {"fresh", "begin"} => setupJournal = NoJournal
    /\ cmd.pc = "begin" =>
          cmd.instance = attempts + 1 /\ dir /\ \A o \in Outputs : files[o] = 0

\* What a setup has done when it comes to a step.
DoneOK ==
    /\ cmd.pc = "role" => Managed
    /\ cmd.pc \in SetupSteps \ {"role", "dropNew", "undoFiles"} /\ Managed =>
          cmd.instance \in roles
    /\ cmd.pc \in {"key", "env", "marker", "config"} \/ AllWritten =>
          files["material"] = cmd.instance
    /\ cmd.pc \in {"marker", "config"} \/ AllWritten => files["env"] = cmd.instance
    /\ cmd.pc = "config" \/ AllWritten => files["marker"] = cmd.instance
    /\ AllWritten => files["config"] = cmd.instance
    /\ cmd.pc \in {"comment", "migrate", "dropNew"} /\ ~Managed => Owned(cmd.instance)
    /\ cmd.pc = "dropNew" => ~Managed
    /\ cmd.pc \in {"adminKey", "commit"} => DatabaseVerifies(cmd.instance)

CleanOK ==
    /\ cmd.pc = "cleanRole" => Managed /\ Dropped(cmd.instance)
    /\ cmd.pc \in {"cleanFiles", "cleanJournal"} /\ ~cmd.failed =>
          cmd.instance \notin roles /\ (Managed => Dropped(cmd.instance))
    /\ cmd.pc = "cleanJournal" /\ ~cmd.failed => \A o \in Outputs : files[o] = 0

Finishing == {"dropRole", "nukeFiles", "nukeData", "nukeMarker", "nukeDir", "nukeEnd"}

NukeOK ==
    /\ cmd.pc \in ResetSteps \cup {"nuke"} => setupJournal = NoJournal
    /\ cmd.pc = "authorize" =>
          /\ nukeJournal = NoJournal
          /\ cmd.instance = attempts
          /\ attempts # 0
          /\ status[attempts] = "committed"
    /\ cmd.pc \in ResetSteps \ {"authorize"} =>
          nukeJournal.instance = cmd.instance /\ status[attempts] # "committed"
    /\ cmd.pc \in {"dropDatabase", "recordDrop"} => nukeJournal.phase = "authorized"
    /\ cmd.pc = "recordDrop" => db[Name(cmd.instance)] = NoDatabase
    /\ cmd.pc \in Finishing => nukeJournal.phase = "dropped"
    /\ cmd.pc \in Finishing \ {"dropRole"} => cmd.instance \notin roles
    /\ cmd.pc \in Finishing \ {"dropRole", "nukeFiles"} /\ ~cmd.failed =>
          files["env"] # cmd.instance /\ files["config"] # cmd.instance
    /\ cmd.pc = "nukeMarker" => files["material"] = 0 /\ ~litter
    /\ cmd.pc = "nukeDir" => DataRootIsEmpty
    /\ cmd.pc = "nukeEnd" /\ ~cmd.failed =>
          files["material"] # cmd.instance /\ files["marker"] # cmd.instance

CommandOK == SetupOK /\ DoneOK /\ CleanOK /\ NukeOK

\* A server whose command looked for a journal after the latest setup began
\* found that setup finished, and a reset waits for its lock.
ServerOK ==
    /\ server.since <= attempts
    /\ server.pc # "off" /\ server.since = attempts => setupJournal.phase # "provisioning"
    /\ server.pc \in {"loaded", "locked", "up"} => server.instance \in 1..attempts
    /\ ~(ServerHoldsLock /\ ResetHoldsLock)
    /\ server.pc = "up" /\ server.instance <= server.since =>
          server.instance = attempts /\ Whole(attempts)

Inv == Types /\ World /\ CommandOK /\ ServerOK

----------------------------------------------------------------------------
(***************************************************************************)
(* Lemmas about the world.                                                 *)
(***************************************************************************)

\* A step that leaves the world alone keeps what is known of it.
LEMMA WorldUnchanged ==
    ASSUME World, UNCHANGED world
    PROVE  World'
BY DEF world, World, FilesOK, DataRootIsEmpty, DatabasesOK, UnusedOK, KnownOK, Clean,
       Dropped, Owned, Name, Whole, DatabaseVerifies, SetupJournalOK, NukeJournalOK,
       HasFiles, NoJournal, NoDatabase

\* While a setup is provisioning it may write and remove its files.
LEMMA SetupFiles ==
    ASSUME Types, World,
           setupJournal.phase = "provisioning",
           files' \in [Outputs -> {0, attempts}],
           UNCHANGED <<dir, roles, db, mode, setupJournal, nukeJournal, status, attempts>>
    PROVE  World'
<1>1. /\ attempts \in Instances
      /\ status[attempts] = "begun"
      /\ dir
  BY DEF Types, TypeOK, World, SetupJournalOK, Instances
<1>2. FilesOK'
  BY <1>1 DEF FilesOK
<1>3. DatabasesOK'
  BY DEF World, DatabasesOK, NoDatabase
<1>4. UnusedOK'
  BY <1>1 DEF World, UnusedOK, Instances
<1>5. KnownOK'
  BY <1>1 DEF World, KnownOK, Clean, Whole, Dropped, Owned, Name, DatabaseVerifies, Instances,
              Outputs
<1>6. SetupJournalOK'
  BY DEF World, SetupJournalOK, NoJournal
<1>7. NukeJournalOK'
  BY <1>1 DEF World, NukeJournalOK, Dropped, Owned, Name, NoJournal
<1> QED
  BY <1>2, <1>3, <1>4, <1>5, <1>6, <1>7 DEF World

\* A reset that dropped database and role may remove files, the marker after
\* all else in the directory, and the directory after the marker.
LEMMA ResetFiles ==
    ASSUME Types, World,
           nukeJournal.phase = "dropped",
           nukeJournal.instance \notin roles,
           status[attempts] # "committed",
           setupJournal = NoJournal,
           \A o \in Outputs : files'[o] \in {0, files[o]},
           litter' => litter,
           ~dir' => ~dir \/ DataRootIsEmpty',
           nukeJournal.instance = attempts => files'["marker"] = attempts \/ DataRootIsEmpty',
           UNCHANGED <<roles, db, mode, setupJournal, nukeJournal, status, attempts>>
    PROVE  World'
<1>1. /\ attempts \in Nat
      /\ nukeJournal.instance \in Instances
      /\ status[nukeJournal.instance] = "authorized"
  BY DEF Types, TypeOK, World, NukeJournalOK, Instances
<1>2. FilesOK'
  BY DEF World, FilesOK, DataRootIsEmpty, Outputs
<1>3. DatabasesOK'
  BY DEF World, DatabasesOK, NoDatabase
<1>4. UnusedOK'
  BY DEF World, UnusedOK, Instances
<1>5. KnownOK'
  BY DEF World, KnownOK, Clean, Whole, Dropped, Owned, Name, DatabaseVerifies, Instances,
         NoJournal, Outputs
<1>6. SetupJournalOK'
  BY DEF World, SetupJournalOK, NoJournal
<1>7. NukeJournalOK'
  BY <1>1 DEF World, NukeJournalOK, Dropped, Owned, Name, NoJournal
<1> QED
  BY <1>2, <1>3, <1>4, <1>5, <1>6, <1>7 DEF World

\* While a setup is provisioning it may create, change and drop the database
\* of its name.
LEMMA SetupDatabase ==
    ASSUME Types, World,
           setupJournal.phase = "provisioning",
           NEW d \in [by : 0..MaxAttempts, state : {"none", "bare", "marked", "ready"}],
           d = NoDatabase \/ (d.by = attempts /\ d.state # "none"),
           d # NoDatabase /\ mode[attempts] = "managed" => attempts \in roles,
           db' = [db EXCEPT ![Name(attempts)] = d],
           UNCHANGED <<files, dir, litter, roles, mode, setupJournal, nukeJournal, status,
                       attempts>>
    PROVE  World'
<1>1. /\ attempts \in Instances
      /\ status[attempts] = "begun"
      /\ Name(attempts) \in {0, attempts}
      /\ Name(attempts) = attempts <=> mode[attempts] = "managed"
  BY DEF Types, TypeOK, World, SetupJournalOK, Instances, Name
<1>2. FilesOK'
  BY DEF World, FilesOK, DataRootIsEmpty
<1>a. db \in [0..MaxAttempts -> [by : 0..MaxAttempts,
                                  state : {"none", "bare", "marked", "ready"}]]
  BY DEF Types, TypeOK
<1>b. \A n \in 0..MaxAttempts : db'[n] = IF n = Name(attempts) THEN d ELSE db[n]
  BY <1>1, <1>a DEF Instances
<1>3. DatabasesOK'
  BY <1>1, <1>a, <1>b DEF World, DatabasesOK, NoDatabase, Instances
<1>4. UnusedOK'
  BY <1>1, <1>a, <1>b DEF World, UnusedOK, Instances, NoDatabase
<1>5. ASSUME NEW i \in Instances, i # attempts, Dropped(i)
      PROVE  Dropped(i)'
  BY <1>1, <1>a, <1>b, <1>5 DEF Dropped, Owned, Name, NoDatabase, Instances
<1>6. KnownOK'
  <2> SUFFICES ASSUME NEW i \in Instances
               PROVE  /\ (status[i] = "committed" => i = attempts /\ Whole(i))'
                      /\ (status[i] = "begun" =>
                           Clean(i) \/ (setupJournal.phase = "provisioning" /\ i = attempts))'
                      /\ (status[i] = "authorized" =>
                           Clean(i) \/ (nukeJournal.phase # "none" /\ nukeJournal.instance = i))'
    BY DEF KnownOK
  <2>1. CASE i = attempts
    BY <1>1, <2>1
  <2>2. CASE i # attempts
    <3>1. Clean(i) => Clean(i)'
      BY <1>5, <2>2 DEF Clean
    <3> QED
      BY <3>1, <2>2 DEF World, KnownOK
  <2> QED
    BY <2>1, <2>2
<1>7. SetupJournalOK'
  BY DEF World, SetupJournalOK, NoJournal
<1>8. NukeJournalOK'
  <2>1. nukeJournal.phase # "authorized"
    BY <1>1 DEF World, NukeJournalOK
  <2>2. ASSUME nukeJournal.phase = "dropped"
        PROVE  Dropped(nukeJournal.instance)'
    <3>1. /\ nukeJournal.instance \in Instances
          /\ nukeJournal.instance # attempts
          /\ Dropped(nukeJournal.instance)
      BY <1>1, <2>2, InstallationBounds DEF World, NukeJournalOK, Instances
    <3>2. PICK k \in Instances : k = nukeJournal.instance
      BY <3>1
    <3>3. Dropped(k)'
      BY <1>5, <3>1, <3>2
    <3> QED
      BY <3>2, <3>3
  <2> QED
    BY <2>1, <2>2 DEF World, NukeJournalOK, NoJournal, HasFiles, DataRootIsEmpty
<1> QED
  BY <1>2, <1>3, <1>4, <1>6, <1>7, <1>8 DEF World

\* An authorized reset may drop the database of its instance.
LEMMA ResetDatabase ==
    ASSUME Types, World,
           nukeJournal.phase = "authorized",
           db' = [db EXCEPT ![Name(attempts)] = NoDatabase],
           UNCHANGED <<files, dir, litter, roles, mode, setupJournal, nukeJournal, status,
                       attempts>>
    PROVE  World' /\ db'[Name(attempts)] = NoDatabase
<1>1. /\ attempts \in Instances
      /\ nukeJournal.instance = attempts
      /\ status[attempts] = "authorized"
      /\ Name(attempts) \in {0, attempts}
      /\ Name(attempts) = attempts <=> mode[attempts] = "managed"
  BY DEF Types, TypeOK, World, NukeJournalOK, Instances, Name
<1>a. db \in [0..MaxAttempts -> [by : 0..MaxAttempts,
                                  state : {"none", "bare", "marked", "ready"}]]
  BY DEF Types, TypeOK
<1>b. \A n \in 0..MaxAttempts : db'[n] = IF n = Name(attempts) THEN NoDatabase ELSE db[n]
  BY <1>1, <1>a DEF Instances, NoDatabase
<1>2. FilesOK'
  BY DEF World, FilesOK, DataRootIsEmpty
<1>3. DatabasesOK'
  BY <1>1, <1>a, <1>b DEF World, DatabasesOK, NoDatabase, Instances
<1>4. UnusedOK'
  BY <1>1, <1>a, <1>b DEF World, UnusedOK, Instances, NoDatabase
<1>5. ASSUME NEW i \in Instances, Dropped(i)
      PROVE  Dropped(i)'
  BY <1>1, <1>a, <1>b, <1>5 DEF Dropped, Owned, Name, NoDatabase, Instances
<1>6. KnownOK'
  <2> SUFFICES ASSUME NEW i \in Instances
               PROVE  /\ (status[i] = "committed" => i = attempts /\ Whole(i))'
                      /\ (status[i] = "begun" =>
                           Clean(i) \/ (setupJournal.phase = "provisioning" /\ i = attempts))'
                      /\ (status[i] = "authorized" =>
                           Clean(i) \/ (nukeJournal.phase # "none" /\ nukeJournal.instance = i))'
    BY DEF KnownOK
  <2>1. CASE i = attempts
    BY <1>1, <2>1
  <2>2. CASE i # attempts
    <3>1. Clean(i) => Clean(i)'
      BY <1>5, <2>2 DEF Clean
    <3> QED
      BY <3>1, <2>2 DEF World, KnownOK
  <2> QED
    BY <2>1, <2>2
<1>7. SetupJournalOK'
  BY DEF World, SetupJournalOK, NoJournal
<1>8. db'[Name(attempts)] = NoDatabase
  BY <1>1, <1>b, InstallationBounds DEF Instances
<1>9. NukeJournalOK'
  BY <1>1, <1>8 DEF World, NukeJournalOK, NoJournal, HasFiles, Name
<1> QED
  BY <1>2, <1>3, <1>4, <1>6, <1>7, <1>8, <1>9 DEF World

\* While a managed setup is provisioning it may create its role.
LEMMA SetupRole ==
    ASSUME Types, World,
           setupJournal.phase = "provisioning",
           mode[attempts] = "managed",
           roles' = roles \cup {attempts},
           UNCHANGED <<files, dir, litter, db, mode, setupJournal, nukeJournal, status,
                       attempts>>
    PROVE  World'
<1>1. /\ attempts \in Instances
      /\ status[attempts] = "begun"
  BY DEF Types, TypeOK, World, SetupJournalOK, Instances
<1>2. FilesOK'
  BY DEF World, FilesOK, DataRootIsEmpty
<1>3. DatabasesOK'
  BY <1>1 DEF World, DatabasesOK, NoDatabase
<1>4. UnusedOK'
  BY <1>1 DEF World, UnusedOK, Instances
<1>5. KnownOK'
  BY <1>1 DEF World, KnownOK, Clean, Dropped, Owned, Name
<1>6. SetupJournalOK'
  BY DEF World, SetupJournalOK, NoJournal
<1>7. NukeJournalOK'
  BY <1>1 DEF World, NukeJournalOK, NoJournal, Dropped, Owned, Name, DataRootIsEmpty
<1> QED
  BY <1>2, <1>3, <1>4, <1>5, <1>6, <1>7 DEF World

\* Once the database of an instance is dropped, its role may go, by the
\* cleanup of a setup or by a reset that recorded the drop.
LEMMA RoleGoes ==
    ASSUME Types, World,
           NEW k \in Instances, Dropped(k), status[k] # "committed",
           nukeJournal.phase = "authorized" => k # nukeJournal.instance,
           roles' = roles \ {k},
           UNCHANGED <<files, dir, litter, db, mode, setupJournal, nukeJournal, status,
                       attempts>>
    PROVE  World'
<1>1. k \in roles => db[k].state = "none"
  BY DEF World, DatabasesOK, Dropped, Owned, Name
<1>2. FilesOK'
  BY DEF World, FilesOK, DataRootIsEmpty
<1>3. DatabasesOK'
  BY <1>1 DEF World, DatabasesOK, NoDatabase
<1>4. UnusedOK'
  BY DEF World, UnusedOK, Instances
<1>5. KnownOK'
  BY DEF World, KnownOK, Clean, Whole, Dropped, Owned, Name, DatabaseVerifies
<1>6. SetupJournalOK'
  BY DEF World, SetupJournalOK, NoJournal
<1>7. NukeJournalOK'
  BY DEF World, NukeJournalOK, NoJournal, Dropped, Owned, Name, DataRootIsEmpty, HasFiles,
         DatabaseVerifies
<1> QED
  BY <1>2, <1>3, <1>4, <1>5, <1>6, <1>7 DEF World

----------------------------------------------------------------------------
(***************************************************************************)
(* Lemmas about the command, the server and types.                         *)
(***************************************************************************)

\* Goto moves the command and changes nothing else of it.
LEMMA GotoMoves ==
    ASSUME cmd \in Commands, NEW there, Goto(there)
    PROVE  /\ cmd'.pc = there
           /\ cmd'.instance = cmd.instance
           /\ cmd'.failed = cmd.failed
           /\ cmd'.next = cmd.next
           /\ there \in SetupSteps \cup CleanSteps \cup ResetSteps \cup {"rollback", "retire"}
                 => cmd' \in Commands
BY DEF Goto, Commands

\* GotoFailed also remembers the failure.
LEMMA GotoFailedMoves ==
    ASSUME cmd \in Commands, NEW there, GotoFailed(there)
    PROVE  /\ cmd'.pc = there
           /\ cmd'.instance = cmd.instance
           /\ cmd'.failed
           /\ there \in CleanSteps \cup ResetSteps => cmd' \in Commands
BY DEF GotoFailed, Commands

\* A command that begins has no instance yet.
LEMMA IdleMoves ==
    ASSUME NEW there \in {"idle", "fresh", "nuke"}, cmd' = [Idle EXCEPT !.pc = there]
    PROVE  cmd' \in Commands /\ cmd'.pc = there
<1>1. 0 \in 0..MaxAttempts
  BY InstallationBounds
<1>2. cmd' = [pc |-> there, instance |-> 0, failed |-> FALSE, next |-> "idle"]
  BY DEF Idle
<1>3. there \in SetupSteps \cup CleanSteps \cup ResetSteps
                \cup {"idle", "fresh", "begin", "retire", "rollback", "nuke"}
  OBVIOUS
<1>4. cmd'.pc = there
  BY ONLY <1>2
<1>5. cmd' \in Commands
  BY ONLY <1>1, <1>2, <1>3 DEF Commands
<1> QED
  BY <1>4, <1>5

\* A command that ends relies on nothing.
LEMMA IdleRelies ==
    ASSUME cmd' = Idle
    PROVE  CommandOK' /\ cmd' \in Commands /\ ~ResetHoldsLock'
<1>1. cmd'.pc = "idle" /\ cmd' \in Commands
  BY InstallationBounds DEF Idle, Commands
<1>2. SetupOK'
  BY <1>1 DEF SetupOK, SetupSteps, CleanSteps
<1>3. DoneOK'
  BY <1>1 DEF DoneOK, SetupSteps, AllWritten
<1>4. CleanOK'
  BY <1>1 DEF CleanOK
<1>5. NukeOK'
  BY <1>1 DEF NukeOK, ResetSteps, Finishing
<1>6. ~ResetHoldsLock'
  BY <1>1 DEF ResetHoldsLock, ResetSteps
<1> QED
  BY <1>1, <1>2, <1>3, <1>4, <1>5, <1>6 DEF CommandOK

\* Types are kept by a step that moves the command only.
LEMMA MoveTypes ==
    ASSUME Types, UNCHANGED world, UNCHANGED <<linked, server>>, cmd' \in Commands
    PROVE  Types'
BY DEF Types, TypeOK, world

\* What a server relies on is kept by a setup that is provisioning, by a
\* reset, which has the lock, and by steps that touch neither the server nor
\* what it uses.
LEMMA ServerKept ==
    ASSUME Types, ServerOK,
           UNCHANGED <<server, attempts>>,
           setupJournal'.phase = "provisioning" => setupJournal.phase = "provisioning",
           ResetHoldsLock' => ResetHoldsLock \/ ~ServerHoldsLock,
           \/ UNCHANGED <<files, dir, roles, db, mode>>
           \/ setupJournal.phase = "provisioning"
           \/ ResetHoldsLock
           \/ files["config"] = 0
    PROVE  ServerOK'
<1>1. attempts \in Nat /\ server.since \in Nat /\ server.instance \in Nat
  BY DEF Types, TypeOK
<1>2. /\ server'.since <= attempts'
      /\ server'.pc # "off" /\ server'.since = attempts' => setupJournal'.phase # "provisioning"
      /\ server'.pc \in {"loaded", "locked", "up"} => server'.instance \in 1..attempts'
  BY DEF ServerOK
<1>3. ~(ServerHoldsLock /\ ResetHoldsLock)'
  BY DEF ServerOK, ServerHoldsLock
<1>4. ASSUME server.pc = "up", server.instance <= server.since
      PROVE  Whole(attempts)'
  <2>1. server.instance = attempts /\ attempts # 0 /\ Whole(attempts)
    BY <1>4 DEF ServerOK
  <2>2. setupJournal.phase # "provisioning"
    BY <1>1, <1>4, <2>1 DEF ServerOK
  <2>3. ~ResetHoldsLock
    BY <1>4 DEF ServerOK, ServerHoldsLock
  <2>4. files["config"] # 0
    BY <2>1 DEF Whole, Outputs
  <2>5. UNCHANGED <<files, dir, roles, db, mode, attempts>>
    BY <2>2, <2>3, <2>4
  <2> QED
    BY <2>1, <2>5 DEF Whole, DatabaseVerifies, Owned, Name
<1> QED
  BY <1>2, <1>3, <1>4 DEF ServerOK

\* A setup relies on nothing that a cleanup or a reset would have done.
LEMMA InSetup ==
    ASSUME cmd'.pc \in SetupSteps
    PROVE  CleanOK' /\ NukeOK' /\ ~ResetHoldsLock'
BY DEF SetupSteps, CleanOK, NukeOK, ResetHoldsLock, ResetSteps, Finishing

\* A cleanup relies on nothing that a setup or a reset would have done.
LEMMA InCleanup ==
    ASSUME cmd'.pc \in CleanSteps
    PROVE  DoneOK' /\ NukeOK' /\ ~ResetHoldsLock'
BY DEF CleanSteps, SetupSteps, DoneOK, AllWritten, NukeOK, ResetHoldsLock, ResetSteps,
       Finishing

\* A reset relies on nothing that a setup or a cleanup would have done.
LEMMA InReset ==
    ASSUME cmd'.pc \in ResetSteps \cup {"nuke"}
    PROVE  SetupOK' /\ DoneOK' /\ CleanOK'
BY DEF ResetSteps, SetupOK, SetupSteps, CleanSteps, DoneOK, AllWritten, CleanOK

\* A setup and its cleanup work for the latest instance, under its journal.
LEMMA Provisioning ==
    ASSUME cmd'.pc \in SetupSteps \cup CleanSteps,
           cmd'.instance = attempts', attempts' # 0, setupJournal'.phase = "provisioning"
    PROVE  SetupOK'
BY DEF SetupSteps, CleanSteps, SetupOK

\* A roll-back looks at the journal itself.
LEMMA RollingBack ==
    ASSUME cmd'.pc = "rollback", cmd'.instance = attempts', attempts' # 0,
           setupJournal'.phase = "provisioning" \/ status'[attempts'] = "committed"
    PROVE  CommandOK' /\ ~ResetHoldsLock'
<1>1. SetupOK'
  BY DEF SetupOK, SetupSteps, CleanSteps
<1>2. DoneOK' /\ CleanOK' /\ NukeOK' /\ ~ResetHoldsLock'
  BY DEF SetupSteps, DoneOK, AllWritten, CleanOK, NukeOK, ResetHoldsLock, ResetSteps,
         Finishing
<1> QED
  BY <1>1, <1>2 DEF CommandOK

\* The journal of a setup that is not provisioning may go.
LEMMA JournalRetired ==
    ASSUME World, setupJournal.phase # "provisioning", setupJournal' = NoJournal,
           UNCHANGED <<files, dir, litter, roles, db, mode, nukeJournal, status, attempts>>
    PROVE  World'
<1>1. FilesOK' /\ DatabasesOK' /\ UnusedOK'
  BY DEF World, FilesOK, DataRootIsEmpty, DatabasesOK, UnusedOK, NoDatabase
<1>2. KnownOK'
  BY DEF World, KnownOK, Clean, Whole, Dropped, Owned, Name, DatabaseVerifies
<1>3. SetupJournalOK'
  BY DEF SetupJournalOK, NoJournal
<1>4. NukeJournalOK'
  BY DEF World, NukeJournalOK, NoJournal, Dropped, Owned, Name, DataRootIsEmpty, HasFiles,
         DatabaseVerifies, NoDatabase
<1> QED
  BY <1>1, <1>2, <1>3, <1>4 DEF World

\* Types are kept by a step that changes journals and the command only.
LEMMA JournalTypes ==
    ASSUME Types, cmd' \in Commands,
           setupJournal' \in [phase : {"none", "provisioning", "committed"},
                              instance : 0..MaxAttempts],
           nukeJournal' \in [phase : {"none", "authorized", "dropped"},
                             instance : 0..MaxAttempts],
           UNCHANGED <<files, dir, litter, roles, db, mode, linked, status, attempts, server>>
    PROVE  Types'
BY DEF Types, TypeOK

----------------------------------------------------------------------------
(***************************************************************************)
(* initial-setup keeps the invariant, action by action.                    *)
(***************************************************************************)

\* Looking for an interrupted setup.
LEMMA RecoverBeforeStep ==
    ASSUME Inv, RecoverBeforeInitialSetup
    PROVE  Inv'
<1> USE DEF Inv
<1>1. /\ cmd = Idle
      /\ UNCHANGED <<files, dir, litter, roles, db, mode, nukeJournal, linked, status,
                     attempts, server>>
  BY DEF RecoverBeforeInitialSetup, disk, postgres
<1>2. ~ResetHoldsLock /\ cmd.pc = "idle"
  BY <1>1 DEF ResetHoldsLock, ResetSteps, Idle
<1>3. CASE setupJournal.phase = "none" /\ cmd' = [Idle EXCEPT !.pc = "fresh"] /\ UNCHANGED setupJournal
  <2>1. cmd' \in Commands /\ cmd'.pc = "fresh"
    BY ONLY <1>3, IdleMoves
  <2>2. World' /\ Types'
    BY <1>1, <1>3, <2>1, WorldUnchanged, MoveTypes DEF world
  <2>3. CommandOK' /\ ~ResetHoldsLock'
    <3>1. SetupOK'
      BY <2>1, <1>3 DEF World, SetupJournalOK, SetupOK, SetupSteps, CleanSteps, NoJournal
    <3> QED
      BY <2>1, <3>1 DEF CommandOK, SetupSteps, DoneOK, AllWritten, CleanOK, NukeOK,
                        ResetHoldsLock, ResetSteps, Finishing
  <2>4. ServerOK'
    BY <1>1, <1>3, <2>3, ServerKept
  <2> QED
    BY <2>2, <2>3, <2>4
<1>4. CASE setupJournal.phase = "committed" /\ setupJournal' = NoJournal /\ UNCHANGED cmd
  <2>1. cmd' = Idle
    BY <1>1, <1>4
  <2>2. CommandOK' /\ cmd' \in Commands /\ ~ResetHoldsLock'
    BY ONLY <2>1, IdleRelies
  <2>3. World'
    BY <1>1, <1>4, JournalRetired
  <2>4. Types'
    <3>1. setupJournal' \in [phase : {"none", "provisioning", "committed"}, instance : 0..MaxAttempts]
      BY <1>4, InstallationBounds DEF NoJournal
    <3>2. nukeJournal' \in [phase : {"none", "authorized", "dropped"}, instance : 0..MaxAttempts]
      BY <1>1 DEF Types, TypeOK
    <3> QED
      BY <1>1, <2>2, <3>1, <3>2, JournalTypes
  <2>5. ServerOK'
    BY <1>1, <1>4, <2>2, ServerKept DEF NoJournal
  <2> QED
    BY <2>2, <2>3, <2>4, <2>5
<1>5. CASE /\ setupJournal.phase = "provisioning"
           /\ cmd' = [Idle EXCEPT !.pc = "cleanDatabase", !.next = "fresh",
                                  !.instance = setupJournal.instance]
           /\ UNCHANGED setupJournal
  <2>1. setupJournal.instance = attempts /\ attempts # 0 /\ attempts \in 0..MaxAttempts
    BY <1>5 DEF World, SetupJournalOK, Types, TypeOK
  <2>2. cmd' \in Commands /\ cmd'.pc = "cleanDatabase" /\ cmd'.instance = attempts
    BY <1>5, <2>1 DEF Idle, Commands, CleanSteps
  <2>3. World' /\ Types'
    BY <1>1, <1>5, <2>2, WorldUnchanged, MoveTypes DEF world
  <2>4. SetupOK' /\ DoneOK' /\ NukeOK' /\ ~ResetHoldsLock'
    BY <1>1, <1>5, <2>1, <2>2, Provisioning, InCleanup DEF CleanSteps
  <2>5. CleanOK'
    BY <2>2 DEF CleanOK
  <2>6. ServerOK'
    BY <1>1, <1>5, <2>4, ServerKept
  <2> QED
    BY <2>3, <2>4, <2>5, <2>6 DEF CommandOK
<1> QED
  BY <1>3, <1>4, <1>5 DEF RecoverBeforeInitialSetup

\* Preflight lets a setup begin on a host without an installation.
LEMMA PreflightStep ==
    ASSUME Inv, Preflight
    PROVE  Inv'
<1> USE DEF Inv
<1>1. /\ cmd.pc = "fresh"
      /\ attempts < MaxAttempts
      /\ DataRootIsEmpty
      /\ \A o \in Outputs \ {"key"} : files[o] = 0
      /\ dir' = TRUE
      /\ files' = [files EXCEPT !["key"] = 0]
      /\ \E m \in Modes : mode' = [mode EXCEPT ![attempts + 1] = m]
      /\ cmd' = [Idle EXCEPT !.pc = "begin", !.instance = attempts + 1]
      /\ UNCHANGED <<litter, roles, db, setupJournal, nukeJournal, linked, status, attempts,
                     server>>
  BY DEF Preflight, PreflightPasses, TargetsAreFree, PrepareDirectories, Collect, postgres,
         journals
<1>2. /\ attempts \in Nat
      /\ attempts + 1 \in Instances
      /\ status[attempts + 1] = "unused"
      /\ setupJournal = NoJournal
      /\ ~ResetHoldsLock
  BY <1>1, InstallationBounds DEF Types, TypeOK, World, UnusedOK, Instances, CommandOK,
     SetupOK, ResetHoldsLock, ResetSteps
<1>3. \A o \in Outputs : files'[o] = 0
  BY <1>1 DEF Types, TypeOK, Outputs
<1>4. /\ \A i \in Instances : i # attempts + 1 => mode'[i] = mode[i]
      /\ mode' \in [Instances -> {"unset", "managed", "external"}]
  BY <1>1, <1>2, InstallationBounds DEF Types
<1>5. World'
  <2>1. FilesOK'
    BY <1>1, <1>3 DEF FilesOK
  <2>2. DatabasesOK'
    BY <1>1, <1>2, <1>4 DEF World, DatabasesOK, UnusedOK, Types, TypeOK, NoDatabase
  <2>3. UnusedOK'
    BY <1>1, <1>3 DEF World, UnusedOK, Instances
  <2>4. KnownOK'
    <3> SUFFICES ASSUME NEW i \in Instances
                 PROVE  /\ (status[i] = "committed" => i = attempts /\ Whole(i))'
                        /\ (status[i] = "begun" =>
                             Clean(i) \/ (setupJournal.phase = "provisioning" /\ i = attempts))'
                        /\ (status[i] = "authorized" =>
                             Clean(i) \/ (nukeJournal.phase # "none" /\ nukeJournal.instance = i))'
      BY DEF KnownOK
    <3>1. status[i] # "committed"
      BY <1>1, <1>2 DEF World, KnownOK, Whole, Outputs, Instances
    <3>2. CASE i = attempts + 1
      BY <1>1, <1>2, <3>2
    <3>3. CASE i # attempts + 1
      <4>1. Clean(i) => Clean(i)'
        BY <1>1, <1>3, <1>4, <3>3 DEF Clean, Dropped, Owned, Name, Instances
      <4> QED
        BY <1>1, <3>1, <4>1 DEF World, KnownOK
    <3> QED
      BY <3>2, <3>3
  <2>5. SetupJournalOK'
    BY <1>1, <1>2 DEF SetupJournalOK, NoJournal
  <2>6. NukeJournalOK'
    <3>1. nukeJournal.phase # "authorized"
      BY <1>1, <1>2 DEF World, NukeJournalOK, HasFiles, Outputs
    <3>2. DataRootIsEmpty'
      BY <1>1, <1>3 DEF DataRootIsEmpty, Outputs
    <3>3. ASSUME nukeJournal.phase = "dropped"
          PROVE  /\ Dropped(nukeJournal.instance)'
                 /\ nukeJournal.instance \notin roles
      <4>1. /\ nukeJournal.instance \in Instances
            /\ nukeJournal.instance \in 1..attempts
            /\ nukeJournal.instance # attempts + 1
            /\ Dropped(nukeJournal.instance)
            /\ nukeJournal.instance \notin roles
        BY <1>1, <1>2, <3>3, InstallationBounds DEF World, NukeJournalOK, Instances, HasFiles,
           Outputs
      <4> QED
        BY <1>1, <1>4, <4>1 DEF Dropped, Owned, Name
    <3> QED
      BY <1>1, <3>1, <3>2, <3>3 DEF World, NukeJournalOK, NoJournal
  <2> QED
    BY <2>1, <2>2, <2>3, <2>4, <2>5, <2>6 DEF World
<1>6. /\ cmd'.pc = "begin"
      /\ cmd'.instance = attempts + 1
      /\ cmd' \in Commands
  <2>1. attempts + 1 \in 0..MaxAttempts
    BY <1>2, InstallationBounds DEF Instances
  <2>2. cmd' = [pc |-> "begin", instance |-> attempts + 1, failed |-> FALSE, next |-> "idle"]
    BY <1>1 DEF Idle
  <2> QED
    BY <2>1, <2>2 DEF Commands
<1>7. Types'
  <2>1. 0 \in 0..MaxAttempts
    BY InstallationBounds
  <2>2. files' \in [Outputs -> 0..MaxAttempts]
    BY <1>1, <2>1 DEF Types, TypeOK
  <2>3. {dir', litter'} \subseteq BOOLEAN
    BY ONLY <1>1, Types DEF Types, TypeOK
  <2> QED
    BY <1>1, <1>4, <1>6, <2>2, <2>3 DEF Types, TypeOK
<1>8. CommandOK' /\ ~ResetHoldsLock'
  <2>1. SetupOK'
    BY <1>1, <1>2, <1>3, <1>6 DEF SetupOK, SetupSteps, CleanSteps
  <2> QED
    BY <1>6, <2>1 DEF CommandOK, DoneOK, SetupSteps, AllWritten, CleanOK, NukeOK,
                      ResetHoldsLock, ResetSteps, Finishing
<1>9. ServerOK'
  <2>1. files["config"] = 0
    BY <1>1 DEF Outputs
  <2> QED
    BY <1>1, <1>8, <2>1, ServerKept
<1> QED
  BY <1>5, <1>7, <1>8, <1>9

\* Where a command ends without any effect, by a crash or a failed step.
LEMMA EndStep ==
    ASSUME Inv, cmd' = Idle, UNCHANGED world, UNCHANGED <<linked, server>>
    PROVE  Inv'
<1> USE DEF Inv
<1>2. CommandOK' /\ cmd' \in Commands /\ ~ResetHoldsLock'
  BY ONLY cmd' = Idle, IdleRelies
<1>3. World' /\ Types'
  BY <1>2, WorldUnchanged, MoveTypes
<1>4. ServerOK'
  BY <1>2, ServerKept DEF world
<1> QED
  BY <1>2, <1>3, <1>4

\* A setup that is refused.
LEMMA SetupRefusedStep ==
    ASSUME Inv, SetupRefused
    PROVE  Inv'
BY EndStep DEF SetupRefused, disk, postgres, journals, world

\* A setup that goes on keeps the invariant if it keeps the world and does
\* what its next step relies on.
LEMMA SetupContinues ==
    ASSUME Inv, cmd.pc \in SetupSteps, cmd'.pc \in SetupSteps, cmd'.instance = cmd.instance,
           World', Types', DoneOK', UNCHANGED <<server, attempts, setupJournal>>
    PROVE  Inv'
<1>1. /\ cmd.instance = attempts
      /\ attempts # 0
      /\ setupJournal.phase = "provisioning"
  BY DEF Inv, CommandOK, SetupOK
<1>2. SetupOK' /\ CleanOK' /\ NukeOK' /\ ~ResetHoldsLock'
  BY <1>1, Provisioning, InSetup
<1>3. ServerOK'
  BY <1>1, <1>2, ServerKept DEF Inv
<1> QED
  BY <1>2, <1>3 DEF Inv, CommandOK

\* Likewise for a setup that gives up.
LEMMA SetupGivesUp ==
    ASSUME Inv, cmd.pc \in SetupSteps, cmd'.pc = "rollback", cmd'.instance = cmd.instance,
           World', Types', UNCHANGED <<server, attempts, setupJournal>>
    PROVE  Inv'
<1>1. /\ cmd.instance = attempts
      /\ attempts # 0
      /\ setupJournal.phase = "provisioning"
  BY DEF Inv, CommandOK, SetupOK
<1>2. CommandOK' /\ ~ResetHoldsLock'
  BY <1>1, RollingBack
<1>3. ServerOK'
  BY <1>1, <1>2, ServerKept DEF Inv
<1> QED
  BY <1>2, <1>3 DEF Inv

\* Likewise for a setup, or its cleanup, that ends.
LEMMA SetupEnds ==
    ASSUME Inv, cmd.pc \in SetupSteps \cup CleanSteps, cmd' = Idle,
           World', Types', UNCHANGED <<server, attempts>>
    PROVE  Inv'
<1>1. setupJournal.phase = "provisioning"
  BY DEF Inv, CommandOK, SetupOK
<1>2. CommandOK' /\ ~ResetHoldsLock'
  BY ONLY cmd' = Idle, IdleRelies
<1>3. ServerOK'
  BY <1>1, <1>2, ServerKept DEF Inv
<1> QED
  BY <1>2, <1>3 DEF Inv

\* Likewise for a cleanup that goes on.
LEMMA CleanupContinues ==
    ASSUME Inv, cmd.pc \in CleanSteps, cmd'.pc \in CleanSteps, cmd'.instance = cmd.instance,
           World', Types', CleanOK', UNCHANGED <<server, attempts, setupJournal>>
    PROVE  Inv'
<1>1. /\ cmd.instance = attempts
      /\ attempts # 0
      /\ setupJournal.phase = "provisioning"
  BY DEF Inv, CommandOK, SetupOK
<1>2. SetupOK' /\ DoneOK' /\ NukeOK' /\ ~ResetHoldsLock'
  BY <1>1, Provisioning, InCleanup
<1>3. ServerOK'
  BY <1>1, <1>2, ServerKept DEF Inv
<1> QED
  BY <1>2, <1>3 DEF Inv, CommandOK

\* Likewise for a reset that goes on.
LEMMA ResetContinues ==
    ASSUME Inv, cmd.pc \in ResetSteps, cmd'.pc \in ResetSteps,
           World', Types', NukeOK', UNCHANGED <<server, attempts, setupJournal>>
    PROVE  Inv'
<1>1. SetupOK' /\ DoneOK' /\ CleanOK'
  BY InReset
<1>2. ResetHoldsLock
  BY DEF ResetHoldsLock
<1>3. ServerOK'
  BY <1>2, ServerKept DEF Inv
<1> QED
  BY <1>1, <1>3 DEF Inv, CommandOK

\* Likewise for a reset that ends.
LEMMA ResetEnds ==
    ASSUME Inv, cmd.pc \in ResetSteps, cmd' = Idle,
           World', Types', UNCHANGED <<server, attempts, setupJournal>>
    PROVE  Inv'
<1>1. CommandOK' /\ ~ResetHoldsLock'
  BY ONLY cmd' = Idle, IdleRelies
<1>2. ResetHoldsLock
  BY DEF ResetHoldsLock
<1>3. ServerOK'
  BY <1>1, <1>2, ServerKept DEF Inv
<1> QED
  BY <1>1, <1>3 DEF Inv

\* Beginning a setup, of which the journal may or may not be written.
LEMMA BeginWorld ==
    ASSUME Types, World, setupJournal = NoJournal, dir,
           attempts + 1 \in Instances, attempts' = attempts + 1,
           \A o \in Outputs : files[o] = 0,
           \/ UNCHANGED <<setupJournal, status>>
           \/ /\ setupJournal' = [phase |-> "provisioning", instance |-> attempts + 1]
              /\ status' = [status EXCEPT ![attempts + 1] = "begun"],
           UNCHANGED <<files, dir, roles, db, mode, nukeJournal>>
    PROVE  World'
<1>a. /\ attempts \in Nat
      /\ status \in [Instances -> {"unused", "begun", "committed", "authorized"}]
  BY DEF Types, TypeOK
<1>b. status[attempts + 1] = "unused"
  BY <1>a DEF World, UnusedOK
<1>c. \A i \in Instances : status[i] # "committed"
  BY <1>a DEF World, KnownOK, Whole, Outputs, Instances
<1>d. /\ \A i \in Instances : i # attempts + 1 => status'[i] = status[i]
      /\ status'[attempts + 1] \in {"unused", "begun"}
  BY <1>a, <1>b
<1>1. /\ attempts \in Nat
      /\ status[attempts + 1] = "unused"
      /\ \A i \in Instances : i # attempts + 1 => status'[i] = status[i]
      /\ status'[attempts + 1] \in {"unused", "begun"}
      /\ \A i \in Instances : status[i] # "committed"
  BY <1>a, <1>b, <1>c, <1>d
<1>2. FilesOK'
  BY DEF FilesOK
<1>3. DatabasesOK'
  BY DEF World, DatabasesOK, NoDatabase
<1>4. UnusedOK'
  BY <1>1 DEF World, UnusedOK, Instances
<1>5. KnownOK'
  <2> SUFFICES ASSUME NEW i \in Instances
               PROVE  /\ (status[i] = "committed" => i = attempts /\ Whole(i))'
                      /\ (status[i] = "begun" =>
                           Clean(i) \/ (setupJournal.phase = "provisioning" /\ i = attempts))'
                      /\ (status[i] = "authorized" =>
                           Clean(i) \/ (nukeJournal.phase # "none" /\ nukeJournal.instance = i))'
    BY DEF KnownOK
  <2>1. CASE i = attempts + 1
    BY <1>1, <2>1
  <2>2. CASE i # attempts + 1
    <3>1. Clean(i) => Clean(i)'
      BY <1>1, <2>2 DEF Clean, Dropped, Owned, Name
    <3> QED
      BY <1>1, <2>2, <3>1 DEF World, KnownOK, NoJournal
  <2> QED
    BY <2>1, <2>2
<1>6. SetupJournalOK'
  BY <1>1 DEF SetupJournalOK, NoJournal, Types, TypeOK
<1>7. NukeJournalOK'
  <2>1. nukeJournal.phase # "authorized"
    BY DEF World, NukeJournalOK, HasFiles, Outputs
  <2>2. ASSUME nukeJournal.phase # "none"
        PROVE  /\ nukeJournal.instance \in 1..attempts
               /\ nukeJournal.instance \in Instances
               /\ nukeJournal.instance # attempts + 1
               /\ status'[nukeJournal.instance] = "authorized"
               /\ nukeJournal.instance \notin roles
               /\ Dropped(nukeJournal.instance)
    <3>1. /\ nukeJournal.phase = "dropped"
          /\ nukeJournal.instance \in 1..attempts
          /\ status[nukeJournal.instance] = "authorized"
          /\ Dropped(nukeJournal.instance)
      BY <2>1, <2>2 DEF World, NukeJournalOK, Types, TypeOK
    <3>2. attempts + 1 <= MaxAttempts /\ MaxAttempts \in Nat
      BY InstallationBounds DEF Instances
    <3>3. /\ nukeJournal.instance \in Instances
          /\ nukeJournal.instance # attempts + 1
          /\ attempts # 0
      BY <1>1, <3>1, <3>2 DEF Instances
    <3>4. nukeJournal.instance \notin roles
      BY <3>1, <3>3 DEF World, NukeJournalOK, HasFiles, Outputs
    <3> QED
      BY <1>1, <3>1, <3>3, <3>4
  <2>3. ASSUME nukeJournal.phase # "none"
        PROVE  Dropped(nukeJournal.instance)'
    BY <2>2, <2>3 DEF Dropped, Owned, Name
  <2> QED
    BY <1>1, <2>1, <2>2, <2>3 DEF World, NukeJournalOK, NoJournal
<1> QED
  BY <1>2, <1>3, <1>4, <1>5, <1>6, <1>7 DEF World

\* Writing the journal of a setup, with what a fault leaves of it.
LEMMA BeginSetupStep ==
    ASSUME Inv, BeginSetup
    PROVE  Inv'
<1> USE DEF Inv
<1>1. /\ cmd.pc = "begin"
      /\ attempts' = cmd.instance
      /\ UNCHANGED <<files, dir, roles, db, mode, nukeJournal, server>>
  BY DEF BeginSetup, postgres
<1>2. /\ setupJournal = NoJournal
      /\ cmd.instance = attempts + 1
      /\ dir
      /\ \A o \in Outputs : files[o] = 0
  BY <1>1 DEF CommandOK, SetupOK
<1>3. /\ attempts \in Nat
      /\ attempts + 1 \in Instances
      /\ attempts' = attempts + 1
  BY <1>1, <1>2, InstallationBounds DEF Types, TypeOK, Commands, Instances
<1>4. \/ /\ UNCHANGED <<setupJournal, status>>
         /\ cmd' = Idle
      \/ /\ setupJournal' = [phase |-> "provisioning", instance |-> attempts + 1]
         /\ status' = [status EXCEPT ![attempts + 1] = "begun"]
         /\ cmd' = Idle \/ Goto(IF Managed THEN "role" ELSE "material")
  BY <1>2 DEF BeginSetup
<1>5. World'
  BY <1>1, <1>2, <1>3, <1>4, BeginWorld
<1>6. linked' \subseteq {"setup", "nuke"} /\ litter' \in BOOLEAN
  BY DEF BeginSetup, Types, TypeOK
<1>7. ASSUME cmd' \in Commands PROVE Types'
  <2>1. status' \in [Instances -> {"unused", "begun", "committed", "authorized"}]
    BY <1>4 DEF Types, TypeOK
  <2>2. setupJournal' \in [phase : {"none", "provisioning", "committed"},
                           instance : 0..MaxAttempts]
    <3>1. attempts + 1 \in 0..MaxAttempts
      BY <1>3, InstallationBounds DEF Instances
    <3>2. setupJournal \in [phase : {"none", "provisioning", "committed"},
                            instance : 0..MaxAttempts]
      BY DEF Types, TypeOK
    <3> QED
      BY ONLY <1>4, <3>1, <3>2
  <2>3. attempts' \in 0..MaxAttempts
    BY <1>3, InstallationBounds DEF Instances
  <2>4. {dir', litter'} \subseteq BOOLEAN
    BY ONLY Types, <1>1, <1>6 DEF Types, TypeOK
  <2> QED
    BY <1>1, <1>6, <1>7, <2>1, <2>2, <2>3, <2>4 DEF Types, TypeOK
<1>8. ASSUME ~ResetHoldsLock' PROVE ServerOK'
  <2>1. ~(server.pc = "up" /\ server.instance <= server.since)
    BY <1>2 DEF ServerOK, Whole, Outputs
  <2> QED
    BY <1>1, <1>3, <1>8, <2>1 DEF ServerOK, Types, TypeOK
<1>9. CASE cmd' = Idle
  <2>1. CommandOK' /\ cmd' \in Commands /\ ~ResetHoldsLock'
    BY ONLY <1>9, IdleRelies
  <2> QED
    BY <1>5, <1>7, <1>8, <2>1
<1>10. CASE /\ setupJournal' = [phase |-> "provisioning", instance |-> attempts + 1]
            /\ Goto(IF Managed THEN "role" ELSE "material")
  <2>1. /\ cmd'.pc = IF Managed THEN "role" ELSE "material"
        /\ cmd'.instance = cmd.instance
        /\ cmd' \in Commands
    BY <1>10, GotoMoves DEF Types, SetupSteps
  <2>2. cmd'.pc \in SetupSteps /\ (Managed' <=> Managed)
    BY <1>1, <2>1 DEF SetupSteps, Managed
  <2>3. SetupOK' /\ CleanOK' /\ NukeOK' /\ ~ResetHoldsLock'
    <3>1. cmd'.instance = attempts'
      BY ONLY <1>1, <2>1
    <3>3. attempts' # 0
      BY ONLY <1>3
    <3>2. setupJournal'.phase = "provisioning"
      BY ONLY <1>10
    <3> QED
      BY ONLY <2>2, <3>1, <3>2, <3>3, Provisioning, InSetup
  <2>4. DoneOK'
    BY <2>1, <2>2 DEF DoneOK, AllWritten, SetupSteps
  <2> QED
    BY <1>5, <1>7, <1>8, <2>1, <2>3, <2>4 DEF CommandOK
<1> QED
  BY <1>4, <1>9, <1>10

\* What a step of a setup or of its cleanup knows.
LEMMA AtWork ==
    ASSUME Inv, cmd.pc \in SetupSteps \cup CleanSteps
    PROVE  /\ cmd \in Commands
           /\ cmd.instance = attempts
           /\ attempts \in Instances
           /\ setupJournal.phase = "provisioning"
           /\ status[attempts] = "begun"
           /\ Managed <=> mode[attempts] = "managed"
<1>1. /\ cmd.instance = attempts
      /\ attempts # 0
      /\ setupJournal.phase = "provisioning"
  BY DEF Inv, CommandOK, SetupOK
<1> QED
  BY <1>1 DEF Inv, Types, TypeOK, World, SetupJournalOK, Instances, Managed

\* Types are kept by a step of the command that changes PostgreSQL only.
LEMMA PostgresTypes ==
    ASSUME Types, cmd' \in Commands,
           roles' \subseteq Instances,
           db' \in [0..MaxAttempts -> [by : 0..MaxAttempts,
                                       state : {"none", "bare", "marked", "ready"}]],
           UNCHANGED <<files, dir, litter, mode, setupJournal, nukeJournal, linked, status,
                       attempts, server>>
    PROVE  Types'
BY DEF Types, TypeOK

\* Creating the role of a managed setup.
LEMMA ProvisionRoleStep ==
    ASSUME Inv, ProvisionRole
    PROVE  Inv'
<1>1. /\ cmd.pc = "role"
      /\ cmd.pc \in SetupSteps
      /\ UNCHANGED <<files, dir, litter, db, mode, setupJournal, nukeJournal, linked, status,
                     attempts, server>>
  BY DEF ProvisionRole, disk, journals, SetupSteps
<1>2. /\ cmd \in Commands
      /\ cmd.instance = attempts
      /\ attempts \in Instances
      /\ setupJournal.phase = "provisioning"
      /\ mode[attempts] = "managed"
  BY <1>1, AtWork DEF Inv, CommandOK, DoneOK
<1>3. \/ Goto("create") /\ roles' = roles \cup {attempts}
      \/ Goto("rollback") /\ (roles' = roles \/ roles' = roles \cup {attempts})
  BY <1>2 DEF ProvisionRole
<1>4. /\ cmd'.pc \in {"create", "rollback"}
      /\ cmd'.pc = "create" => attempts \in roles'
      /\ cmd'.instance = cmd.instance
      /\ cmd' \in Commands
  BY <1>2, <1>3, GotoMoves DEF SetupSteps
<1>5. World'
  BY <1>1, <1>2, <1>3, WorldUnchanged, SetupRole DEF Inv, world
<1>6. Types'
  <2>1. roles' \subseteq Instances
    <3>1. roles' = roles \/ roles' = roles \cup {attempts}
      BY ONLY <1>3
    <3>2. roles \subseteq Instances
      BY DEF Inv, Types, TypeOK
    <3> QED
      BY ONLY <1>2, <3>1, <3>2
  <2>2. db' \in [0..MaxAttempts -> [by : 0..MaxAttempts,
                                    state : {"none", "bare", "marked", "ready"}]]
    BY <1>1 DEF Inv, Types, TypeOK
  <2> QED
    BY <1>1, <1>4, <2>1, <2>2, PostgresTypes DEF Inv
<1>7. CASE cmd'.pc = "create"
  <2>1. Managed'
    BY <1>1, <1>2, <1>4 DEF Managed
  <2>2. DoneOK'
    BY <1>2, <1>4, <1>7, <2>1 DEF DoneOK, AllWritten, SetupSteps
  <2>3. cmd'.pc \in SetupSteps
    BY <1>7 DEF SetupSteps
  <2> QED
    BY <1>1, <1>4, <1>5, <1>6, <2>2, <2>3, SetupContinues
<1>8. CASE cmd'.pc = "rollback"
  BY <1>1, <1>4, <1>5, <1>6, <1>8, SetupGivesUp
<1> QED
  BY <1>4, <1>7, <1>8

\* What setting or dropping the database of a setup does.
LEMMA SetupSetsDatabase ==
    ASSUME Inv, cmd.pc \in SetupSteps \cup CleanSteps,
           NEW state \in {"none", "bare", "marked", "ready"},
           state = "none" => db' = [db EXCEPT ![Name(attempts)] = NoDatabase],
           state # "none" => /\ db' = [db EXCEPT ![Name(attempts)] = [by |-> attempts, state |-> state]]
                             /\ mode[attempts] = "managed" => attempts \in roles,
           UNCHANGED <<files, dir, litter, roles, mode, setupJournal, nukeJournal, status,
                       attempts>>
    PROVE  /\ World'
           /\ db' \in [0..MaxAttempts -> [by : 0..MaxAttempts,
                                          state : {"none", "bare", "marked", "ready"}]]
           /\ state = "none" => db'[Name(attempts)] = NoDatabase
           /\ state # "none" => db'[Name(attempts)] = [by |-> attempts, state |-> state]
<1>1. /\ attempts \in Instances
      /\ setupJournal.phase = "provisioning"
  BY AtWork
<1>2. PICK d : d = IF state = "none" THEN NoDatabase ELSE [by |-> attempts, state |-> state]
  OBVIOUS
<1>3. /\ d \in [by : 0..MaxAttempts, state : {"none", "bare", "marked", "ready"}]
      /\ d = NoDatabase \/ (d.by = attempts /\ d.state # "none")
      /\ d # NoDatabase => state # "none"
  BY <1>1, <1>2, InstallationBounds DEF NoDatabase, Instances
<1>4. db' = [db EXCEPT ![Name(attempts)] = d]
  BY <1>2
<1>5. db \in [0..MaxAttempts -> [by : 0..MaxAttempts,
                                 state : {"none", "bare", "marked", "ready"}]]
  BY DEF Inv, Types, TypeOK
<1>6. Name(attempts) \in 0..MaxAttempts
  BY <1>1, InstallationBounds DEF Name, Instances
<1>7. World'
  BY <1>1, <1>3, <1>4, SetupDatabase DEF Inv
<1>8. /\ db' \in [0..MaxAttempts -> [by : 0..MaxAttempts,
                                     state : {"none", "bare", "marked", "ready"}]]
      /\ db'[Name(attempts)] = d
  BY ONLY <1>3, <1>4, <1>5, <1>6
<1> QED
  BY <1>2, <1>7, <1>8

\* What a step of the command that sets or drops the database of a setup
\* leaves of the invariant to be shown.
LEMMA SetupDatabaseStep ==
    ASSUME Inv, cmd.pc \in SetupSteps, cmd' \in Commands, cmd'.instance = cmd.instance,
           UNCHANGED <<disk, roles, mode, journals, status, attempts, server>>,
           NEW state \in {"none", "bare", "marked", "ready"},
           \/ UNCHANGED db
           \/ state = "none" /\ db' = [db EXCEPT ![Name(attempts)] = NoDatabase]
           \/ /\ state # "none"
              /\ db' = [db EXCEPT ![Name(attempts)] = [by |-> attempts, state |-> state]]
              /\ mode[attempts] = "managed" => attempts \in roles,
           \/ cmd'.pc = "rollback"
           \/ cmd'.pc \in SetupSteps /\ DoneOK'
    PROVE  Inv'
<1>1. UNCHANGED <<files, dir, litter, roles, mode, setupJournal, nukeJournal, linked, status,
                  attempts, server>>
  BY DEF disk, journals
<1>2. /\ World'
      /\ db' \in [0..MaxAttempts -> [by : 0..MaxAttempts,
                                     state : {"none", "bare", "marked", "ready"}]]
  <2>1. CASE UNCHANGED db
    BY <1>1, <2>1, WorldUnchanged DEF world, Inv, Types, TypeOK
  <2>2. CASE ~UNCHANGED db
    BY <1>1, <2>2, SetupSetsDatabase
  <2> QED
    BY <2>1, <2>2
<1>3. Types'
  <2>1. roles' \subseteq Instances
    BY <1>1 DEF Inv, Types, TypeOK
  <2> QED
    BY <1>1, <1>2, <2>1, PostgresTypes DEF Inv
<1> QED
  BY <1>1, <1>2, <1>3, SetupContinues, SetupGivesUp

\* CREATE DATABASE.
LEMMA CreateDatabaseStep ==
    ASSUME Inv, CreateDatabase
    PROVE  Inv'
<1>1. /\ cmd.pc = "create"
      /\ cmd.pc \in SetupSteps
      /\ UNCHANGED <<disk, roles, mode, journals, status, attempts, server>>
  BY DEF CreateDatabase, SetupSteps
<1>2. UNCHANGED <<files, dir, litter, roles, mode, setupJournal, nukeJournal, linked, status,
                  attempts, server>>
  BY <1>1 DEF disk, journals
<1>3. /\ cmd \in Commands
      /\ cmd.instance = attempts
      /\ attempts \in Instances
      /\ Managed <=> mode[attempts] = "managed"
  BY <1>1, AtWork
<1>4. /\ Managed => attempts \in roles
      /\ ~Managed => \A o \in {"material", "env", "marker", "config"} : files[o] = attempts
  BY <1>1, <1>3 DEF Inv, CommandOK, DoneOK, AllWritten, SetupSteps
<1>5. \/ Goto("comment") /\ SetDatabase("bare")
      \/ Goto("rollback") /\ (SetDatabase("bare") \/ UNCHANGED db)
  BY DEF CreateDatabase
<1>6. /\ cmd'.pc \in {"comment", "rollback"}
      /\ cmd'.pc = "comment" => SetDatabase("bare")
      /\ cmd'.instance = cmd.instance
      /\ cmd' \in Commands
  BY <1>3, <1>5, GotoMoves DEF SetupSteps
<1>7. UNCHANGED db \/ db' = [db EXCEPT ![Name(attempts)] = [by |-> attempts, state |-> "bare"]]
  BY <1>3, <1>5 DEF SetDatabase
<1>8. ASSUME cmd'.pc = "comment" PROVE DoneOK'
  <2>1. db' = [db EXCEPT ![Name(attempts)] = [by |-> attempts, state |-> "bare"]]
    BY <1>3, <1>6, <1>8 DEF SetDatabase
  <2>2. db'[Name(attempts)] = [by |-> attempts, state |-> "bare"]
    BY <1>1, <1>2, <1>3, <1>4, <2>1, SetupSetsDatabase
  <2>3. /\ Owned(attempts)'
        /\ Managed' <=> Managed
    BY <1>2, <1>3, <1>6, <2>2 DEF Owned, Name, Managed
  <2> QED
    BY <1>2, <1>3, <1>4, <1>6, <1>8, <2>3 DEF DoneOK, AllWritten, SetupSteps, Owned
<1>9. cmd'.pc = "rollback" \/ (cmd'.pc \in SetupSteps /\ DoneOK')
  BY <1>6, <1>8 DEF SetupSteps
<1> QED
  BY <1>1, <1>3, <1>4, <1>6, <1>7, <1>9, SetupDatabaseStep

\* COMMENT ON DATABASE.
LEMMA CommentDatabaseStep ==
    ASSUME Inv, CommentDatabase
    PROVE  Inv'
<1>1. /\ cmd.pc = "comment"
      /\ cmd.pc \in SetupSteps
      /\ UNCHANGED <<disk, roles, mode, journals, status, attempts, server>>
  BY DEF CommentDatabase, SetupSteps
<1>2. UNCHANGED <<files, dir, litter, roles, mode, setupJournal, nukeJournal, linked, status,
                  attempts, server>>
  BY <1>1 DEF disk, journals
<1>3. /\ cmd \in Commands
      /\ cmd.instance = attempts
      /\ attempts \in Instances
      /\ Managed <=> mode[attempts] = "managed"
  BY <1>1, AtWork
<1>4. /\ Managed => attempts \in roles
      /\ ~Managed => \A o \in {"material", "env", "marker", "config"} : files[o] = attempts
      /\ ~Managed => Owned(attempts)
  BY <1>1, <1>3 DEF Inv, CommandOK, DoneOK, AllWritten, SetupSteps
<1>5. \/ Goto(IF Managed THEN "material" ELSE "migrate") /\ SetDatabase("marked")
      \/ /\ Goto(IF Managed THEN "rollback" ELSE "dropNew")
         /\ SetDatabase("marked") \/ UNCHANGED db
  BY DEF CommentDatabase
<1>6. /\ cmd'.pc \in IF Managed THEN {"material", "rollback"} ELSE {"migrate", "dropNew"}
      /\ cmd'.instance = cmd.instance
      /\ cmd' \in Commands
  BY <1>3, <1>5, GotoMoves DEF SetupSteps
<1>7. UNCHANGED db \/ db' = [db EXCEPT ![Name(attempts)] = [by |-> attempts, state |-> "marked"]]
  BY <1>3, <1>5 DEF SetDatabase
<1>8. ASSUME cmd'.pc # "rollback" PROVE DoneOK'
  <2>1. /\ ~Managed => Owned(attempts)'
        /\ Managed' <=> Managed
    <3>1. CASE UNCHANGED db
      BY <1>2, <1>3, <1>4, <1>6, <3>1 DEF Owned, Name, Managed
    <3>2. CASE db' = [db EXCEPT ![Name(attempts)] = [by |-> attempts, state |-> "marked"]]
      <4>1. db'[Name(attempts)] = [by |-> attempts, state |-> "marked"]
        BY <1>1, <1>2, <1>3, <1>4, <3>2, SetupSetsDatabase
      <4> QED
        BY <1>2, <1>3, <1>6, <4>1 DEF Owned, Name, Managed
    <3> QED
      BY <1>7, <3>1, <3>2
  <2> QED
    BY <1>2, <1>3, <1>4, <1>6, <1>8, <2>1 DEF DoneOK, AllWritten, SetupSteps, Owned
<1>9. cmd'.pc = "rollback" \/ (cmd'.pc \in SetupSteps /\ DoneOK')
  BY <1>6, <1>8 DEF SetupSteps
<1> QED
  BY <1>1, <1>3, <1>4, <1>6, <1>7, <1>9, SetupDatabaseStep

\* Types are kept by a step of the command that changes the disk only.
LEMMA DiskTypes ==
    ASSUME Types, cmd' \in Commands,
           files' \in [Outputs -> 0..MaxAttempts],
           dir' \in BOOLEAN, litter' \in BOOLEAN,
           UNCHANGED <<roles, db, mode, setupJournal, nukeJournal, linked, status, attempts,
                       server>>
    PROVE  Types'
BY DEF Types, TypeOK

\* Writing an output file, of which a fault may leave nothing, all or a
\* temporary file.
LEMMA WriteOutputStep ==
    ASSUME Inv, WriteOutput
    PROVE  Inv'
<1>1. /\ cmd.pc \in Outputs
      /\ cmd.pc \in SetupSteps
      /\ UNCHANGED <<dir, roles, db, mode, setupJournal, nukeJournal, linked, status, attempts,
                     server>>
  BY DEF WriteOutput, Outputs, SetupSteps, postgres, journals
<1>2. /\ cmd \in Commands
      /\ cmd.instance = attempts
      /\ attempts \in Instances
      /\ setupJournal.phase = "provisioning"
      /\ Managed <=> mode[attempts] = "managed"
  BY <1>1, AtWork
<1>3. \/ /\ files' = [files EXCEPT ![cmd.pc] = attempts]
         /\ Goto(IF cmd.pc # "config" THEN After[cmd.pc]
                 ELSE IF Managed THEN "migrate" ELSE "create")
         /\ UNCHANGED litter
      \/ /\ \E i \in {0, attempts} : files' = [files EXCEPT ![cmd.pc] = i]
         /\ litter' \in BOOLEAN
         /\ Goto("undoFiles") \/ cmd' = Idle
  <2>1. litter \in BOOLEAN
    BY DEF Inv, Types, TypeOK
  <2> QED
    BY <1>2, <2>1 DEF WriteOutput
<1>4. /\ files \in [Outputs -> {0, attempts}]
      /\ files' \in [Outputs -> {0, attempts}]
  <2>1. files \in [Outputs -> 0..MaxAttempts] /\ \A o \in Outputs : files[o] \in {0, attempts}
    BY DEF Inv, Types, TypeOK, World, FilesOK
  <2>2. files \in [Outputs -> {0, attempts}]
    BY ONLY <2>1
  <2>3. \E i \in {0, attempts} : files' = [files EXCEPT ![cmd.pc] = i]
    BY ONLY <1>3
  <2> QED
    BY ONLY <1>1, <2>2, <2>3
<1>5. World'
  BY <1>1, <1>2, <1>4, SetupFiles DEF Inv
<1>6. ASSUME cmd' \in Commands PROVE Types'
  <2>1. files' \in [Outputs -> 0..MaxAttempts]
    <3>1. {0, attempts} \subseteq 0..MaxAttempts
      BY <1>2, InstallationBounds DEF Instances
    <3> QED
      BY ONLY <1>4, <3>1
  <2>2. dir' \in BOOLEAN /\ litter' \in BOOLEAN
    <3>1. dir \in BOOLEAN /\ litter \in BOOLEAN
      BY DEF Inv, Types, TypeOK
    <3> QED
      BY ONLY <1>1, <1>3, <3>1
  <2> QED
    BY <1>1, <1>6, <2>1, <2>2, DiskTypes DEF Inv
<1>7. CASE cmd' = Idle
  <2>1. cmd' \in Commands
    BY ONLY <1>7, IdleRelies
  <2> QED
    BY <1>1, <1>5, <1>6, <1>7, <2>1, SetupEnds
<1>8. CASE Goto("undoFiles")
  <2>1. cmd'.pc = "undoFiles" /\ cmd'.instance = cmd.instance /\ cmd' \in Commands
    BY <1>2, <1>8, GotoMoves DEF SetupSteps
  <2>2. DoneOK'
    BY <2>1 DEF DoneOK, AllWritten, SetupSteps
  <2>3. cmd'.pc \in SetupSteps
    BY <2>1 DEF SetupSteps
  <2> QED
    BY <1>1, <1>5, <1>6, <2>1, <2>2, <2>3, SetupContinues
<1>9. CASE /\ files' = [files EXCEPT ![cmd.pc] = attempts]
           /\ Goto(IF cmd.pc # "config" THEN After[cmd.pc]
                   ELSE IF Managed THEN "migrate" ELSE "create")
  <2>1. PICK there : there = IF cmd.pc # "config" THEN After[cmd.pc]
                             ELSE IF Managed THEN "migrate" ELSE "create"
    OBVIOUS
  <2>2. there \in {"key", "env", "marker", "config", "migrate", "create"}
    BY <1>1, <2>1 DEF After, Outputs
  <2>3. cmd'.pc = there /\ cmd'.instance = cmd.instance /\ cmd' \in Commands
    <3>1. Goto(there)
      BY ONLY <1>9, <2>1
    <3> QED
      BY <1>2, <2>2, <3>1, GotoMoves DEF SetupSteps
  <2>4. /\ cmd.pc = "material" => there = "key"
        /\ cmd.pc = "key" => there = "env"
        /\ cmd.pc = "env" => there = "marker"
        /\ cmd.pc = "marker" => there = "config"
        /\ cmd.pc = "config" => there = IF Managed THEN "migrate" ELSE "create"
    BY ONLY <2>1 DEF After
  <2>5. /\ files'[cmd.pc] = attempts
        /\ \A o \in Outputs : files[o] = attempts => files'[o] = attempts
    BY ONLY <1>1, <1>4, <1>9
  <2>6. /\ Managed => attempts \in roles
        /\ cmd.pc \in {"key", "env", "marker", "config"} => files["material"] = attempts
        /\ cmd.pc \in {"marker", "config"} => files["env"] = attempts
        /\ cmd.pc = "config" => files["marker"] = attempts
    BY <1>1, <1>2 DEF Inv, CommandOK, DoneOK, SetupSteps, Outputs
  <2>7. /\ there \in {"key", "env", "marker", "config", "migrate", "create"}
              => files'["material"] = attempts
        /\ there \in {"marker", "config", "migrate", "create"} => files'["env"] = attempts
        /\ there \in {"config", "migrate", "create"} => files'["marker"] = attempts
        /\ there \in {"migrate", "create"} => files'["config"] = attempts
        /\ there = "migrate" => Managed
    BY ONLY <1>1, <2>4, <2>5, <2>6 DEF Outputs
  <2>8. Managed' <=> Managed
    BY <1>1, <2>3 DEF Managed
  <2>9. DoneOK'
    BY <1>1, <1>2, <2>2, <2>3, <2>6, <2>7, <2>8 DEF DoneOK, AllWritten, SetupSteps
  <2>10. cmd'.pc \in SetupSteps
    BY <2>2, <2>3 DEF SetupSteps
  <2> QED
    BY <1>1, <1>5, <1>6, <2>3, <2>9, <2>10, SetupContinues
<1> QED
  BY <1>3, <1>7, <1>8, <1>9

\* Migrations and the installation row.
LEMMA MigrateDatabaseStep ==
    ASSUME Inv, MigrateDatabase
    PROVE  Inv'
<1>1. /\ cmd.pc = "migrate"
      /\ cmd.pc \in SetupSteps
      /\ UNCHANGED <<disk, roles, mode, journals, status, attempts, server>>
  BY DEF MigrateDatabase, SetupSteps
<1>2. UNCHANGED <<files, dir, litter, roles, mode, setupJournal, nukeJournal, linked, status,
                  attempts, server>>
  BY <1>1 DEF disk, journals
<1>3. /\ cmd \in Commands
      /\ cmd.instance = attempts
      /\ attempts \in Instances
      /\ Managed <=> mode[attempts] = "managed"
  BY <1>1, AtWork
<1>4. /\ Managed => attempts \in roles
      /\ \A o \in {"material", "env", "marker", "config"} : files[o] = attempts
      /\ ~Managed => Owned(attempts)
  BY <1>1, <1>3 DEF Inv, CommandOK, DoneOK, AllWritten, SetupSteps
<1>5. \/ Goto("adminKey") /\ SetDatabase("ready")
      \/ /\ Goto(IF Managed THEN "rollback" ELSE "dropNew")
         /\ SetDatabase("ready") \/ UNCHANGED db
  BY DEF MigrateDatabase
<1>6. /\ cmd'.pc \in {"adminKey", "rollback", "dropNew"}
      /\ cmd'.pc = "adminKey" => SetDatabase("ready")
      /\ cmd'.pc = "dropNew" => ~Managed
      /\ cmd'.instance = cmd.instance
      /\ cmd' \in Commands
  BY <1>3, <1>5, GotoMoves DEF SetupSteps
<1>7. UNCHANGED db \/ db' = [db EXCEPT ![Name(attempts)] = [by |-> attempts, state |-> "ready"]]
  BY <1>3, <1>5 DEF SetDatabase
<1>8. ASSUME cmd'.pc # "rollback" PROVE DoneOK'
  <2>1. /\ ~Managed => Owned(attempts)'
        /\ Managed' <=> Managed
        /\ cmd'.pc = "adminKey" => DatabaseVerifies(attempts)'
    <3>1. CASE UNCHANGED db /\ cmd'.pc # "adminKey"
      BY <1>2, <1>3, <1>4, <1>6, <3>1 DEF Owned, Name, Managed
    <3>2. CASE db' = [db EXCEPT ![Name(attempts)] = [by |-> attempts, state |-> "ready"]]
      <4>1. db'[Name(attempts)] = [by |-> attempts, state |-> "ready"]
        BY <1>1, <1>2, <1>3, <1>4, <3>2, SetupSetsDatabase
      <4> QED
        BY <1>2, <1>3, <1>6, <4>1 DEF Owned, Name, Managed, DatabaseVerifies
    <3> QED
      BY <1>3, <1>6, <1>7, <3>1, <3>2 DEF SetDatabase
  <2>2. DatabaseVerifies(attempts)' <=> DatabaseVerifies(cmd.instance)'
    BY <1>2, <1>3, <1>6
  <2>3. Owned(attempts)' <=> Owned(cmd.instance)'
    BY <1>2, <1>3, <1>6
  <2> QED
    BY <1>2, <1>3, <1>4, <1>6, <1>8, <2>1, <2>2, <2>3 DEF DoneOK, AllWritten, SetupSteps
<1>9. cmd'.pc = "rollback" \/ (cmd'.pc \in SetupSteps /\ DoneOK')
  BY <1>6, <1>8 DEF SetupSteps
<1> QED
  BY <1>1, <1>3, <1>4, <1>6, <1>7, <1>9, SetupDatabaseStep

\* Dropping the database that an external setup created.
LEMMA CleanupNewDatabaseStep ==
    ASSUME Inv, CleanupNewDatabase
    PROVE  Inv'
<1>1. /\ cmd.pc \in SetupSteps
      /\ Goto("rollback")
      /\ UNCHANGED <<disk, roles, mode, journals, status, attempts, server>>
  BY DEF CleanupNewDatabase, SetupSteps
<1>2. cmd \in Commands /\ cmd.instance = attempts
  BY <1>1, AtWork
<1>3. cmd'.pc = "rollback" /\ cmd'.instance = cmd.instance /\ cmd' \in Commands
  BY <1>1, <1>2, GotoMoves
<1>4. UNCHANGED db \/ db' = [db EXCEPT ![Name(attempts)] = NoDatabase]
  BY <1>2 DEF CleanupNewDatabase
<1> QED
  BY <1>1, <1>3, <1>4, SetupDatabaseStep

\* The key of the first Admin.
LEMMA CreateAdminKeyStep ==
    ASSUME Inv, CreateAdminKey
    PROVE  Inv'
<1>1. /\ cmd.pc = "adminKey"
      /\ cmd.pc \in SetupSteps
      /\ Goto("commit") \/ Goto("rollback")
      /\ UNCHANGED world
      /\ UNCHANGED <<linked, server>>
  BY DEF CreateAdminKey, SetupSteps, world, disk, postgres, journals
<1>2. cmd \in Commands
  BY <1>1, AtWork
<1>3. /\ cmd'.pc \in {"commit", "rollback"}
      /\ cmd'.instance = cmd.instance
      /\ cmd' \in Commands
  BY <1>1, <1>2, GotoMoves DEF SetupSteps
<1>4. World' /\ Types' /\ UNCHANGED <<server, attempts, setupJournal>>
  BY <1>1, <1>3, WorldUnchanged, MoveTypes DEF Inv, world
<1>5. CASE cmd'.pc = "commit"
  <2>1. DoneOK'
    BY <1>1, <1>3, <1>5 DEF Inv, CommandOK, DoneOK, AllWritten, SetupSteps, Managed,
       DatabaseVerifies, Owned, Name, world
  <2>2. cmd'.pc \in SetupSteps
    BY <1>5 DEF SetupSteps
  <2> QED
    BY <1>1, <1>3, <1>4, <2>1, <2>2, SetupContinues
<1>6. CASE cmd'.pc = "rollback"
  BY <1>1, <1>3, <1>4, <1>6, SetupGivesUp
<1> QED
  BY <1>3, <1>5, <1>6

\* A setup that has done everything may be recorded as committed.
LEMMA CommitWorld ==
    ASSUME Inv, cmd.pc = "commit",
           setupJournal' = [setupJournal EXCEPT !.phase = "committed"],
           status' = [status EXCEPT ![attempts] = "committed"],
           UNCHANGED <<files, dir, litter, roles, db, mode, nukeJournal, attempts>>
    PROVE  World'
<1>1. /\ cmd.instance = attempts
      /\ attempts \in Instances
      /\ setupJournal.phase = "provisioning"
      /\ status[attempts] = "begun"
      /\ Managed <=> mode[attempts] = "managed"
  BY AtWork DEF SetupSteps
<1>2. /\ mode[attempts] = "managed" => attempts \in roles
      /\ \A o \in {"material", "env", "marker", "config"} : files[o] = attempts
      /\ DatabaseVerifies(attempts)
  BY <1>1 DEF Inv, CommandOK, DoneOK, AllWritten, SetupSteps
<1>3. dir
  BY <1>1 DEF Inv, World, SetupJournalOK
<1>4. Whole(attempts)'
  BY <1>2, <1>3 DEF Whole, Outputs, DatabaseVerifies, Owned, Name
<1>5. /\ status'[attempts] = "committed"
      /\ \A i \in Instances : i # attempts => status'[i] = status[i]
  BY <1>1 DEF Inv, Types, TypeOK
<1>6. FilesOK' /\ DatabasesOK'
  BY DEF Inv, World, FilesOK, DataRootIsEmpty, DatabasesOK, NoDatabase
<1>7. UnusedOK'
  BY <1>1, <1>5 DEF Inv, World, UnusedOK, Instances
<1>8. KnownOK'
  <2> SUFFICES ASSUME NEW i \in Instances
               PROVE  /\ (status[i] = "committed" => i = attempts /\ Whole(i))'
                      /\ (status[i] = "begun" =>
                           Clean(i) \/ (setupJournal.phase = "provisioning" /\ i = attempts))'
                      /\ (status[i] = "authorized" =>
                           Clean(i) \/ (nukeJournal.phase # "none" /\ nukeJournal.instance = i))'
    BY DEF KnownOK
  <2>1. CASE i = attempts
    BY <1>4, <1>5, <2>1
  <2>2. CASE i # attempts
    <3>1. Clean(i) => Clean(i)'
      BY <1>5, <2>2 DEF Clean, Dropped, Owned, Name
    <3> QED
      BY <1>5, <2>2, <3>1 DEF Inv, World, KnownOK
  <2> QED
    BY <2>1, <2>2
<1>9. SetupJournalOK'
  <2>1. setupJournal'.phase = "committed" /\ setupJournal'.instance = setupJournal.instance
    BY DEF Inv, Types, TypeOK
  <2> QED
    BY <1>1, <1>5, <2>1 DEF Inv, World, SetupJournalOK
<1>10. NukeJournalOK'
  <2>1. ASSUME nukeJournal.phase # "none"
        PROVE  /\ nukeJournal.instance \in Instances
               /\ nukeJournal.instance # attempts
               /\ status'[nukeJournal.instance] = "authorized"
    BY <1>1, <1>5, <2>1, InstallationBounds DEF Inv, World, NukeJournalOK, Instances
  <2> QED
    BY <2>1 DEF Inv, World, NukeJournalOK, NoJournal, Dropped, Owned, Name
<1> QED
  BY <1>6, <1>7, <1>8, <1>9, <1>10 DEF World

\* The commit, which may have taken effect although it says it failed.
LEMMA MarkCommittedStep ==
    ASSUME Inv, MarkCommitted
    PROVE  Inv'
<1>1. /\ cmd.pc = "commit"
      /\ cmd.pc \in SetupSteps
      /\ UNCHANGED <<files, dir, roles, db, mode, nukeJournal, linked, attempts, server>>
  BY DEF MarkCommitted, SetupSteps, postgres
<1>2. /\ cmd \in Commands
      /\ cmd.instance = attempts
      /\ attempts \in Instances
      /\ attempts # 0
      /\ setupJournal.phase = "provisioning"
  BY <1>1, AtWork DEF Instances
<1>3. \/ /\ Goto("retire") \/ Goto("rollback") \/ cmd' = Idle
         /\ setupJournal' = [setupJournal EXCEPT !.phase = "committed"]
         /\ status' = [status EXCEPT ![attempts] = "committed"]
         /\ UNCHANGED litter
      \/ /\ Goto("rollback") \/ cmd' = Idle
         /\ UNCHANGED <<setupJournal, status>> /\ litter' \in {litter, TRUE}
  BY <1>2 DEF MarkCommitted
<1>4. ASSUME Goto("retire") \/ Goto("rollback")
      PROVE  /\ cmd'.pc \in {"retire", "rollback"}
             /\ cmd'.instance = cmd.instance
             /\ cmd' \in Commands
             /\ Goto("rollback") => cmd'.pc = "rollback"
  BY <1>2, <1>4, GotoMoves
<1>5. cmd' = Idle => cmd' \in Commands /\ CommandOK' /\ ~ResetHoldsLock'
  BY ONLY IdleRelies
<1>6. CASE /\ Goto("rollback") \/ cmd' = Idle
           /\ UNCHANGED <<setupJournal, status>> /\ litter' \in {litter, TRUE}
  <2>1. files' \in [Outputs -> {0, attempts}]
    <3>1. files \in [Outputs -> 0..MaxAttempts] /\ \A o \in Outputs : files[o] \in {0, attempts}
      BY DEF Inv, Types, TypeOK, World, FilesOK
    <3> QED
      BY ONLY <1>1, <3>1
  <2>2. World'
    BY <1>1, <1>2, <1>6, <2>1, SetupFiles DEF Inv
  <2>3. cmd' \in Commands
    BY <1>4, <1>5, <1>6
  <2>4. dir' \in BOOLEAN /\ litter' \in BOOLEAN
    <3>1. dir \in BOOLEAN /\ litter \in BOOLEAN
      BY DEF Inv, Types, TypeOK
    <3> QED
      BY ONLY <1>1, <1>6, <3>1
  <2>5. files' \in [Outputs -> 0..MaxAttempts]
    BY <1>1 DEF Inv, Types, TypeOK
  <2>6. Types'
    BY <1>1, <1>6, <2>3, <2>4, <2>5, DiskTypes DEF Inv
  <2>7. CASE cmd' = Idle
    BY <1>1, <2>2, <2>6, <2>7, SetupEnds
  <2>8. CASE Goto("rollback")
    BY <1>1, <1>4, <1>6, <2>2, <2>6, <2>8, SetupGivesUp
  <2> QED
    BY <1>6, <2>7, <2>8
<1>7. CASE /\ Goto("retire") \/ Goto("rollback") \/ cmd' = Idle
           /\ setupJournal' = [setupJournal EXCEPT !.phase = "committed"]
           /\ status' = [status EXCEPT ![attempts] = "committed"]
           /\ UNCHANGED litter
  <2>1. World'
    BY <1>1, <1>7, CommitWorld
  <2>2. status'[attempts'] = "committed" /\ setupJournal'.phase = "committed"
    BY <1>1, <1>2, <1>7 DEF Inv, Types, TypeOK
  <2>3. Types'
    <3>1. cmd' \in Commands
      BY <1>4, <1>5, <1>7
    <3> QED
      BY <1>1, <1>2, <1>7, <3>1 DEF Inv, Types, TypeOK
  <2>4. CommandOK' /\ ~ResetHoldsLock'
    <3>1. CASE cmd' = Idle
      BY <1>5, <3>1
    <3>2. CASE Goto("rollback")
      BY <1>1, <1>2, <1>4, <2>2, <3>2, RollingBack
    <3>3. CASE Goto("retire")
      <4>1. cmd'.pc = "retire" /\ cmd'.instance = attempts
        BY <1>2, <3>3, GotoMoves
      <4>2. SetupOK'
        BY <1>1, <1>2, <2>2, <4>1 DEF SetupOK, SetupSteps, CleanSteps
      <4> QED
        BY <4>1, <4>2 DEF CommandOK, SetupSteps, DoneOK, AllWritten, CleanOK, NukeOK,
                          ResetHoldsLock, ResetSteps, Finishing
    <3> QED
      BY <1>7, <3>1, <3>2, <3>3
  <2>5. ServerOK'
    BY <1>1, <1>2, <2>4, ServerKept DEF Inv
  <2> QED
    BY <2>1, <2>3, <2>4, <2>5 DEF Inv
<1> QED
  BY <1>3, <1>6, <1>7

\* Retiring the journal of a committed setup.
LEMMA RetireCommittedStep ==
    ASSUME Inv, RetireCommitted
    PROVE  Inv'
<1>1. /\ cmd.pc = "retire"
      /\ cmd' = Idle
      /\ setupJournal' = NoJournal \/ UNCHANGED setupJournal
      /\ UNCHANGED <<files, dir, litter, roles, db, mode, nukeJournal, linked, status, attempts,
                     server>>
  BY DEF RetireCommitted, disk, postgres
<1>2. CASE UNCHANGED setupJournal
  BY <1>1, <1>2, EndStep DEF world
<1>3. CASE setupJournal' = NoJournal
  <2>1. setupJournal.phase # "provisioning"
    BY <1>1 DEF Inv, CommandOK, SetupOK, World, SetupJournalOK
  <2>2. World'
    BY <1>1, <1>3, <2>1, JournalRetired DEF Inv
  <2>3. CommandOK' /\ cmd' \in Commands /\ ~ResetHoldsLock'
    BY ONLY <1>1, IdleRelies
  <2>4. Types'
    <3>1. setupJournal' \in [phase : {"none", "provisioning", "committed"}, instance : 0..MaxAttempts]
      BY <1>3, InstallationBounds DEF NoJournal
    <3>2. nukeJournal' \in [phase : {"none", "authorized", "dropped"}, instance : 0..MaxAttempts]
      BY <1>1 DEF Inv, Types, TypeOK
    <3> QED
      BY <1>1, <2>3, <3>1, <3>2, JournalTypes DEF Inv
  <2>5. ServerOK'
    <3>1. setupJournal'.phase # "provisioning"
      BY <1>3 DEF NoJournal
    <3> QED
      BY <1>1, <2>3, <3>1, ServerKept DEF Inv
  <2> QED
    BY <2>2, <2>3, <2>4, <2>5 DEF Inv
<1> QED
  BY <1>1, <1>2, <1>3

----------------------------------------------------------------------------
(***************************************************************************)
(* Rolling back keeps the invariant, action by action.                     *)
(***************************************************************************)

\* Looking at the journal before the roll-back.
LEMMA RollbackCurrentSetupStep ==
    ASSUME Inv, RollbackCurrentSetup
    PROVE  Inv'
<1>1. /\ cmd.pc = "rollback"
      /\ IF setupJournal.phase = "provisioning" THEN Goto("cleanDatabase") ELSE cmd' = Idle
      /\ UNCHANGED world
      /\ UNCHANGED <<linked, server>>
  BY DEF RollbackCurrentSetup, world, disk, postgres, journals
<1>2. CASE setupJournal.phase # "provisioning"
  BY <1>1, <1>2, EndStep
<1>3. CASE setupJournal.phase = "provisioning"
  <2>1. /\ cmd'.pc = "cleanDatabase"
        /\ cmd'.instance = cmd.instance
        /\ cmd' \in Commands
    BY <1>1, <1>3, GotoMoves DEF Inv, Types, CleanSteps
  <2>2. cmd.instance = attempts /\ attempts # 0
    BY <1>1 DEF Inv, CommandOK, SetupOK
  <2>3. World' /\ Types'
    BY <1>1, <2>1, WorldUnchanged, MoveTypes DEF Inv
  <2>4. cmd'.pc \in CleanSteps
    BY <2>1 DEF CleanSteps
  <2>5. SetupOK' /\ DoneOK' /\ NukeOK' /\ ~ResetHoldsLock'
    BY <1>1, <1>3, <2>1, <2>2, <2>4, Provisioning, InCleanup DEF world
  <2>6. CleanOK'
    BY <2>1 DEF CleanOK
  <2>7. ServerOK'
    BY <1>1, <1>3, <2>5, ServerKept DEF Inv, world
  <2> QED
    BY <2>3, <2>5, <2>6, <2>7 DEF Inv, CommandOK
<1> QED
  BY <1>2, <1>3

\* Dropping the database of an abandoned setup.
LEMMA CleanDatabaseStep ==
    ASSUME Inv, CleanDatabase
    PROVE  Inv'
<1>1. /\ cmd.pc = "cleanDatabase"
      /\ cmd.pc \in CleanSteps
      /\ UNCHANGED <<files, dir, litter, roles, mode, setupJournal, nukeJournal, linked, status,
                     attempts, server>>
  BY DEF CleanDatabase, CleanSteps, disk, journals
<1>2. /\ cmd \in Commands
      /\ cmd.instance = attempts
      /\ attempts \in Instances
      /\ Managed <=> mode[attempts] = "managed"
  BY <1>1, AtWork
<1>3. UNCHANGED db \/ db' = [db EXCEPT ![Name(attempts)] = NoDatabase]
  BY <1>2 DEF CleanDatabase, CleanManaged, CleanExternal, DropDatabase
<1>4. \/ /\ Managed
         /\ Goto("cleanRole")
         /\ IF attempts \in roles THEN db' = [db EXCEPT ![Name(attempts)] = NoDatabase]
            ELSE UNCHANGED db
      \/ ~Managed /\ Goto("cleanFiles")
      \/ GotoFailed("cleanFiles")
  BY <1>2 DEF CleanDatabase, CleanManaged, DropDatabase
<1>5. /\ cmd'.instance = cmd.instance
      /\ cmd' \in Commands
      /\ cmd'.pc \in {"cleanRole", "cleanFiles"}
      /\ cmd'.pc = "cleanRole" =>
            /\ Managed
            /\ IF attempts \in roles THEN db' = [db EXCEPT ![Name(attempts)] = NoDatabase]
               ELSE UNCHANGED db
      /\ cmd'.pc = "cleanFiles" => cmd'.failed \/ ~Managed
  BY <1>2, <1>4, GotoMoves, GotoFailedMoves DEF CleanSteps
<1>6. /\ World'
      /\ db' \in [0..MaxAttempts -> [by : 0..MaxAttempts,
                                     state : {"none", "bare", "marked", "ready"}]]
      /\ ~UNCHANGED db => db'[Name(attempts)] = NoDatabase
  <2>1. CASE UNCHANGED db
    BY <1>1, <2>1, WorldUnchanged DEF world, Inv, Types, TypeOK
  <2>2. CASE ~UNCHANGED db
    BY <1>1, <1>3, <2>2, SetupSetsDatabase
  <2> QED
    BY <2>1, <2>2
<1>7. Types'
  <2>1. roles' \subseteq Instances
    BY <1>1 DEF Inv, Types, TypeOK
  <2> QED
    BY <1>1, <1>5, <1>6, <2>1, PostgresTypes DEF Inv
<1>8. Managed' <=> Managed
  BY <1>1, <1>5 DEF Managed
<1>9. CASE cmd'.pc = "cleanRole"
  <2>1. Dropped(attempts)'
    <3>1. CASE attempts \in roles
      <4>1. db' = [db EXCEPT ![Name(attempts)] = NoDatabase]
        BY <1>5, <1>9, <3>1
      <4>2. db'[Name(attempts)] = NoDatabase
        BY <1>1, <4>1, SetupSetsDatabase
      <4> QED
        BY <1>1, <4>2 DEF Dropped, Name, NoDatabase
    <3>2. CASE attempts \notin roles
      BY <1>1, <1>2, <1>5, <1>9, <3>2 DEF Inv, World, DatabasesOK, Dropped, Name
    <3> QED
      BY <3>1, <3>2
  <2>2. Dropped(cmd.instance)'
    BY <1>1, <1>2, <1>5, <2>1
  <2>3. CleanOK'
    BY <1>5, <1>8, <1>9, <2>2 DEF CleanOK
  <2>4. cmd'.pc \in CleanSteps
    BY <1>9 DEF CleanSteps
  <2> QED
    BY <1>1, <1>5, <1>6, <1>7, <2>3, <2>4, CleanupContinues
<1>10. CASE cmd'.pc = "cleanFiles"
  <2>1. cmd'.failed \/ (~Managed' /\ attempts \notin roles')
    BY <1>1, <1>2, <1>5, <1>8, <1>10 DEF Inv, World, DatabasesOK
  <2>2. CleanOK'
    BY <1>1, <1>2, <1>5, <1>10, <2>1 DEF CleanOK
  <2>3. cmd'.pc \in CleanSteps
    BY <1>10 DEF CleanSteps
  <2> QED
    BY <1>1, <1>5, <1>6, <1>7, <2>2, <2>3, CleanupContinues
<1> QED
  BY <1>5, <1>9, <1>10

\* Dropping the role of an abandoned setup.
LEMMA CleanRoleStep ==
    ASSUME Inv, CleanRole
    PROVE  Inv'
<1>1. /\ cmd.pc = "cleanRole"
      /\ cmd.pc \in CleanSteps
      /\ UNCHANGED <<files, dir, litter, db, mode, setupJournal, nukeJournal, linked, status,
                     attempts, server>>
  BY DEF CleanRole, CleanSteps, disk, journals
<1>2. /\ cmd \in Commands
      /\ cmd.instance = attempts
      /\ attempts \in Instances
      /\ status[attempts] = "begun"
  BY <1>1, AtWork
<1>3. Dropped(attempts)
  BY <1>1, <1>2 DEF Inv, CommandOK, CleanOK
<1>4. \/ Goto("cleanFiles") /\ roles' = roles \ {attempts}
      \/ GotoFailed("cleanFiles") /\ UNCHANGED roles
  BY <1>2 DEF CleanRole
<1>5. /\ cmd'.pc = "cleanFiles"
      /\ cmd'.instance = cmd.instance
      /\ cmd' \in Commands
      /\ cmd'.failed \/ attempts \notin roles'
      /\ roles' = roles \/ roles' = roles \ {attempts}
  BY <1>2, <1>4, GotoMoves, GotoFailedMoves DEF CleanSteps
<1>6. World'
  <2>1. CASE roles' = roles
    BY <1>1, <2>1, WorldUnchanged DEF Inv, world
  <2>2. CASE roles' = roles \ {attempts}
    <3>1. nukeJournal.phase = "authorized" => attempts # nukeJournal.instance
      BY <1>2 DEF Inv, World, NukeJournalOK
    <3> QED
      BY <1>1, <1>2, <1>3, <2>2, <3>1, RoleGoes DEF Inv
  <2> QED
    BY <1>5, <2>1, <2>2
<1>7. Types'
  <2>1. roles' \subseteq Instances
    BY <1>5 DEF Inv, Types, TypeOK
  <2>2. db' \in [0..MaxAttempts -> [by : 0..MaxAttempts,
                                    state : {"none", "bare", "marked", "ready"}]]
    BY <1>1 DEF Inv, Types, TypeOK
  <2> QED
    BY <1>1, <1>5, <2>1, <2>2, PostgresTypes DEF Inv
<1>8. Dropped(attempts)'
  BY <1>1, <1>3 DEF Dropped, Owned, Name
<1>9. Dropped(cmd.instance)'
  BY <1>1, <1>2, <1>5, <1>8
<1>10. CleanOK'
  BY <1>2, <1>5, <1>9 DEF CleanOK
<1>11. cmd'.pc \in CleanSteps
  BY <1>5 DEF CleanSteps
<1> QED
  BY <1>1, <1>5, <1>6, <1>7, <1>10, <1>11, CleanupContinues

\* Removing the files of an abandoned setup.
LEMMA RollbackFilesStep ==
    ASSUME Inv, RollbackFiles
    PROVE  Inv'
<1>1. /\ cmd.pc \in {"undoFiles", "cleanFiles"}
      /\ UNCHANGED <<dir, litter, roles, db, mode, setupJournal, nukeJournal, linked, status,
                     attempts, server>>
  BY DEF RollbackFiles, postgres, journals
<1>2. /\ cmd \in Commands
      /\ cmd.instance = attempts
      /\ attempts \in Instances
      /\ setupJournal.phase = "provisioning"
  BY <1>1, AtWork DEF SetupSteps, CleanSteps
<1>3. \/ /\ files' = Kept({})
         /\ Goto(IF cmd.pc = "undoFiles" THEN "rollback" ELSE "cleanJournal")
      \/ /\ \E kept \in SUBSET Present \ {{}} : files' = Kept(kept)
         /\ \/ cmd' = Idle
            \/ cmd.pc = "undoFiles" /\ Goto("rollback")
            \/ cmd.pc = "cleanFiles" /\ GotoFailed("cleanJournal")
  BY DEF RollbackFiles
<1>4. \E kept : files' = Kept(kept)
  BY <1>3
<1>5. files' \in [Outputs -> {0, attempts}]
  BY <1>4 DEF Kept, Inv, World, FilesOK
<1>6. World'
  BY <1>1, <1>2, <1>5, SetupFiles DEF Inv
<1>7. ASSUME cmd' \in Commands PROVE Types'
  <2>1. files' \in [Outputs -> 0..MaxAttempts]
    <3>1. {0, attempts} \subseteq 0..MaxAttempts
      BY <1>2, InstallationBounds DEF Instances
    <3> QED
      BY ONLY <1>5, <3>1
  <2>2. dir' \in BOOLEAN /\ litter' \in BOOLEAN
    <3>1. dir \in BOOLEAN /\ litter \in BOOLEAN
      BY DEF Inv, Types, TypeOK
    <3> QED
      BY ONLY <1>1, <3>1
  <2> QED
    BY <1>1, <1>7, <2>1, <2>2, DiskTypes DEF Inv
<1>8. CASE cmd' = Idle
  <2>1. cmd' \in Commands
    BY ONLY <1>8, IdleRelies
  <2>2. cmd.pc \in SetupSteps \cup CleanSteps
    BY <1>1 DEF SetupSteps, CleanSteps
  <2> QED
    BY <1>1, <1>6, <1>7, <1>8, <2>1, <2>2, SetupEnds
<1>9. CASE cmd.pc = "undoFiles" /\ Goto("rollback")
  <2>1. cmd'.pc = "rollback" /\ cmd'.instance = cmd.instance /\ cmd' \in Commands
    BY <1>2, <1>9, GotoMoves
  <2>2. cmd.pc \in SetupSteps
    BY <1>9 DEF SetupSteps
  <2> QED
    BY <1>1, <1>6, <1>7, <2>1, <2>2, SetupGivesUp
<1>10. CASE /\ cmd.pc = "cleanFiles"
            /\ \/ Goto("cleanJournal") /\ files' = Kept({})
               \/ GotoFailed("cleanJournal")
  <2>1. /\ cmd'.pc = "cleanJournal"
        /\ cmd'.instance = cmd.instance
        /\ cmd' \in Commands
        /\ cmd'.failed \/ (cmd'.failed = cmd.failed /\ files' = Kept({}))
    BY <1>2, <1>10, GotoMoves, GotoFailedMoves DEF CleanSteps
  <2>2. cmd.pc \in CleanSteps /\ cmd'.pc \in CleanSteps
    BY <1>10, <2>1 DEF CleanSteps
  <2>3. CleanOK'
    <3>1. CASE cmd'.failed
      BY <2>1, <3>1 DEF CleanOK
    <3>2. CASE ~cmd'.failed
      <4>1. ~cmd.failed /\ files' = Kept({})
        BY <2>1, <3>2
      <4>2. attempts \notin roles /\ (Managed => Dropped(attempts))
        BY <1>2, <1>10, <4>1 DEF Inv, CommandOK, CleanOK
      <4>3. \A o \in Outputs : files'[o] = 0
        BY <4>1 DEF Kept
      <4>4. Managed' => Dropped(cmd.instance)'
        BY <1>1, <1>2, <2>1, <4>2 DEF Managed, Dropped, Owned, Name
      <4> QED
        BY <1>1, <1>2, <2>1, <4>2, <4>3, <4>4 DEF CleanOK
    <3> QED
      BY <3>1, <3>2
  <2> QED
    BY <1>1, <1>6, <1>7, <2>1, <2>2, <2>3, CleanupContinues
<1> QED
  BY <1>1, <1>3, <1>8, <1>9, <1>10

\* A setup that is cleaned up may be forgotten.
LEMMA CleanedWorld ==
    ASSUME Inv, cmd.pc = "cleanJournal", ~cmd.failed,
           setupJournal' = NoJournal,
           dir' = dir \/ dir' = litter,
           UNCHANGED <<files, litter, roles, db, mode, nukeJournal, status, attempts>>
    PROVE  World'
<1>1. /\ cmd.instance = attempts
      /\ attempts \in Instances
      /\ setupJournal.phase = "provisioning"
      /\ status[attempts] = "begun"
      /\ Managed <=> mode[attempts] = "managed"
  BY AtWork DEF CleanSteps
<1>2. /\ attempts \notin roles
      /\ mode[attempts] = "managed" => Dropped(attempts)
      /\ \A o \in Outputs : files[o] = 0
  BY <1>1 DEF Inv, CommandOK, CleanOK
<1>3. FilesOK'
  <2>1. dir
    BY <1>1 DEF Inv, World, SetupJournalOK
  <2>2. litter' = litter
    OBVIOUS
  <2>3. ~dir' => ~litter'
    BY ONLY <2>1, <2>2, dir' = dir \/ dir' = litter
  <2>4. \A o \in Outputs : files'[o] = 0
    BY <1>2
  <2>5. ~dir' => DataRootIsEmpty'
    BY <2>3, <2>4 DEF DataRootIsEmpty, Outputs
  <2> QED
    BY <2>4, <2>5 DEF FilesOK
<1>4. DatabasesOK' /\ UnusedOK'
  BY DEF Inv, World, DatabasesOK, UnusedOK, NoDatabase
<1>5. KnownOK'
  <2> SUFFICES ASSUME NEW i \in Instances
               PROVE  /\ (status[i] = "committed" => i = attempts /\ Whole(i))'
                      /\ (status[i] = "begun" =>
                           Clean(i) \/ (setupJournal.phase = "provisioning" /\ i = attempts))'
                      /\ (status[i] = "authorized" =>
                           Clean(i) \/ (nukeJournal.phase # "none" /\ nukeJournal.instance = i))'
    BY DEF KnownOK
  <2>1. Clean(i) => Clean(i)'
    BY DEF Clean, Dropped, Owned, Name
  <2>2. Clean(attempts)'
    BY <1>1, <1>2 DEF Clean, Dropped, Owned, Name, Instances, Outputs
  <2>3. CASE i = attempts
    BY <1>1, <2>2, <2>3
  <2>4. CASE i # attempts
    BY <2>1, <2>4 DEF Inv, World, KnownOK
  <2> QED
    BY <2>3, <2>4
<1>6. SetupJournalOK'
  BY DEF SetupJournalOK, NoJournal
<1>7. NukeJournalOK'
  BY <1>1 DEF Inv, World, NukeJournalOK, NoJournal, Dropped, Owned, Name
<1> QED
  BY <1>3, <1>4, <1>5, <1>6, <1>7 DEF World

\* Removing the journal of an abandoned setup.
LEMMA CleanJournalStep ==
    ASSUME Inv, CleanJournal
    PROVE  Inv'
<1>1. /\ cmd.pc = "cleanJournal"
      /\ cmd.pc \in SetupSteps \cup CleanSteps
      /\ UNCHANGED <<files, litter, roles, db, mode, nukeJournal, linked, status, attempts,
                     server>>
  BY DEF CleanJournal, CleanSteps, postgres
<1>2. \/ cmd' = Idle /\ UNCHANGED <<setupJournal, dir>>
      \/ /\ ~cmd.failed
         /\ setupJournal' = NoJournal
         /\ dir' = dir \/ dir' = litter
         /\ cmd' = Idle \/ cmd' = [Idle EXCEPT !.pc = cmd.next]
  BY DEF CleanJournal
<1>3. CASE cmd' = Idle /\ UNCHANGED <<setupJournal, dir>>
  BY <1>1, <1>3, EndStep DEF world
<1>4. CASE /\ ~cmd.failed
           /\ setupJournal' = NoJournal
           /\ dir' = dir \/ dir' = litter
           /\ cmd' = Idle \/ cmd' = [Idle EXCEPT !.pc = cmd.next]
  <2>1. World'
    BY <1>1, <1>4, CleanedWorld
  <2>2. cmd.next \in {"idle", "fresh"}
    BY DEF Inv, Types, Commands
  <2>3. cmd' = Idle \/ (cmd'.pc = "fresh" /\ cmd' \in Commands)
    <3>1. CASE cmd' = Idle \/ cmd.next = "idle"
      BY <1>4, <3>1 DEF Idle
    <3>2. CASE cmd' = [Idle EXCEPT !.pc = "fresh"]
      BY ONLY <3>2, IdleMoves
    <3> QED
      BY <1>4, <2>2, <3>1, <3>2
  <2>4. CommandOK' /\ cmd' \in Commands /\ ~ResetHoldsLock'
    <3>1. CASE cmd' = Idle
      BY ONLY <3>1, IdleRelies
    <3>2. CASE cmd'.pc = "fresh" /\ cmd' \in Commands
      <4>1. SetupOK'
        BY <1>4, <3>2 DEF SetupOK, SetupSteps, CleanSteps
      <4> QED
        BY <3>2, <4>1 DEF CommandOK, SetupSteps, DoneOK, AllWritten, CleanOK, NukeOK,
                          ResetHoldsLock, ResetSteps, Finishing
    <3> QED
      BY <2>3, <3>1, <3>2
  <2>5. Types'
    <3>1. setupJournal' \in [phase : {"none", "provisioning", "committed"}, instance : 0..MaxAttempts]
      BY <1>4, InstallationBounds DEF NoJournal
    <3>2. dir' \in BOOLEAN /\ litter' \in BOOLEAN
      <4>1. dir \in BOOLEAN /\ litter \in BOOLEAN
        BY DEF Inv, Types, TypeOK
      <4> QED
        BY ONLY <1>1, <1>4, <4>1
    <3> QED
      BY <1>1, <2>4, <3>1, <3>2 DEF Inv, Types, TypeOK
  <2>6. setupJournal.phase = "provisioning"
    BY <1>1, AtWork
  <2>7. ServerOK'
    BY <1>1, <2>4, <2>6, ServerKept DEF Inv
  <2> QED
    BY <2>1, <2>4, <2>5, <2>7 DEF Inv
<1> QED
  BY <1>2, <1>3, <1>4

----------------------------------------------------------------------------
(***************************************************************************)
(* --nuke keeps the invariant, action by action.                           *)
(***************************************************************************)

\* Looking for an interrupted setup before a reset.
LEMMA ResetInterruptedSetupStep ==
    ASSUME Inv, ResetInterruptedSetup
    PROVE  Inv'
<1> USE DEF Inv
<1>1. /\ cmd = Idle
      /\ UNCHANGED <<files, dir, litter, roles, db, mode, nukeJournal, linked, status,
                     attempts, server>>
  BY DEF ResetInterruptedSetup, disk, postgres
<1>2. CASE /\ setupJournal.phase # "provisioning"
           /\ setupJournal.phase = "none" \/ setupJournal' = NoJournal
           /\ setupJournal' = setupJournal \/ setupJournal' = NoJournal
           /\ cmd' = [Idle EXCEPT !.pc = "nuke"]
  <2>1. cmd' \in Commands /\ cmd'.pc = "nuke"
    BY ONLY <1>2, IdleMoves
  <2>2. setupJournal' = NoJournal
    BY <1>2 DEF World, SetupJournalOK
  <2>3. World'
    BY <1>1, <1>2, <2>2, JournalRetired
  <2>4. Types'
    <3>1. setupJournal' \in [phase : {"none", "provisioning", "committed"}, instance : 0..MaxAttempts]
      BY <2>2, InstallationBounds DEF NoJournal
    <3>2. nukeJournal' \in [phase : {"none", "authorized", "dropped"}, instance : 0..MaxAttempts]
      BY <1>1 DEF Types, TypeOK
    <3> QED
      BY <1>1, <2>1, <3>1, <3>2, JournalTypes
  <2>5. CommandOK' /\ ~ResetHoldsLock'
    <3>1. SetupOK' /\ DoneOK' /\ CleanOK'
      BY <2>1, InReset
    <3>2. NukeOK'
      BY <2>1, <2>2 DEF NukeOK, ResetSteps, Finishing
    <3> QED
      BY <2>1, <3>1, <3>2 DEF CommandOK, ResetHoldsLock, ResetSteps
  <2>6. setupJournal'.phase # "provisioning"
    BY <2>2 DEF NoJournal
  <2>7. ServerOK'
    BY <1>1, <2>5, <2>6, ServerKept
  <2> QED
    BY <2>3, <2>4, <2>5, <2>7
<1>3. CASE /\ setupJournal.phase = "provisioning"
           /\ cmd' = [Idle EXCEPT !.pc = "cleanDatabase", !.instance = setupJournal.instance]
           /\ UNCHANGED setupJournal
  <2>1. setupJournal.instance = attempts /\ attempts # 0 /\ attempts \in 0..MaxAttempts
    BY <1>3 DEF World, SetupJournalOK, Types, TypeOK
  <2>2. cmd' \in Commands /\ cmd'.pc = "cleanDatabase" /\ cmd'.instance = attempts
    BY <1>3, <2>1 DEF Idle, Commands, CleanSteps
  <2>3. World' /\ Types'
    BY <1>1, <1>3, <2>2, WorldUnchanged, MoveTypes DEF world
  <2>4. SetupOK' /\ DoneOK' /\ NukeOK' /\ ~ResetHoldsLock'
    BY <1>1, <1>3, <2>1, <2>2, Provisioning, InCleanup DEF CleanSteps
  <2>5. CleanOK'
    BY <2>2 DEF CleanOK
  <2>6. ServerOK'
    BY <1>1, <1>3, <2>4, ServerKept
  <2> QED
    BY <2>3, <2>4, <2>5, <2>6 DEF CommandOK
<1> QED
  BY <1>2, <1>3 DEF ResetInterruptedSetup

\* Without journals, a configuration is that of a committed installation.
LEMMA ConfiguredIsCommitted ==
    ASSUME Types, World, setupJournal = NoJournal, nukeJournal = NoJournal,
           files["config"] # 0
    PROVE  /\ files["config"] = attempts
           /\ attempts \in Instances
           /\ status[attempts] = "committed"
<1>1. files["config"] = attempts /\ attempts \in Instances
  BY DEF World, FilesOK, Outputs, Types, TypeOK, Instances
<1>2. status[attempts] \in {"unused", "begun", "committed", "authorized"}
  BY <1>1 DEF Types, TypeOK
<1>3. status[attempts] # "unused"
  BY <1>1 DEF World, UnusedOK, Outputs
<1>4. ~Clean(attempts)
  BY <1>1 DEF Clean, Outputs
<1>5. status[attempts] \notin {"begun", "authorized"}
  BY <1>1, <1>4 DEF World, KnownOK, NoJournal
<1> QED
  BY <1>1, <1>2, <1>3, <1>5

\* Authorizing a reset, or resuming one.
LEMMA StartNukeStep ==
    ASSUME Inv, StartNuke
    PROVE  Inv'
<1> USE DEF Inv
<1>1. /\ cmd.pc = "nuke"
      /\ UNCHANGED world
      /\ UNCHANGED <<linked, server>>
  BY DEF StartNuke, world, disk, postgres, journals
<1>2. setupJournal = NoJournal
  BY <1>1 DEF CommandOK, NukeOK
<1>3. CASE cmd' = Idle
  BY <1>1, <1>3, EndStep
<1>4. CASE Authorizes /\ cmd' = [Idle EXCEPT !.pc = "authorize", !.instance = files["config"]]
  <2>1. nukeJournal = NoJournal /\ files["config"] # 0 /\ ~ServerHoldsLock
    BY <1>4 DEF Authorizes, LockIsFree, World, NukeJournalOK
  <2>2. /\ files["config"] = attempts
        /\ attempts \in Instances
        /\ status[attempts] = "committed"
    BY <1>2, <2>1, ConfiguredIsCommitted
  <2>3. cmd'.pc = "authorize" /\ cmd'.instance = attempts /\ cmd' \in Commands
    <3>1. attempts \in 0..MaxAttempts
      BY DEF Types, TypeOK
    <3>2. cmd' = [pc |-> "authorize", instance |-> attempts, failed |-> FALSE, next |-> "idle"]
      BY <1>4, <2>2 DEF Idle
    <3> QED
      BY <3>1, <3>2 DEF Commands, ResetSteps
  <2>4. World' /\ Types'
    BY <1>1, <2>3, WorldUnchanged, MoveTypes
  <2>5. NukeOK'
    BY <1>1, <1>2, <2>1, <2>2, <2>3 DEF NukeOK, ResetSteps, Finishing, world, Instances
  <2>6. SetupOK' /\ DoneOK' /\ CleanOK'
    BY <2>3, InReset DEF ResetSteps
  <2>7. ServerOK'
    BY <1>1, <2>1, ServerKept DEF world
  <2> QED
    BY <2>4, <2>5, <2>6, <2>7 DEF CommandOK
<1>5. CASE /\ Resumes
           /\ cmd' = [Idle EXCEPT !.instance = nukeJournal.instance,
                       !.pc = IF nukeJournal.phase = "authorized" THEN "dropDatabase" ELSE "dropRole"]
  <2>1. nukeJournal.phase # "none" /\ JournalHolds(nukeJournal) /\ ~ServerHoldsLock
    BY <1>5 DEF Resumes, LockIsFree
  <2>2. /\ nukeJournal.instance \in 0..MaxAttempts
        /\ nukeJournal.instance \in 1..attempts
        /\ attempts \in Instances
        /\ status[nukeJournal.instance] = "authorized"
        /\ nukeJournal.phase \in {"authorized", "dropped"}
    BY <2>1 DEF Types, TypeOK, World, NukeJournalOK, Instances
  <2>3. status[attempts] # "committed"
    <3> SUFFICES ASSUME status[attempts] = "committed" PROVE FALSE
      OBVIOUS
    <3>1. Whole(attempts) /\ nukeJournal.instance # attempts
      BY <2>2 DEF World, KnownOK
    <3>2. dir /\ files["marker"] = attempts /\ attempts # 0
      BY <2>2, <3>1 DEF Whole, Outputs, Instances
    <3> QED
      BY <2>1, <3>1, <3>2 DEF JournalHolds, MarkerHolds, DataRootIsEmpty
  <2>4. /\ cmd'.pc = IF nukeJournal.phase = "authorized" THEN "dropDatabase" ELSE "dropRole"
        /\ cmd'.instance = nukeJournal.instance
        /\ cmd' \in Commands
    <3>1. cmd' = [pc |-> IF nukeJournal.phase = "authorized" THEN "dropDatabase" ELSE "dropRole",
                  instance |-> nukeJournal.instance, failed |-> FALSE, next |-> "idle"]
      BY <1>5 DEF Idle
    <3> QED
      BY <2>2, <3>1 DEF Commands, ResetSteps
  <2>5. World' /\ Types'
    BY <1>1, <2>4, WorldUnchanged, MoveTypes
  <2>6. NukeOK'
    BY <1>1, <1>2, <2>2, <2>3, <2>4 DEF NukeOK, ResetSteps, Finishing, world
  <2>7. SetupOK' /\ DoneOK' /\ CleanOK'
    BY <2>4, InReset DEF ResetSteps
  <2>8. ServerOK'
    BY <1>1, <2>1, ServerKept DEF world
  <2> QED
    BY <2>5, <2>6, <2>7, <2>8 DEF CommandOK
<1> QED
  BY <1>3, <1>4, <1>5 DEF StartNuke

\* A reset of the committed installation may be authorized.
LEMMA AuthorizedWorld ==
    ASSUME Inv, cmd.pc = "authorize",
           nukeJournal' = [phase |-> "authorized", instance |-> attempts],
           status' = [status EXCEPT ![attempts] = "authorized"],
           UNCHANGED <<files, dir, litter, roles, db, mode, setupJournal, attempts>>
    PROVE  World'
<1>1. /\ nukeJournal = NoJournal
      /\ setupJournal = NoJournal
      /\ attempts # 0
      /\ status[attempts] = "committed"
  BY DEF Inv, CommandOK, NukeOK, ResetSteps
<1>2. attempts \in Instances
  BY <1>1 DEF Inv, Types, TypeOK, Instances
<1>3. Whole(attempts)
  BY <1>1, <1>2 DEF Inv, World, KnownOK
<1>4. /\ status'[attempts] = "authorized"
      /\ \A i \in Instances : i # attempts => status'[i] = status[i]
  BY <1>2 DEF Inv, Types, TypeOK
<1>5. FilesOK' /\ DatabasesOK' /\ SetupJournalOK'
  BY <1>1 DEF Inv, World, FilesOK, DataRootIsEmpty, DatabasesOK, NoDatabase, SetupJournalOK,
     NoJournal
<1>6. UnusedOK'
  BY <1>2, <1>4 DEF Inv, World, UnusedOK, Instances
<1>7. KnownOK'
  <2> SUFFICES ASSUME NEW i \in Instances
               PROVE  /\ (status[i] = "committed" => i = attempts /\ Whole(i))'
                      /\ (status[i] = "begun" =>
                           Clean(i) \/ (setupJournal.phase = "provisioning" /\ i = attempts))'
                      /\ (status[i] = "authorized" =>
                           Clean(i) \/ (nukeJournal.phase # "none" /\ nukeJournal.instance = i))'
    BY DEF KnownOK
  <2>1. CASE i = attempts
    BY <1>4, <2>1
  <2>2. CASE i # attempts
    <3>1. Clean(i) => Clean(i)'
      BY <1>4, <2>2 DEF Clean, Dropped, Owned, Name
    <3> QED
      BY <1>1, <1>4, <2>2, <3>1 DEF Inv, World, KnownOK, NoJournal
  <2> QED
    BY <2>1, <2>2
<1>8. NukeJournalOK'
  <2>1. (HasFiles(attempts) /\ DatabaseVerifies(attempts))'
    BY <1>3 DEF Whole, HasFiles, DatabaseVerifies, Owned, Name
  <2>2. attempts \in 1..attempts
    BY <1>2 DEF Instances
  <2> QED
    BY <1>3, <1>4, <2>1, <2>2 DEF NukeJournalOK, Whole
<1> QED
  BY <1>5, <1>6, <1>7, <1>8 DEF World

\* Writing the journal of a reset.
LEMMA WriteNukeJournalStep ==
    ASSUME Inv, WriteNukeJournal
    PROVE  Inv'
<1>1. /\ cmd.pc = "authorize"
      /\ cmd.pc \in ResetSteps
      /\ UNCHANGED <<files, dir, litter, roles, db, mode, setupJournal, attempts, server>>
  BY DEF WriteNukeJournal, ResetSteps, disk, postgres
<1>2. cmd \in Commands /\ cmd.instance = attempts /\ attempts # 0 /\ setupJournal = NoJournal
  BY <1>1 DEF Inv, Types, CommandOK, NukeOK
<1>3. \/ cmd' = Idle /\ UNCHANGED <<nukeJournal, status, linked>>
      \/ /\ nukeJournal' = [phase |-> "authorized", instance |-> attempts]
         /\ status' = [status EXCEPT ![attempts] = "authorized"]
         /\ linked' \in {linked, linked \cup {"nuke"}}
         /\ cmd' = Idle \/ Goto("dropDatabase")
  BY <1>2 DEF WriteNukeJournal
<1>4. CASE cmd' = Idle /\ UNCHANGED <<nukeJournal, status, linked>>
  BY <1>1, <1>4, EndStep DEF world
<1>5. CASE /\ nukeJournal' = [phase |-> "authorized", instance |-> attempts]
           /\ status' = [status EXCEPT ![attempts] = "authorized"]
           /\ linked' \in {linked, linked \cup {"nuke"}}
           /\ cmd' = Idle \/ Goto("dropDatabase")
  <2>1. World'
    BY <1>1, <1>5, AuthorizedWorld
  <2>2. cmd' = Idle \/ (cmd'.pc = "dropDatabase" /\ cmd'.instance = attempts)
    BY <1>2, <1>5, GotoMoves
  <2>3. cmd' \in Commands
    <3>1. CASE cmd' = Idle
      BY ONLY <3>1, IdleRelies
    <3>2. CASE Goto("dropDatabase")
      BY <1>2, <3>2, GotoMoves DEF ResetSteps
    <3> QED
      BY <1>5, <3>1, <3>2
  <2>4. Types'
    <3>1. nukeJournal' \in [phase : {"none", "authorized", "dropped"}, instance : 0..MaxAttempts]
      BY <1>5 DEF Inv, Types, TypeOK
    <3>2. status' \in [Instances -> {"unused", "begun", "committed", "authorized"}]
      BY <1>5 DEF Inv, Types, TypeOK
    <3>3. linked' \subseteq {"setup", "nuke"}
      BY <1>5 DEF Inv, Types, TypeOK
    <3> QED
      BY <1>1, <2>3, <3>1, <3>2, <3>3 DEF Inv, Types, TypeOK
  <2>5. CASE cmd' = Idle
    BY <1>1, <2>1, <2>4, <2>5, ResetEnds
  <2>6. CASE cmd'.pc = "dropDatabase" /\ cmd'.instance = attempts
    <3>1. status'[attempts'] = "authorized"
      BY <1>1, <1>2, <1>5 DEF Inv, Types, TypeOK, Instances
    <3>2. NukeOK'
      BY <1>1, <1>2, <1>5, <2>6, <3>1 DEF NukeOK, ResetSteps, Finishing
    <3>3. cmd'.pc \in ResetSteps
      BY <2>6 DEF ResetSteps
    <3> QED
      BY <1>1, <2>1, <2>4, <3>2, <3>3, ResetContinues
  <2> QED
    BY <2>2, <2>5, <2>6
<1> QED
  BY <1>3, <1>4, <1>5

\* Dropping the database of an authorized reset.
LEMMA DropOwnedDatabaseStep ==
    ASSUME Inv, DropOwnedDatabase
    PROVE  Inv'
<1>1. /\ cmd.pc = "dropDatabase"
      /\ cmd.pc \in ResetSteps
      /\ UNCHANGED <<files, dir, litter, roles, mode, setupJournal, nukeJournal, linked, status,
                     attempts, server>>
  BY DEF DropOwnedDatabase, ResetSteps, disk, journals
<1>2. /\ cmd \in Commands
      /\ setupJournal = NoJournal
      /\ nukeJournal.phase = "authorized"
      /\ nukeJournal.instance = cmd.instance
      /\ cmd.instance = attempts
      /\ status[attempts] # "committed"
  BY <1>1 DEF Inv, Types, CommandOK, NukeOK, World, NukeJournalOK, ResetSteps
<1>3. \/ cmd' = Idle /\ UNCHANGED db
      \/ /\ db' = [db EXCEPT ![Name(attempts)] = NoDatabase]
         /\ cmd' = Idle \/ Goto("recordDrop")
  BY <1>2 DEF DropOwnedDatabase, DropDatabase
<1>4. CASE cmd' = Idle /\ UNCHANGED db
  BY <1>1, <1>4, EndStep DEF world
<1>5. CASE /\ db' = [db EXCEPT ![Name(attempts)] = NoDatabase]
           /\ cmd' = Idle \/ Goto("recordDrop")
  <2>1. World' /\ db'[Name(attempts)] = NoDatabase
    BY <1>1, <1>2, <1>5, ResetDatabase DEF Inv
  <2>2. cmd' \in Commands
    <3>1. CASE cmd' = Idle
      BY ONLY <3>1, IdleRelies
    <3>2. CASE Goto("recordDrop")
      BY <1>2, <3>2, GotoMoves DEF ResetSteps
    <3> QED
      BY <1>5, <3>1, <3>2
  <2>3. Types'
    <3>1. NoDatabase \in [by : 0..MaxAttempts, state : {"none", "bare", "marked", "ready"}]
      BY InstallationBounds DEF NoDatabase
    <3>2. db' \in [0..MaxAttempts -> [by : 0..MaxAttempts,
                                      state : {"none", "bare", "marked", "ready"}]]
      BY <1>5, <3>1 DEF Inv, Types, TypeOK
    <3>3. roles' \subseteq Instances
      BY <1>1 DEF Inv, Types, TypeOK
    <3> QED
      BY <1>1, <2>2, <3>2, <3>3, PostgresTypes DEF Inv
  <2>4. CASE cmd' = Idle
    BY <1>1, <2>1, <2>3, <2>4, ResetEnds
  <2>5. CASE Goto("recordDrop")
    <3>1. cmd'.pc = "recordDrop" /\ cmd'.instance = cmd.instance
      BY <1>2, <2>5, GotoMoves
    <3>2. db'[Name(cmd.instance)'] = NoDatabase
      BY <1>1, <1>2, <2>1, <3>1 DEF Name
    <3>3. NukeOK'
      BY <1>1, <1>2, <3>1, <3>2 DEF NukeOK, ResetSteps, Finishing
    <3>4. cmd'.pc \in ResetSteps
      BY <3>1 DEF ResetSteps
    <3> QED
      BY <1>1, <2>1, <2>3, <3>3, <3>4, ResetContinues
  <2> QED
    BY <1>5, <2>4, <2>5
<1> QED
  BY <1>3, <1>4, <1>5

\* Recording that the database is gone.
LEMMA RecordDropStep ==
    ASSUME Inv, RecordDrop
    PROVE  Inv'
<1>1. /\ cmd.pc = "recordDrop"
      /\ cmd.pc \in ResetSteps
      /\ UNCHANGED <<files, dir, litter, roles, db, mode, setupJournal, linked, status,
                     attempts, server>>
  BY DEF RecordDrop, ResetSteps, disk, postgres
<1>2. /\ cmd \in Commands
      /\ setupJournal = NoJournal
      /\ nukeJournal.phase = "authorized"
      /\ nukeJournal.instance = cmd.instance
      /\ cmd.instance = attempts
      /\ status[attempts] # "committed"
      /\ db[Name(attempts)] = NoDatabase
  BY <1>1 DEF Inv, Types, CommandOK, NukeOK, World, NukeJournalOK, ResetSteps
<1>3. \/ cmd' = Idle /\ UNCHANGED nukeJournal
      \/ /\ nukeJournal' = [nukeJournal EXCEPT !.phase = "dropped"]
         /\ cmd' = Idle \/ Goto("dropRole")
  BY DEF RecordDrop
<1>4. CASE cmd' = Idle /\ UNCHANGED nukeJournal
  BY <1>1, <1>4, EndStep DEF world
<1>5. CASE /\ nukeJournal' = [nukeJournal EXCEPT !.phase = "dropped"]
           /\ cmd' = Idle \/ Goto("dropRole")
  <2>1. /\ nukeJournal'.phase = "dropped"
        /\ nukeJournal'.instance = attempts
        /\ nukeJournal' \in [phase : {"none", "authorized", "dropped"}, instance : 0..MaxAttempts]
    BY <1>2, <1>5 DEF Inv, Types, TypeOK
  <2>2. World'
    <3>1. FilesOK' /\ DatabasesOK' /\ UnusedOK' /\ SetupJournalOK'
      BY <1>1 DEF Inv, World, FilesOK, DataRootIsEmpty, DatabasesOK, UnusedOK, NoDatabase,
         SetupJournalOK, NoJournal
    <3>2. KnownOK'
      BY <1>1, <1>2, <2>1 DEF Inv, World, KnownOK, Clean, Whole, Dropped, Owned, Name,
         DatabaseVerifies
    <3>3. NukeJournalOK'
      <4>1. /\ attempts \in 1..attempts
            /\ status[attempts] = "authorized"
            /\ HasFiles(attempts)
        BY <1>2 DEF Inv, World, NukeJournalOK
      <4>2. Dropped(attempts)'
        BY <1>1, <1>2 DEF Dropped, Name, NoDatabase
      <4>3. Dropped(nukeJournal.instance)'
        BY <1>1, <2>1, <4>2
      <4>4. HasFiles(attempts)' /\ files'["marker"] = attempts'
        BY <1>1, <4>1 DEF HasFiles, Outputs
      <4> QED
        BY <1>1, <2>1, <4>1, <4>3, <4>4 DEF NukeJournalOK
    <3> QED
      BY <3>1, <3>2, <3>3 DEF World
  <2>3. cmd' \in Commands
    <3>1. CASE cmd' = Idle
      BY ONLY <3>1, IdleRelies
    <3>2. CASE Goto("dropRole")
      BY <1>2, <3>2, GotoMoves DEF ResetSteps
    <3> QED
      BY <1>5, <3>1, <3>2
  <2>4. Types'
    <3>1. setupJournal' \in [phase : {"none", "provisioning", "committed"}, instance : 0..MaxAttempts]
      BY <1>1 DEF Inv, Types, TypeOK
    <3> QED
      BY <1>1, <2>1, <2>3, <3>1, JournalTypes DEF Inv
  <2>5. CASE cmd' = Idle
    BY <1>1, <2>2, <2>4, <2>5, ResetEnds
  <2>6. CASE Goto("dropRole")
    <3>1. cmd'.pc = "dropRole" /\ cmd'.instance = cmd.instance
      BY <1>2, <2>6, GotoMoves
    <3>2. NukeOK'
      BY <1>1, <1>2, <2>1, <3>1 DEF NukeOK, ResetSteps, Finishing
    <3>3. cmd'.pc \in ResetSteps
      BY <3>1 DEF ResetSteps
    <3> QED
      BY <1>1, <2>2, <2>4, <3>2, <3>3, ResetContinues
  <2> QED
    BY <1>5, <2>5, <2>6
<1> QED
  BY <1>3, <1>4, <1>5

\* What the last steps of a reset know.
LEMMA AtFinish ==
    ASSUME Inv, cmd.pc \in Finishing
    PROVE  /\ cmd \in Commands
           /\ cmd.pc \in ResetSteps
           /\ setupJournal = NoJournal
           /\ nukeJournal.phase = "dropped"
           /\ nukeJournal.instance = cmd.instance
           /\ cmd.instance \in Instances
           /\ status[cmd.instance] = "authorized"
           /\ status[attempts] # "committed"
           /\ Dropped(cmd.instance)
<1>1. cmd.pc \in ResetSteps \ {"authorize"}
  BY DEF Finishing, ResetSteps
<1>2. /\ cmd \in Commands
      /\ setupJournal = NoJournal
      /\ nukeJournal.phase = "dropped"
      /\ nukeJournal.instance = cmd.instance
      /\ status[attempts] # "committed"
  BY <1>1 DEF Inv, Types, CommandOK, NukeOK
<1>3. /\ cmd.instance \in 1..attempts
      /\ status[cmd.instance] = "authorized"
      /\ Dropped(cmd.instance)
  BY <1>2 DEF Inv, World, NukeJournalOK
<1>4. cmd.instance \in Instances
  <2>1. attempts \in 0..MaxAttempts
    BY DEF Inv, Types, TypeOK
  <2>2. MaxAttempts \in Nat
    BY InstallationBounds
  <2> QED
    BY ONLY <1>3, <2>1, <2>2 DEF Instances
<1> QED
  BY <1>1, <1>2, <1>3, <1>4

\* Dropping the role of a reset.
LEMMA DropOwnedRoleStep ==
    ASSUME Inv, DropOwnedRole
    PROVE  Inv'
<1>1. /\ cmd.pc \in Finishing
      /\ UNCHANGED <<files, dir, litter, db, mode, setupJournal, nukeJournal, linked, status,
                     attempts, server>>
  BY DEF DropOwnedRole, Finishing, disk, journals
<1>2. /\ cmd \in Commands
      /\ cmd.pc \in ResetSteps
      /\ setupJournal = NoJournal
      /\ nukeJournal.phase = "dropped"
      /\ nukeJournal.instance = cmd.instance
      /\ cmd.instance \in Instances
      /\ status[cmd.instance] = "authorized"
      /\ status[attempts] # "committed"
      /\ Dropped(cmd.instance)
  BY <1>1, AtFinish
<1>3. \/ cmd' = Idle /\ UNCHANGED roles
      \/ /\ roles' = roles \ {cmd.instance}
         /\ cmd' = Idle \/ Goto("nukeFiles")
  BY DEF DropOwnedRole
<1>4. CASE cmd' = Idle /\ UNCHANGED roles
  BY <1>1, <1>4, EndStep DEF world
<1>5. CASE /\ roles' = roles \ {cmd.instance}
           /\ cmd' = Idle \/ Goto("nukeFiles")
  <2>1. World'
    BY <1>1, <1>2, <1>5, RoleGoes DEF Inv
  <2>2. cmd' \in Commands
    <3>1. CASE cmd' = Idle
      BY ONLY <3>1, IdleRelies
    <3>2. CASE Goto("nukeFiles")
      BY <1>2, <3>2, GotoMoves DEF ResetSteps
    <3> QED
      BY <1>5, <3>1, <3>2
  <2>3. Types'
    <3>1. roles' \subseteq Instances
      BY <1>5 DEF Inv, Types, TypeOK
    <3>2. db' \in [0..MaxAttempts -> [by : 0..MaxAttempts,
                                      state : {"none", "bare", "marked", "ready"}]]
      BY <1>1 DEF Inv, Types, TypeOK
    <3> QED
      BY <1>1, <2>2, <3>1, <3>2, PostgresTypes DEF Inv
  <2>4. CASE cmd' = Idle
    BY <1>1, <1>2, <2>1, <2>3, <2>4, ResetEnds
  <2>5. CASE Goto("nukeFiles")
    <3>1. cmd'.pc = "nukeFiles" /\ cmd'.instance = cmd.instance
      BY <1>2, <2>5, GotoMoves
    <3>2. NukeOK'
      BY <1>1, <1>2, <1>5, <3>1 DEF NukeOK, ResetSteps, Finishing
    <3>3. cmd'.pc \in ResetSteps
      BY <3>1 DEF ResetSteps
    <3> QED
      BY <1>1, <1>2, <2>1, <2>3, <3>2, <3>3, ResetContinues
  <2> QED
    BY <1>5, <2>4, <2>5
<1> QED
  BY <1>3, <1>4, <1>5

\* What a step that removes files has to show.
LEMMA FinishStep ==
    ASSUME Inv, cmd.pc \in Finishing \ {"dropRole"},
           cmd' \in Commands, cmd'.instance = cmd.instance,
           cmd'.pc \in {"nukeData", "nukeMarker", "nukeDir", "nukeEnd"},
           files' \in [Outputs -> 0..MaxAttempts],
           \A o \in Outputs : files'[o] \in {0, files[o]},
           dir' \in BOOLEAN, litter' \in BOOLEAN, litter' => litter,
           ~dir' => ~dir \/ DataRootIsEmpty',
           cmd.instance = attempts => files'["marker"] = attempts \/ DataRootIsEmpty',
           ~cmd'.failed => files'["env"] # cmd.instance /\ files'["config"] # cmd.instance,
           cmd'.pc = "nukeMarker" => files'["material"] = 0 /\ ~litter',
           cmd'.pc = "nukeDir" => DataRootIsEmpty',
           cmd'.pc = "nukeEnd" /\ ~cmd'.failed =>
              files'["material"] # cmd.instance /\ files'["marker"] # cmd.instance,
           UNCHANGED <<roles, db, mode, setupJournal, nukeJournal, linked, status, attempts,
                       server>>
    PROVE  Inv'
<1>1. /\ cmd.pc \in ResetSteps
      /\ setupJournal = NoJournal
      /\ nukeJournal.phase = "dropped"
      /\ nukeJournal.instance = cmd.instance
      /\ status[attempts] # "committed"
  BY AtFinish
<1>2. cmd.instance \notin roles
  BY DEF Inv, CommandOK, NukeOK
<1>3. World'
  BY <1>1, <1>2, ResetFiles DEF Inv
<1>4. Types'
  BY DiskTypes DEF Inv
<1>5. cmd'.pc \in ResetSteps
  BY DEF ResetSteps
<1>6. NukeOK'
  BY <1>1, <1>2 DEF NukeOK, ResetSteps, Finishing
<1> QED
  BY <1>1, <1>3, <1>4, <1>5, <1>6, ResetContinues

\* What a step that removes files knows of them.
LEMMA AtFiles ==
    ASSUME Inv, cmd.pc \in Finishing \ {"dropRole"}
    PROVE  /\ files \in [Outputs -> 0..MaxAttempts]
           /\ dir \in BOOLEAN
           /\ litter \in BOOLEAN
           /\ 0 \in 0..MaxAttempts
           /\ cmd.instance \in Nat \ {0}
           /\ cmd.instance = attempts => files["marker"] = attempts \/ DataRootIsEmpty
           /\ files["marker"] \in {0, attempts}
           /\ ~dir => DataRootIsEmpty
           /\ cmd.pc # "nukeFiles" /\ ~cmd.failed =>
                 files["env"] # cmd.instance /\ files["config"] # cmd.instance
<1>1. /\ nukeJournal.phase = "dropped"
      /\ nukeJournal.instance = cmd.instance
      /\ cmd.instance \in Instances
  BY AtFinish
<1>2. /\ files \in [Outputs -> 0..MaxAttempts]
      /\ dir \in BOOLEAN
      /\ litter \in BOOLEAN
  BY DEF Inv, Types, TypeOK
<1>3. 0 \in 0..MaxAttempts
  BY InstallationBounds
<1>4. cmd.instance \in Nat \ {0}
  BY <1>1 DEF Instances
<1>5. cmd.instance = attempts => files["marker"] = attempts \/ DataRootIsEmpty
  BY <1>1 DEF Inv, World, NukeJournalOK
<1>6. files["marker"] \in {0, attempts} /\ (~dir => DataRootIsEmpty)
  BY DEF Inv, World, FilesOK, Outputs
<1>7. cmd.pc # "nukeFiles" /\ ~cmd.failed =>
         files["env"] # cmd.instance /\ files["config"] # cmd.instance
  BY DEF Inv, CommandOK, NukeOK
<1> QED
  BY <1>2, <1>3, <1>4, <1>5, <1>6, <1>7

\* Removing the environment and the configuration file.
LEMMA NukeFilesStep ==
    ASSUME Inv, NukeFiles
    PROVE  Inv'
<1>1. /\ cmd.pc \in Finishing \ {"dropRole"}
      /\ UNCHANGED <<dir, litter, roles, db, mode, setupJournal, nukeJournal, linked, status,
                     attempts, server>>
  BY DEF NukeFiles, Finishing, postgres, journals
<1>2. /\ files \in [Outputs -> 0..MaxAttempts]
      /\ dir \in BOOLEAN
      /\ litter \in BOOLEAN
      /\ 0 \in 0..MaxAttempts
      /\ cmd.instance \in Nat \ {0}
      /\ cmd.instance = attempts => files["marker"] = attempts \/ DataRootIsEmpty
  BY <1>1, AtFiles
<1>3. cmd \in Commands
  BY DEF Inv, Types
<1>4. \/ Goto("nukeData") /\ files' = [files EXCEPT !["env"] = 0, !["config"] = 0]
      \/ GotoFailed("nukeData") /\ \E o \in {"env", "config"} : files' = [files EXCEPT ![o] = 0]
  BY DEF NukeFiles
<1>5. /\ cmd'.pc = "nukeData"
      /\ cmd'.instance = cmd.instance
      /\ cmd' \in Commands
      /\ cmd'.failed \/ files' = [files EXCEPT !["env"] = 0, !["config"] = 0]
  BY <1>3, <1>4, GotoMoves, GotoFailedMoves DEF ResetSteps
<1>6. /\ files' \in [Outputs -> 0..MaxAttempts]
      /\ \A o \in Outputs : files'[o] \in {0, files[o]}
      /\ files'["marker"] = files["marker"]
      /\ files'["material"] = files["material"]
  <2>1. \/ files' = [files EXCEPT !["env"] = 0, !["config"] = 0]
        \/ files' = [files EXCEPT !["env"] = 0]
        \/ files' = [files EXCEPT !["config"] = 0]
    BY <1>4
  <2> QED
    BY ONLY <1>2, <2>1 DEF Outputs
<1>7. cmd'.failed \/ (files'["env"] = 0 /\ files'["config"] = 0)
  BY <1>2, <1>5 DEF Outputs
<1>8. cmd.instance = attempts => files'["marker"] = attempts \/ DataRootIsEmpty'
  BY <1>1, <1>2, <1>6 DEF DataRootIsEmpty
<1> QED
  BY <1>1, <1>2, <1>5, <1>6, <1>7, <1>8, FinishStep

\* Emptying the data directory but for the marker.
LEMMA RemoveDataEntriesStep ==
    ASSUME Inv, RemoveDataEntries
    PROVE  Inv'
<1>1. /\ cmd.pc = "nukeData"
      /\ cmd.pc \in Finishing \ {"dropRole"}
      /\ UNCHANGED <<dir, roles, db, mode, setupJournal, nukeJournal, linked, status, attempts,
                     server>>
  BY DEF RemoveDataEntries, Finishing, postgres, journals
<1>2. /\ files \in [Outputs -> 0..MaxAttempts]
      /\ dir \in BOOLEAN
      /\ litter \in BOOLEAN
      /\ 0 \in 0..MaxAttempts
      /\ cmd.instance \in Nat \ {0}
      /\ cmd.instance = attempts => files["marker"] = attempts \/ DataRootIsEmpty
      /\ files["marker"] \in {0, attempts}
      /\ ~dir => DataRootIsEmpty
      /\ ~cmd.failed => files["env"] # cmd.instance /\ files["config"] # cmd.instance
  BY <1>1, AtFiles
<1>3. cmd \in Commands
  BY DEF Inv, Types
<1>4. CASE /\ UNCHANGED <<files, litter>>
           /\ \/ ~dir /\ Goto("nukeEnd")
              \/ DataRootIsEmpty /\ Goto("nukeDir")
              \/ GotoFailed("nukeEnd")
  <2>1. /\ cmd'.instance = cmd.instance
        /\ cmd' \in Commands
        /\ cmd'.pc \in {"nukeEnd", "nukeDir"}
        /\ cmd'.failed \/ (cmd'.failed = cmd.failed)
        /\ cmd'.pc = "nukeDir" => DataRootIsEmpty
        /\ cmd'.pc = "nukeEnd" => cmd'.failed \/ ~dir
    BY <1>3, <1>4, GotoMoves, GotoFailedMoves DEF ResetSteps
  <2>2. DataRootIsEmpty => DataRootIsEmpty'
    BY <1>4 DEF DataRootIsEmpty
  <2>3. cmd'.pc = "nukeEnd" /\ ~cmd'.failed =>
           files'["material"] # cmd.instance /\ files'["marker"] # cmd.instance
    BY <1>2, <1>4, <2>1 DEF DataRootIsEmpty
  <2>4. ~cmd'.failed => files'["env"] # cmd.instance /\ files'["config"] # cmd.instance
    BY <1>2, <1>4, <2>1
  <2>5. cmd.instance = attempts => files'["marker"] = attempts \/ DataRootIsEmpty'
    BY <1>2, <1>4, <2>2
  <2>6. dir' \in BOOLEAN /\ litter' \in BOOLEAN /\ (litter' => litter) /\ (~dir' => ~dir)
    BY ONLY <1>1, <1>2, <1>4
  <2>7. files' \in [Outputs -> 0..MaxAttempts] /\ \A o \in Outputs : files'[o] \in {0, files[o]}
    BY ONLY <1>2, <1>4
  <2> QED
    BY <1>1, <2>1, <2>2, <2>3, <2>4, <2>5, <2>6, <2>7, FinishStep
<1>5. CASE /\ files["marker"] # 0
           /\ files' = [files EXCEPT !["material"] = 0]
           /\ litter' = FALSE
           /\ Goto("nukeMarker")
  <2>1. /\ cmd'.instance = cmd.instance
        /\ cmd' \in Commands
        /\ cmd'.pc = "nukeMarker"
        /\ cmd'.failed = cmd.failed
    BY <1>3, <1>5, GotoMoves DEF ResetSteps
  <2>2. /\ files' \in [Outputs -> 0..MaxAttempts]
        /\ \A o \in Outputs : files'[o] \in {0, files[o]}
        /\ files'["material"] = 0
        /\ files'["marker"] = files["marker"]
        /\ files'["env"] = files["env"]
        /\ files'["config"] = files["config"]
    BY ONLY <1>2, <1>5 DEF Outputs
  <2>3. ~litter' /\ litter' \in BOOLEAN
    BY ONLY <1>5
  <2>4. dir' \in BOOLEAN /\ (~dir' => ~dir)
    BY ONLY <1>1, <1>2
  <2>5. files'["marker"] = attempts
    BY <1>2, <1>5, <2>2
  <2>6. ~cmd'.failed => files'["env"] # cmd.instance /\ files'["config"] # cmd.instance
    BY <1>2, <2>1, <2>2
  <2> QED
    BY <1>1, <2>1, <2>2, <2>3, <2>4, <2>5, <2>6, FinishStep
<1> QED
  BY <1>4, <1>5 DEF RemoveDataEntries

\* Removing the marker, after everything else in the directory.
LEMMA RetireMarkerStep ==
    ASSUME Inv, RetireMarker
    PROVE  Inv'
<1>1. /\ cmd.pc = "nukeMarker"
      /\ cmd.pc \in Finishing \ {"dropRole"}
      /\ UNCHANGED <<dir, litter, roles, db, mode, setupJournal, nukeJournal, linked, status,
                     attempts, server>>
  BY DEF RetireMarker, Finishing, postgres, journals
<1>2. /\ files \in [Outputs -> 0..MaxAttempts]
      /\ dir \in BOOLEAN
      /\ litter \in BOOLEAN
      /\ 0 \in 0..MaxAttempts
      /\ cmd.instance \in Nat \ {0}
      /\ cmd.instance = attempts => files["marker"] = attempts \/ DataRootIsEmpty
      /\ ~cmd.failed => files["env"] # cmd.instance /\ files["config"] # cmd.instance
  BY <1>1, AtFiles
<1>3. cmd \in Commands /\ files["material"] = 0 /\ ~litter
  BY <1>1 DEF Inv, Types, CommandOK, NukeOK
<1>4. dir' \in BOOLEAN /\ litter' \in BOOLEAN /\ ~litter' /\ (~dir' => ~dir)
  BY ONLY <1>1, <1>2, <1>3
<1>5. CASE Goto("nukeDir") /\ files' = [files EXCEPT !["marker"] = 0]
  <2>1. /\ cmd'.instance = cmd.instance
        /\ cmd' \in Commands
        /\ cmd'.pc = "nukeDir"
        /\ cmd'.failed = cmd.failed
    BY <1>3, <1>5, GotoMoves DEF ResetSteps
  <2>2. /\ files' \in [Outputs -> 0..MaxAttempts]
        /\ \A o \in Outputs : files'[o] \in {0, files[o]}
        /\ files'["material"] = 0
        /\ files'["marker"] = 0
        /\ files'["env"] = files["env"]
        /\ files'["config"] = files["config"]
    BY ONLY <1>2, <1>3, <1>5 DEF Outputs
  <2>3. DataRootIsEmpty'
    BY <1>4, <2>2 DEF DataRootIsEmpty
  <2>4. ~cmd'.failed => files'["env"] # cmd.instance /\ files'["config"] # cmd.instance
    BY <1>2, <2>1, <2>2
  <2> QED
    BY <1>1, <1>4, <2>1, <2>2, <2>3, <2>4, FinishStep
<1>6. CASE GotoFailed("nukeEnd") /\ UNCHANGED files
  <2>1. /\ cmd'.instance = cmd.instance
        /\ cmd' \in Commands
        /\ cmd'.pc = "nukeEnd"
        /\ cmd'.failed
    BY <1>3, <1>6, GotoFailedMoves DEF ResetSteps
  <2>2. cmd.instance = attempts => files'["marker"] = attempts \/ DataRootIsEmpty'
    BY <1>1, <1>2, <1>6 DEF DataRootIsEmpty
  <2>3. files' \in [Outputs -> 0..MaxAttempts] /\ \A o \in Outputs : files'[o] \in {0, files[o]}
    BY ONLY <1>2, <1>6
  <2> QED
    BY <1>1, <1>4, <2>1, <2>2, <2>3, FinishStep
<1> QED
  BY <1>5, <1>6 DEF RetireMarker

\* Removing the empty data directory.
LEMMA RemoveDataDirStep ==
    ASSUME Inv, RemoveDataDir
    PROVE  Inv'
<1>1. /\ cmd.pc = "nukeDir"
      /\ cmd.pc \in Finishing \ {"dropRole"}
      /\ UNCHANGED <<files, litter, roles, db, mode, setupJournal, nukeJournal, linked, status,
                     attempts, server>>
  BY DEF RemoveDataDir, Finishing, postgres, journals
<1>2. /\ files \in [Outputs -> 0..MaxAttempts]
      /\ dir \in BOOLEAN
      /\ litter \in BOOLEAN
      /\ cmd.instance \in Nat \ {0}
      /\ ~cmd.failed => files["env"] # cmd.instance /\ files["config"] # cmd.instance
  BY <1>1, AtFiles
<1>3. cmd \in Commands /\ DataRootIsEmpty
  BY <1>1 DEF Inv, Types, CommandOK, NukeOK
<1>4. /\ DataRootIsEmpty'
      /\ files'["material"] # cmd.instance
      /\ files'["marker"] # cmd.instance
  BY <1>1, <1>2, <1>3 DEF DataRootIsEmpty
<1>5. \/ Goto("nukeEnd") /\ dir' = FALSE
      \/ GotoFailed("nukeEnd") /\ UNCHANGED dir
  BY DEF RemoveDataDir
<1>6. /\ cmd'.instance = cmd.instance
      /\ cmd' \in Commands
      /\ cmd'.pc = "nukeEnd"
      /\ cmd'.failed \/ cmd'.failed = cmd.failed
  BY <1>3, <1>5, GotoMoves, GotoFailedMoves DEF ResetSteps
<1>7. dir' \in BOOLEAN
  BY ONLY <1>2, <1>5
<1>8. litter' \in BOOLEAN /\ (litter' => litter)
  BY ONLY <1>1, <1>2
<1>9. files' \in [Outputs -> 0..MaxAttempts] /\ \A o \in Outputs : files'[o] \in {0, files[o]}
  BY ONLY <1>1, <1>2
<1>10. ~cmd'.failed => files'["env"] # cmd.instance /\ files'["config"] # cmd.instance
  BY <1>1, <1>2, <1>6
<1> QED
  BY <1>1, <1>4, <1>6, <1>7, <1>8, <1>9, <1>10, FinishStep

\* Removing the journal of a reset that has removed everything.
LEMMA RemoveNukeJournalStep ==
    ASSUME Inv, RemoveNukeJournal
    PROVE  Inv'
<1>1. /\ cmd.pc = "nukeEnd"
      /\ cmd.pc \in Finishing \ {"dropRole"}
      /\ cmd' = Idle
      /\ UNCHANGED <<files, dir, litter, roles, db, mode, setupJournal, linked, status, attempts,
                     server>>
  BY DEF RemoveNukeJournal, Finishing, disk, postgres
<1>2. CASE UNCHANGED nukeJournal
  BY <1>1, <1>2, EndStep DEF world
<1>3. CASE ~cmd.failed /\ nukeJournal' = NoJournal
  <2>1. /\ cmd.pc \in ResetSteps
        /\ setupJournal = NoJournal
        /\ nukeJournal.instance = cmd.instance
        /\ cmd.instance \in Instances
        /\ status[cmd.instance] = "authorized"
        /\ Dropped(cmd.instance)
    BY <1>1, AtFinish
  <2>2. /\ cmd.instance \notin roles
        /\ \A o \in Outputs \ {"key"} : files[o] # cmd.instance
    BY <1>1, <1>3 DEF Inv, CommandOK, NukeOK, Finishing, Outputs
  <2>3. World'
    <3>1. FilesOK' /\ DatabasesOK' /\ UnusedOK' /\ SetupJournalOK'
      BY <1>1 DEF Inv, World, FilesOK, DataRootIsEmpty, DatabasesOK, UnusedOK, NoDatabase,
         SetupJournalOK, NoJournal
    <3>2. PICK k \in Instances : k = cmd.instance
      BY <2>1
    <3>3. Clean(k)'
      BY <1>1, <2>1, <2>2, <3>2 DEF Clean, Dropped, Owned, Name
    <3>4. KnownOK'
      <4> SUFFICES ASSUME NEW i \in Instances
                   PROVE  /\ (status[i] = "committed" => i = attempts /\ Whole(i))'
                          /\ (status[i] = "begun" =>
                               Clean(i) \/ (setupJournal.phase = "provisioning" /\ i = attempts))'
                          /\ (status[i] = "authorized" =>
                               Clean(i) \/ (nukeJournal.phase # "none" /\ nukeJournal.instance = i))'
        BY DEF KnownOK
      <4>1. CASE i = k
        BY <1>1, <2>1, <3>2, <3>3, <4>1
      <4>2. CASE i # k
        <5>1. Clean(i) => Clean(i)'
          BY <1>1 DEF Clean, Dropped, Owned, Name
        <5>2. Whole(i) => Whole(i)'
          BY <1>1 DEF Whole, DatabaseVerifies, Owned, Name
        <5> QED
          BY <1>1, <2>1, <3>2, <4>2, <5>1, <5>2 DEF Inv, World, KnownOK
      <4> QED
        BY <4>1, <4>2
    <3>5. NukeJournalOK'
      BY <1>3 DEF NukeJournalOK, NoJournal
    <3> QED
      BY <3>1, <3>4, <3>5 DEF World
  <2>4. Types'
    <3>1. cmd' \in Commands
      BY ONLY <1>1, IdleRelies
    <3>2. nukeJournal' \in [phase : {"none", "authorized", "dropped"}, instance : 0..MaxAttempts]
      BY <1>3, InstallationBounds DEF NoJournal
    <3>3. setupJournal' \in [phase : {"none", "provisioning", "committed"}, instance : 0..MaxAttempts]
      BY <1>1 DEF Inv, Types, TypeOK
    <3> QED
      BY <1>1, <3>1, <3>2, <3>3, JournalTypes DEF Inv
  <2> QED
    BY <1>1, <2>1, <2>3, <2>4, ResetEnds
<1> QED
  BY <1>2, <1>3 DEF RemoveNukeJournal

----------------------------------------------------------------------------
(***************************************************************************)
(* centrald-server run and crashes keep the invariant.                     *)
(***************************************************************************)

\* A step of a server only changes nothing for the command.
LEMMA CommandUnchanged ==
    ASSUME CommandOK, UNCHANGED world, UNCHANGED cmd
    PROVE  CommandOK' /\ (ResetHoldsLock' <=> ResetHoldsLock)
<1>1. SetupOK'
  BY DEF CommandOK, SetupOK, world, NoJournal
<1>2. DoneOK'
  BY DEF CommandOK, DoneOK, AllWritten, Managed, Owned, DatabaseVerifies, Name, world
<1>3. CleanOK'
  BY DEF CommandOK, CleanOK, Managed, Dropped, Owned, Name, world
<1>4. NukeOK'
  BY DEF CommandOK, NukeOK, Name, NoJournal, NoDatabase, DataRootIsEmpty, world
<1> QED
  BY <1>1, <1>2, <1>3, <1>4 DEF CommandOK, ResetHoldsLock

\* What is left to show of a step of a server.
LEMMA ServerStep ==
    ASSUME Inv, UNCHANGED world, UNCHANGED <<linked, cmd>>,
           server' \in [pc : {"off", "retiring", "checked", "loaded", "locked", "up"},
                        instance : 0..MaxAttempts, since : 0..MaxAttempts],
           ServerOK'
    PROVE  Inv'
<1>1. World' /\ CommandOK'
  BY WorldUnchanged, CommandUnchanged DEF Inv
<1>2. Types'
  BY DEF Inv, Types, TypeOK, world
<1> QED
  BY <1>1, <1>2 DEF Inv

\* Looking for the journal of a setup before a server starts.
LEMMA PrepareForNormalCommandStep ==
    ASSUME Inv, PrepareForNormalCommand
    PROVE  Inv'
<1>1. /\ setupJournal.phase # "provisioning"
      /\ \E pc \in {"checked", "retiring"} : server' = [Off EXCEPT !.since = attempts, !.pc = pc]
      /\ UNCHANGED world
      /\ UNCHANGED <<linked, cmd>>
  BY DEF PrepareForNormalCommand, world, disk, postgres, journals
<1>2. attempts \in 0..MaxAttempts /\ 0 \in 0..MaxAttempts
  BY InstallationBounds DEF Inv, Types, TypeOK
<1>3. /\ server'.pc \in {"checked", "retiring"}
      /\ server'.since = attempts
      /\ server' \in [pc : {"off", "retiring", "checked", "loaded", "locked", "up"},
                      instance : 0..MaxAttempts, since : 0..MaxAttempts]
  <2>1. PICK pc \in {"checked", "retiring"} : server' = [pc |-> pc, instance |-> 0, since |-> attempts]
    BY <1>1 DEF Off
  <2> QED
    BY <1>2, <2>1
<1>4. ServerOK'
  BY <1>1, <1>2, <1>3 DEF ServerOK, ServerHoldsLock, world
<1> QED
  BY <1>1, <1>3, <1>4, ServerStep

\* Removing the journal that was read, or a later one that is committed.
LEMMA RemoveJournalStep ==
    ASSUME Inv, RemoveJournal, ~Loses
    PROVE  Inv'
<1> USE DEF Inv
<1>0. CASE server' = Off /\ UNCHANGED setupJournal
  <2>1. UNCHANGED world /\ UNCHANGED <<linked, cmd>>
    BY <1>0 DEF RemoveJournal, world, disk, postgres
  <2>2. 0 \in 0..MaxAttempts /\ attempts \in 0..MaxAttempts
    BY InstallationBounds DEF Types, TypeOK
  <2>3. server' \in [pc : {"off", "retiring", "checked", "loaded", "locked", "up"},
                     instance : 0..MaxAttempts, since : 0..MaxAttempts]
    BY <1>0, <2>2 DEF Off
  <2>4. server'.pc = "off" /\ server'.since = 0
    BY <1>0 DEF Off
  <2>5. ServerOK'
    BY <2>1, <2>2, <2>4 DEF ServerOK, ServerHoldsLock, world
  <2> QED
    BY <2>1, <2>3, <2>5, ServerStep
<1> SUFFICES ASSUME setupJournal' = NoJournal, server' = [server EXCEPT !.pc = "checked"]
             PROVE  Inv'
  BY <1>0 DEF RemoveJournal
<1>1. /\ server.pc = "retiring" /\ server'.pc = "checked"
      /\ server'.since = server.since /\ server'.instance = server.instance
      /\ server' \in [pc : {"off", "retiring", "checked", "loaded", "locked", "up"},
                      instance : 0..MaxAttempts, since : 0..MaxAttempts]
  BY DEF RemoveJournal, Types
<1>2. /\ setupJournal.phase # "provisioning"
      /\ UNCHANGED <<files, dir, litter, roles, db, mode, nukeJournal, linked, status, attempts,
                     cmd>>
  BY <1>1 DEF RemoveJournal, Loses, disk, postgres
<1>3. World'
  BY <1>2, JournalRetired
<1>4. CommandOK'
  <2>1. SetupOK'
    BY <1>2 DEF CommandOK, SetupOK, World, SetupJournalOK
  <2>2. DoneOK'
    BY <1>2 DEF CommandOK, DoneOK, AllWritten, Managed, Owned, DatabaseVerifies, Name
  <2>3. CleanOK'
    BY <1>2 DEF CommandOK, CleanOK, Managed, Dropped, Owned, Name
  <2>4. NukeOK'
    BY <1>2 DEF CommandOK, NukeOK, Name, NoJournal, NoDatabase, DataRootIsEmpty
  <2> QED
    BY <2>1, <2>2, <2>3, <2>4 DEF CommandOK
<1>5. Types'
  <2>1. setupJournal' \in [phase : {"none", "provisioning", "committed"}, instance : 0..MaxAttempts]
    BY InstallationBounds DEF NoJournal
  <2> QED
    BY <1>1, <1>2, <2>1 DEF Types, TypeOK
<1>6. ServerOK'
  BY <1>1, <1>2 DEF ServerOK, NoJournal, ServerHoldsLock
<1> QED
  BY <1>3, <1>4, <1>5, <1>6

\* Reading the configuration.
LEMMA LoadConfigStep ==
    ASSUME Inv, LoadConfig
    PROVE  Inv'
<1>1. /\ server.pc = "checked"
      /\ files["config"] # 0
      /\ server' = [server EXCEPT !.pc = "loaded", !.instance = files["config"]]
      /\ UNCHANGED world
      /\ UNCHANGED <<linked, cmd>>
  BY DEF LoadConfig, world, disk, postgres, journals
<1>2. files["config"] = attempts /\ attempts \in 0..MaxAttempts /\ attempts \in 1..attempts
  BY <1>1 DEF Inv, World, FilesOK, Outputs, Types, TypeOK
<1>3. /\ server'.pc = "loaded"
      /\ server'.instance = attempts
      /\ server'.since = server.since
      /\ server' \in [pc : {"off", "retiring", "checked", "loaded", "locked", "up"},
                      instance : 0..MaxAttempts, since : 0..MaxAttempts]
  BY <1>1, <1>2 DEF Inv, Types
<1>4. ServerOK'
  BY <1>1, <1>2, <1>3 DEF Inv, ServerOK, ServerHoldsLock, world
<1> QED
  BY <1>1, <1>3, <1>4, ServerStep

\* Taking the server lock.
LEMMA AcquireServerLockStep ==
    ASSUME Inv, AcquireServerLock
    PROVE  Inv'
<1>1. /\ server.pc = "loaded"
      /\ ~ResetHoldsLock
      /\ server' = [server EXCEPT !.pc = "locked"]
      /\ UNCHANGED world
      /\ UNCHANGED <<linked, cmd>>
  BY DEF AcquireServerLock, world, disk, postgres, journals
<1>2. /\ server'.pc = "locked"
      /\ server'.instance = server.instance
      /\ server'.since = server.since
      /\ server' \in [pc : {"off", "retiring", "checked", "loaded", "locked", "up"},
                      instance : 0..MaxAttempts, since : 0..MaxAttempts]
  BY <1>1 DEF Inv, Types
<1>3. ~ResetHoldsLock'
  BY <1>1, CommandUnchanged DEF Inv
<1>4. ServerOK'
  BY <1>1, <1>2, <1>3 DEF Inv, ServerOK, world
<1> QED
  BY <1>1, <1>2, <1>4, ServerStep

\* A server that comes up, and looked for a journal after the latest setup
\* began, is on a whole installation.
LEMMA ConnectAndMigrateStep ==
    ASSUME Inv, ConnectAndMigrate
    PROVE  Inv'
<1>1. /\ server.pc = "locked"
      /\ files["env"] = server.instance
      /\ DatabaseVerifies(server.instance)
      /\ server' = [server EXCEPT !.pc = "up"]
      /\ UNCHANGED world
      /\ UNCHANGED <<linked, cmd>>
  BY DEF ConnectAndMigrate, EnvironmentHolds, world, disk, postgres, journals
<1>2. /\ server'.pc = "up"
      /\ server'.instance = server.instance
      /\ server'.since = server.since
      /\ server' \in [pc : {"off", "retiring", "checked", "loaded", "locked", "up"},
                      instance : 0..MaxAttempts, since : 0..MaxAttempts]
  BY <1>1 DEF Inv, Types
<1>3. /\ server.instance \in 1..attempts
      /\ server.since \in Nat
      /\ server.since <= attempts
      /\ attempts \in Nat
      /\ ~ResetHoldsLock
  BY <1>1 DEF Inv, ServerOK, ServerHoldsLock, Types, TypeOK
<1>4. server.instance = attempts /\ attempts \in Instances
  BY <1>1, <1>3 DEF Inv, World, FilesOK, Outputs, Types, TypeOK, Instances
<1>5. ASSUME server.instance <= server.since
      PROVE  Whole(attempts)
  <2>1. setupJournal.phase # "provisioning"
    BY <1>1, <1>3, <1>4, <1>5 DEF Inv, ServerOK
  <2>2. /\ files["env"] = attempts
        /\ DatabaseVerifies(attempts)
    BY <1>1, <1>4
  <2>3. ~Clean(attempts)
    BY <2>2 DEF Clean, Outputs
  <2>4. ~Dropped(attempts)
    BY <2>2 DEF Dropped, DatabaseVerifies
  <2>5. status[attempts] \in {"committed", "authorized"}
    <3>1. status[attempts] \in {"unused", "begun", "committed", "authorized"}
      BY <1>4 DEF Inv, Types, TypeOK
    <3>2. status[attempts] # "unused"
      BY <1>4, <2>2 DEF Inv, World, UnusedOK, Outputs
    <3>3. status[attempts] # "begun"
      BY <1>4, <2>1, <2>3 DEF Inv, World, KnownOK
    <3> QED
      BY <3>1, <3>2, <3>3
  <2>6. CASE status[attempts] = "committed"
    BY <1>4, <2>6 DEF Inv, World, KnownOK
  <2>7. CASE status[attempts] = "authorized"
    <3>1. nukeJournal.phase # "none" /\ nukeJournal.instance = attempts
      BY <1>4, <2>3, <2>7 DEF Inv, World, KnownOK
    <3>2. nukeJournal.phase \in {"none", "authorized", "dropped"}
      BY DEF Inv, Types, TypeOK
    <3>3. nukeJournal.phase = "authorized"
      BY <2>4, <3>1, <3>2 DEF Inv, World, NukeJournalOK
    <3> QED
      BY <2>2, <3>3 DEF Inv, World, NukeJournalOK, HasFiles, Whole
  <2> QED
    BY <2>5, <2>6, <2>7
<1>6. Whole(attempts) => Whole(attempts)'
  BY <1>1 DEF Whole, DatabaseVerifies, Owned, Name, world
<1>7. ~ResetHoldsLock'
  BY <1>1, <1>3, CommandUnchanged DEF Inv
<1>8. ServerOK'
  BY <1>1, <1>2, <1>3, <1>4, <1>5, <1>6, <1>7 DEF Inv, ServerOK, world
<1> QED
  BY <1>1, <1>2, <1>8, ServerStep

\* A server that ends.
LEMMA ServerEndsStep ==
    ASSUME Inv, ServerEnds
    PROVE  Inv'
<1>1. /\ server' = Off
      /\ UNCHANGED world
      /\ UNCHANGED <<linked, cmd>>
  BY DEF ServerEnds, world, disk, postgres, journals
<1>2. /\ server'.pc = "off"
      /\ server'.since = 0
      /\ server' \in [pc : {"off", "retiring", "checked", "loaded", "locked", "up"},
                      instance : 0..MaxAttempts, since : 0..MaxAttempts]
  BY <1>1, InstallationBounds DEF Off
<1>3. attempts \in Nat
  BY DEF Inv, Types, TypeOK
<1>4. ServerOK'
  BY <1>1, <1>2, <1>3 DEF ServerOK, ServerHoldsLock, world
<1> QED
  BY <1>1, <1>2, <1>4, ServerStep

\* A crash of the command.
LEMMA CrashStep ==
    ASSUME Inv, Crash
    PROVE  Inv'
BY EndStep DEF Crash, world, disk, postgres, journals

----------------------------------------------------------------------------
(***************************************************************************)
(* The invariant.                                                          *)
(***************************************************************************)

\* A host without CentralD satisfies it.
LEMMA InitInv == Init => Inv
<1> SUFFICES ASSUME Init PROVE Inv
  OBVIOUS
<1>1. /\ attempts = 0
      /\ files = [o \in Outputs |-> 0]
      /\ dir = FALSE
      /\ litter = FALSE
      /\ roles = {}
      /\ mode = [i \in Instances |-> "unset"]
      /\ setupJournal = NoJournal
      /\ nukeJournal = NoJournal
      /\ linked = {}
      /\ status = [i \in Instances |-> "unused"]
      /\ cmd = Idle
      /\ server = Off
  BY DEF Init
<1>2. /\ db \in [0..MaxAttempts -> [by : 0..MaxAttempts,
                                    state : {"none", "bare", "marked", "ready"}]]
      /\ db[0].by = 0
      /\ db[0].state = "none" => db[0] = NoDatabase
      /\ \A i \in Instances : db[i] = NoDatabase
  <2>1. PICK foreign \in {NoDatabase, [by |-> 0, state |-> "ready"]} :
           db = [n \in Instances \cup {0} |-> IF n = 0 THEN foreign ELSE NoDatabase]
    BY DEF Init
  <2>2. Instances \cup {0} = 0..MaxAttempts
    BY InstallationBounds DEF Instances
  <2>3. /\ foreign \in [by : 0..MaxAttempts, state : {"none", "bare", "marked", "ready"}]
        /\ NoDatabase \in [by : 0..MaxAttempts, state : {"none", "bare", "marked", "ready"}]
        /\ foreign.by = 0
        /\ foreign.state = "none" => foreign = NoDatabase
    BY InstallationBounds DEF NoDatabase
  <2>4. \A i \in Instances : i # 0 /\ i \in 0..MaxAttempts
    BY InstallationBounds DEF Instances
  <2>5. 0 \in 0..MaxAttempts
    BY InstallationBounds
  <2> QED
    BY ONLY <2>1, <2>2, <2>3, <2>4, <2>5
<1>3. Types
  <2>1. 0 \in 0..MaxAttempts
    BY InstallationBounds
  <2>2. cmd \in Commands
    BY <1>1, <2>1 DEF Idle, Commands
  <2>3. server \in [pc : {"off", "retiring", "checked", "loaded", "locked", "up"},
                    instance : 0..MaxAttempts, since : 0..MaxAttempts]
    BY <1>1, <2>1 DEF Off
  <2>4. {dir, litter} \subseteq BOOLEAN
    BY ONLY <1>1
  <2> QED
    BY <1>1, <1>2, <2>1, <2>2, <2>3, <2>4 DEF Types, TypeOK, NoJournal
<1>4. World
  <2>1. FilesOK
    BY <1>1 DEF FilesOK, DataRootIsEmpty, Outputs
  <2>2. DatabasesOK
    <3>1. \A n \in 0..MaxAttempts : n = 0 \/ n \in Instances
      BY InstallationBounds DEF Instances
    <3> QED
      BY <1>1, <1>2, <3>1 DEF DatabasesOK, NoDatabase
  <2>3. UnusedOK
    BY <1>1, <1>2 DEF UnusedOK, Instances
  <2>4. KnownOK
    BY <1>1 DEF KnownOK
  <2>5. SetupJournalOK /\ NukeJournalOK
    BY <1>1 DEF SetupJournalOK, NukeJournalOK, NoJournal
  <2> QED
    BY <2>1, <2>2, <2>3, <2>4, <2>5 DEF World
<1>5. CommandOK
  BY <1>1 DEF CommandOK, SetupOK, SetupSteps, CleanSteps, DoneOK, AllWritten, CleanOK, NukeOK,
     ResetSteps, Finishing, Idle
<1>6. ServerOK
  BY <1>1 DEF ServerOK, Off, ServerHoldsLock
<1> QED
  BY <1>3, <1>4, <1>5, <1>6 DEF Inv

\* Every step keeps it, but for one that removes the journal of a setup under
\* way.
LEMMA NextInv == (~lost => Inv) /\ [Next]_installVars => (~lost => Inv)'
<1> SUFFICES ASSUME ~lost => Inv, [Next]_installVars, ~lost' PROVE Inv'
  OBVIOUS
<1>0. Inv /\ (Next => ~Loses)
  BY DEF Next, installVars
<1>1. CASE Setup
  BY <1>0, <1>1, RecoverBeforeStep, PreflightStep, SetupRefusedStep, BeginSetupStep,
     ProvisionRoleStep, CreateDatabaseStep, CommentDatabaseStep, WriteOutputStep,
     MigrateDatabaseStep, CleanupNewDatabaseStep, CreateAdminKeyStep, MarkCommittedStep,
     RetireCommittedStep DEF Setup
<1>2. CASE Cleanup
  BY <1>0, <1>2, RollbackCurrentSetupStep, CleanDatabaseStep, CleanRoleStep, RollbackFilesStep,
     CleanJournalStep DEF Cleanup
<1>3. CASE Nuke
  BY <1>0, <1>3, ResetInterruptedSetupStep, StartNukeStep, WriteNukeJournalStep,
     DropOwnedDatabaseStep, RecordDropStep, DropOwnedRoleStep, NukeFilesStep,
     RemoveDataEntriesStep, RetireMarkerStep, RemoveDataDirStep, RemoveNukeJournalStep
     DEF Nuke
<1>4. CASE Run /\ Next
  BY <1>0, <1>4, PrepareForNormalCommandStep, RemoveJournalStep, LoadConfigStep, AcquireServerLockStep,
     ConnectAndMigrateStep, ServerEndsStep DEF Run
<1>5. CASE Crash
  BY <1>0, <1>5, CrashStep
<1>6. CASE UNCHANGED installVars
  <2>1. UNCHANGED world /\ UNCHANGED <<linked, cmd, server>>
    BY <1>6 DEF installVars, disk, postgres, journals, world
  <2>2. ServerOK'
    BY <1>0, <2>1, CommandUnchanged DEF Inv, ServerOK, ServerHoldsLock, Whole, DatabaseVerifies,
       Owned, Name, world
  <2> QED
    BY <1>0, <2>1, <2>2, ServerStep DEF Inv, Types
<1> QED
  BY <1>1, <1>2, <1>3, <1>4, <1>5, <1>6 DEF Next

\* The invariant holds, for any number of setups, resets, faults and servers
\* and any kinds of database, until a server removes the journal of a setup
\* under way.
THEOREM InstallationInvariant == Spec => [](~lost => Inv)
BY InitInv, NextInv, PTL DEF Spec

----------------------------------------------------------------------------
(***************************************************************************)
(* What it gives.                                                          *)
(***************************************************************************)

\* From mark_committed until a reset of this very instance is authorized, an
\* installation is whole, whatever crashes, fails, is recovered or set up, as
\* long as no starting server removed the journal of a setup under way.
THEOREM InstallationPublished == Spec => [](~lost => PublishedIsWhole)
<1>1. (~lost => Inv) => (~lost => PublishedIsWhole)
  BY DEF Inv, World, KnownOK, PublishedIsWhole
<1> QED
  BY <1>1, InstallationInvariant, PTL

\* cleanup_abandoned_setup and finish_nuke remove their journal only when
\* nothing is left that would need it.
THEOREM InstallationRetired == Spec => []RetiredIsClean
<1>1. (~lost => Inv) => RetiredIsClean
  <2> SUFFICES ASSUME Inv, NEW i \in Instances,
                      status[i] \in {"begun", "authorized"},
                      i \notin {cmd.instance, setupJournal.instance, nukeJournal.instance}
               PROVE  Clean(i)
    BY DEF RetiredIsClean, Clean, Dropped
  <2>1. setupJournal.phase = "provisioning" => setupJournal.instance = attempts
    BY DEF Inv, World, SetupJournalOK
  <2> QED
    BY <2>1 DEF Inv, World, KnownOK
<1> QED
  BY <1>1, InstallationInvariant, PTL

\* No crash or failure strands the host, unless it leaves a temporary file in
\* the data directory or a journal with two names.
THEOREM InstallationNotStranded == Spec => []HostIsNotStranded
<1>1. (~lost => Inv) => HostIsNotStranded
  <2> SUFFICES ASSUME Inv, ~litter, setupJournal = NoJournal, nukeJournal = NoJournal,
                      ~PreflightPasses
               PROVE  files["config"] # 0 /\ Whole(files["config"])
    BY DEF HostIsNotStranded
  <2>1. PICK o \in Outputs \ {"key"} : files[o] # 0
    BY DEF PreflightPasses, DataRootIsEmpty, TargetsAreFree, Outputs
  <2>2. files[o] = attempts /\ attempts \in Instances
    BY <2>1 DEF Inv, World, FilesOK, Types, TypeOK, Instances
  <2>3. ~Clean(attempts)
    BY <2>1, <2>2 DEF Clean
  <2>4. status[attempts] = "committed"
    <3>1. status[attempts] \in {"unused", "begun", "committed", "authorized"}
      BY <2>2 DEF Inv, Types, TypeOK
    <3>2. status[attempts] # "unused"
      BY <2>1, <2>2 DEF Inv, World, UnusedOK
    <3>3. status[attempts] \notin {"begun", "authorized"}
      BY <2>2, <2>3 DEF Inv, World, KnownOK, NoJournal
    <3> QED
      BY <3>1, <3>2, <3>3
  <2>5. Whole(attempts)
    BY <2>2, <2>4 DEF Inv, World, KnownOK
  <2>6. files["config"] = attempts /\ attempts # 0
    BY <2>2, <2>5 DEF Whole, Outputs, Instances
  <2> QED
    BY <2>5, <2>6
<1> QED
  BY <1>1, InstallationInvariant, PTL

\* What read_nuke_journal, resume_nuke and continue_authorized_nuke check holds
\* wherever a reset stopped, unless that was while its journal had two names,
\* as long as no starting server removed the journal of a setup under way.
THEOREM InstallationResumes == Spec => [](~lost => ResetCanResume)
<1>1. (~lost => Inv) => (~lost => ResetCanResume)
  <2> SUFFICES ASSUME Inv, nukeJournal # NoJournal, attempts = nukeJournal.instance,
                      NukeJournalReads
               PROVE  /\ LockIsFree => Resumes
                      /\ nukeJournal.phase = "authorized" =>
                            /\ mode[attempts] = "managed" => attempts \in roles
                            /\ DatabaseVerifies(attempts) \/ db[Name(attempts)].state = "none"
    BY DEF ResetCanResume
  <2> SUFFICES /\ nukeJournal.phase # "none"
               /\ JournalHolds(nukeJournal)
               /\ nukeJournal.phase = "authorized" =>
                     /\ PlanHolds(nukeJournal.instance)
                     /\ mode[attempts] = "managed" => attempts \in roles
                     /\ DatabaseVerifies(attempts) \/ db[Name(attempts)].state = "none"
    BY DEF Resumes
  <2>1. nukeJournal.phase \in {"authorized", "dropped"}
    BY DEF Inv, Types, TypeOK, World, NukeJournalOK
  <2>2. CASE nukeJournal.phase = "authorized"
    <3>1. /\ HasFiles(attempts)
          /\ dir
          /\ mode[attempts] = "managed" => attempts \in roles
          /\ DatabaseVerifies(attempts) \/ db[Name(attempts)] = NoDatabase
      BY <2>2 DEF Inv, World, NukeJournalOK
    <3>2. /\ dir
          /\ files["config"] = nukeJournal.instance
          /\ files["marker"] = nukeJournal.instance
          /\ files["env"] = nukeJournal.instance
      BY <3>1 DEF HasFiles, Outputs
    <3>3. PlanHolds(nukeJournal.instance) /\ JournalHolds(nukeJournal)
      BY ONLY <3>2 DEF JournalHolds, PlanHolds, MarkerHolds, EnvironmentHolds
    <3>4. DatabaseVerifies(attempts) \/ db[Name(attempts)].state = "none"
      BY ONLY <3>1 DEF NoDatabase
    <3> QED
      BY <2>2, <3>1, <3>3, <3>4
  <2>3. CASE nukeJournal.phase = "dropped"
    BY <2>3 DEF Inv, World, NukeJournalOK, JournalHolds, MarkerHolds
  <2> QED
    BY <2>1, <2>2, <2>3
<1> QED
  BY <1>1, InstallationInvariant, PTL

\* A server that is up, on a setup that began before the server's command
\* looked for a journal, keeps its files, role and database.
THEOREM InstallationServer == Spec => []ServerIsWhole
<1>1. (~lost => Inv) => ServerIsWhole
  <2> SUFFICES ASSUME Inv, server.pc = "up", server.instance <= server.since
               PROVE  Whole(server.instance)
    BY DEF ServerIsWhole
  <2>1. server.instance = attempts /\ Whole(attempts)
    BY DEF Inv, ServerOK
  <2> QED
    BY <2>1
<1> QED
  BY <1>1, InstallationInvariant, PTL

\* No step changes the database of somebody else: a setup never adopts or
\* drops what it did not create, and a cleanup or a reset drops only what
\* carries its own mark, in behaviours in which no starting server removes the
\* journal of a setup under way.
THEOREM InstallationForeign == Spec /\ []~lost => ForeignIsKept
<1> DEFINE foreign == [by |-> 0, state |-> "ready"]
<1>1. ASSUME Inv, [Next]_installVars, db[0] = foreign
      PROVE  db'[0] = db[0]
  <2> USE <1>1
  <2>1. SUFFICES ASSUME db' # db PROVE db'[0] = db[0]
    OBVIOUS
  <2>2. \/ CreateDatabase \/ CommentDatabase \/ MigrateDatabase \/ CleanupNewDatabase
        \/ CleanDatabase \/ DropOwnedDatabase
    BY <2>1 DEF Next, Setup, Cleanup, Nuke, Run, installVars, postgres,
       RecoverBeforeInitialSetup, Preflight, SetupRefused, BeginSetup, ProvisionRole,
       WriteOutput, CreateAdminKey, MarkCommitted, RetireCommitted, RollbackCurrentSetup,
       CleanRole, RollbackFiles, CleanJournal, ResetInterruptedSetup, StartNuke,
       WriteNukeJournal, RecordDrop, DropOwnedRole, NukeFiles, RemoveDataEntries,
       RetireMarker, RemoveDataDir, RemoveNukeJournal, PrepareForNormalCommand, RemoveJournal, LoadConfig,
       AcquireServerLock, ConnectAndMigrate, ServerEnds, Crash
  <2>3. ASSUME NEW n \in 0..MaxAttempts, NEW d, db' = [db EXCEPT ![n] = d],
               n # 0 \/ db[0] # foreign
        PROVE  db'[0] = db[0]
    BY <2>3
  <2>4. \A i \in Instances : i # 0 /\ Name(i) \in 0..MaxAttempts /\ Name(i) \in {0, i}
    BY InstallationBounds DEF Instances, Name
  <2>5. CASE CreateDatabase \/ CommentDatabase \/ MigrateDatabase \/ CleanupNewDatabase
    <3>1. cmd.pc \in {"create", "comment", "migrate", "dropNew"}
      BY <2>5 DEF CreateDatabase, CommentDatabase, MigrateDatabase, CleanupNewDatabase
    <3>2. /\ cmd.instance = attempts
          /\ attempts \in Instances
          /\ Managed <=> mode[attempts] = "managed"
      BY <3>1, AtWork DEF SetupSteps
    <3>3. \E d : db' = [db EXCEPT ![Name(attempts)] = d]
      BY <2>1, <2>5, <3>2 DEF CreateDatabase, CommentDatabase, MigrateDatabase,
         CleanupNewDatabase, SetDatabase
    <3>4. Name(attempts) # 0 \/ db[0] # foreign
      <4>1. CASE Managed
        BY <2>4, <3>2, <4>1 DEF Name
      <4>2. CASE ~Managed /\ CreateDatabase
        <5>1. db[Name(attempts)].state = "none"
          BY <2>1, <3>2, <4>2 DEF CreateDatabase
        <5> QED
          BY <2>4, <3>2, <5>1
      <4>3. CASE ~Managed /\ cmd.pc \in {"comment", "migrate", "dropNew"}
        <5>1. Owned(attempts)
          BY <3>2, <4>3 DEF Inv, CommandOK, DoneOK
        <5> QED
          BY <2>4, <3>2, <5>1 DEF Owned
      <4> QED
        BY <2>5, <4>1, <4>2, <4>3 DEF CommentDatabase, MigrateDatabase, CleanupNewDatabase
    <3> QED
      BY <2>3, <2>4, <3>2, <3>3, <3>4
  <2>6. CASE CleanDatabase
    <3>1. /\ cmd.instance = attempts
          /\ attempts \in Instances
          /\ Managed <=> mode[attempts] = "managed"
      BY <2>6, AtWork DEF CleanDatabase, CleanSteps
    <3>2. db' = [db EXCEPT ![Name(attempts)] = NoDatabase]
      BY <2>1, <2>6, <3>1 DEF CleanDatabase, CleanManaged, CleanExternal, DropDatabase
    <3>3. Managed \/ (~ExternalFails(attempts) /\ files["env"] # 0 /\ db[0].state # "none")
      BY <2>1, <2>6, <3>1 DEF CleanDatabase, CleanExternal
    <3>4. Name(attempts) # 0 \/ db[0] # foreign
      <4>1. CASE Managed
        BY <2>4, <3>1, <4>1 DEF Name
      <4>2. CASE ~Managed
        BY <2>4, <3>1, <3>3, <4>2 DEF ExternalFails, Owned, Name
      <4> QED
        BY <4>1, <4>2
    <3> QED
      BY <2>3, <2>4, <3>1, <3>2, <3>4
  <2>7. CASE DropOwnedDatabase
    <3>1. cmd.pc = "dropDatabase"
      BY <2>7 DEF DropOwnedDatabase
    <3>2. nukeJournal.phase = "authorized" /\ nukeJournal.instance = cmd.instance
      BY <3>1 DEF Inv, CommandOK, NukeOK, ResetSteps
    <3>3. /\ cmd.instance = attempts
          /\ attempts \in Instances
          /\ DatabaseVerifies(attempts) \/ db[Name(attempts)] = NoDatabase
      BY <3>2 DEF Inv, Types, TypeOK, World, NukeJournalOK, Instances
    <3>4. db' = [db EXCEPT ![Name(attempts)] = NoDatabase]
      BY <2>1, <2>7, <3>3 DEF DropOwnedDatabase, DropDatabase
    <3>5. Name(attempts) # 0 \/ db[0] # foreign
      BY <2>4, <3>3 DEF DatabaseVerifies, Owned, NoDatabase
    <3> QED
      BY <2>3, <2>4, <3>3, <3>4, <3>5
  <2> QED
    BY <2>2, <2>5, <2>6, <2>7
<1>2. (~lost => Inv) /\ ~lost /\ [Next]_installVars =>
         [db[0] = [by |-> 0, state |-> "ready"] => db'[0] = db[0]]_installVars
  BY <1>1
<1> QED
  BY <1>2, InstallationInvariant, PTL DEF Spec, ForeignIsKept
-----------------------------------------------------------------------------
(***************************************************************************)
(* The rotations of certificates and keys (PkiRotation).                   *)
(***************************************************************************)

\* The files a rotation of kind k replaces.
Replaced(k) == {Targets[k][i] : i \in DOMAIN Targets[k]}

Clear == \A k \in Kinds : journal[k] = None

\* What recovery makes of the files, and what a rotation makes of them.
Restored(k) ==
    [f \in Files |-> IF f \in Replaced(k) THEN Backup(journal[k], f).was ELSE pki[f]]
Published == [f \in Files |-> IF f \in Replaced(op) THEN new[f] ELSE pki[f]]

\* Steps before and after the journal of a rotation is written.
Unjournaled == {"check", "stage", "journal"}
Journaled == {"retirement", "publish", "commit"}
Recovering == {"recover", "forget", "unlist"}

PkiShaped ==
    /\ pki = [f \in Files |-> pki[f]]
    /\ journal \in [Kinds -> Nat \cup {None}]
    /\ seen = [p \in Procs |-> seen[p]]
    /\ daemon = [x \in {"pc", "host", "chain", "key", "issuer"} |-> daemon[x]]
    /\ lock \in Procs \cup {None}
    /\ shift \in Shifts /\ open \subseteq shift.tuis
    /\ nextGen \in Nat /\ idx \in Nat \ {0}
    /\ todo \in Seq(Kinds)
    /\ lock = Server => daemon.pc \in DOMAIN OnOk

\* A generation is used once, and a file backed up once in it.
BackupsSound ==
    /\ \A b \in backups : b.gen \in Nat /\ b.gen < nextGen
    /\ \A b, c \in backups : b.gen = c.gen /\ b.file = c.file => b.was = c.was

\* What the holder of the lock does at its step.
HolderSteps ==
    /\ lock # None => step \in Steps
    /\ At("retire") \/ At("retired") => op = "retire"
    /\ lock # None /\ op = "retire" => step \in {"retire", "retired"}
    /\ lock # None /\ step \in Unjournaled \cup Journaled => op \in Kinds
    /\ lock # None /\ step \in {"stage", "journal"} \cup Journaled => Gen \in Nat /\ Gen < nextGen
    /\ lock # None /\ step \in {"stage", "journal"} =>
           \A b \in backups : b.gen = Gen => b.was = pki[b.file]
    /\ lock # None /\ step \in Journaled => journal[op] = Gen
    /\ At("forget") \/ At("unlist") => todo # <<>>
    /\ At("unlist") => journal[Kind] = None

PkiBase == PkiShaped /\ BackupsSound /\ HolderSteps

-----------------------------------------------------------------------------
\* Nobody of this shift replaces the root: a ceremony of its own, offline.
RootIsKept == "root" \notin shift.kinds

RootStays ==
    /\ pki.root.gen = 0 /\ journal["root"] = None
    /\ \A p \in Procs : seen[p] # None => seen[p].root = 0
    /\ lock # None => op # "root"

\* Who rotates has read the root.
HasSeen ==
    /\ lock # None /\ op \in Kinds => seen[lock].root = 0
    /\ daemon.pc \in {"renewing", "ticking"} => seen[Server].root = 0

OneJournal == journal["issuer"] = None \/ journal["tls"] = None

\* A rotation begins when nothing is left to recover.
Recovers ==
    /\ lock # None /\ step \in Recovering =>
           /\ todo \in {<<"issuer", "tls">>, <<"tls">>, <<"issuer">>, <<>>}
           /\ op \in Kinds =>
                 /\ journal["issuer"] # None => todo = <<"issuer", "tls">>
                 /\ journal["tls"] # None => todo \in {<<"issuer", "tls">>, <<"tls">>}
    /\ At("recover") /\ todo # <<>> =>
           /\ journal[Kind] = None => idx = 1
           /\ journal[Kind] # None =>
                 \A i \in DOMAIN Targets[Kind] : i < idx =>
                     LET f == Targets[Kind][i]
                     IN  BackedUp(journal[Kind], f) /\ pki[f] = Backup(journal[Kind], f).was
    /\ At("forget") => Coherent(pki)

Rotates ==
    /\ lock # None /\ step \in Unjournaled => Clear
    /\ lock # None /\ step \in {"stage", "journal"} \cup Journaled => Gen # None /\ Coherent(Published)
    /\ At("retirement") => idx = 1
    /\ At("publish") => idx \in DOMAIN Targets[op]
    /\ At("publish") => \A i \in DOMAIN Targets[op] : i < idx =>
           pki[Targets[op][i]] = new[Targets[op][i]]
    /\ At("commit") => \A f \in Replaced(op) : pki[f] = new[f]

FilesFit ==
    /\ Clear => Coherent(pki)
    /\ \A k \in Kinds :
           journal[k] # None /\ (\A f \in Replaced(k) : BackedUp(journal[k], f)) =>
               Coherent(Restored(k))

PkiInv == PkiBase /\ RootStays /\ HasSeen /\ OneJournal /\ Recovers /\ Rotates /\ FilesFit

-----------------------------------------------------------------------------
\* The daemon has looked for the journal of kind k.
Past(k) ==
    LET after == {"config", "renew_start", "renewing", "chain", "key", "issuer", "bind",
                  "pending", "probing", "retiring"}
    IN  CASE k = "issuer" -> after \cup {"start_root", "start_tls"}
          [] k = "root" -> after \cup {"start_tls"}
          [] k = "tls" -> after

StartOf == [issuer |-> "start_issuer", root |-> "start_root", tls |-> "start_tls"]

\* The daemon has read its chain.
Loaded == {"key", "issuer", "bind", "pending", "probing", "retiring"}

StartSound ==
    /\ lock \in Locals /\ op \in Kinds => daemon.pc \in {"off", "running", "ticking"}
    /\ \A k \in Kinds : daemon.pc \in Past(k) =>
           journal[k] = None \/ (lock = Server /\ daemon.pc = "renewing")
    /\ \A k \in Kinds : lock = Server /\ daemon.pc = StartOf[k] =>
           /\ op = "recover" /\ step \in Recovering
           /\ todo = <<k>> \/ (todo = <<>> /\ journal[k] = None)
    /\ lock = Server /\ daemon.pc = "renewing" =>
           /\ op \in {"tls", "rollback"}
           /\ journal["issuer"] = None /\ journal["root"] = None
    /\ lock = Server /\ daemon.pc = "retiring" => op = "retire"
    /\ lock # None /\ op = "retire" => lock = Server /\ daemon.pc = "retiring"
    /\ daemon.pc \in Loaded => daemon.chain = pki.chain

RetireHeld == lock # None /\ op = "retire" => lock = Server /\ daemon.pc = "retiring"

StartInv == PkiBase /\ RetireHeld /\ (~overlapped => StartSound)

\* What the lists of targets say.
LEMMA TargetFacts ==
  /\ Targets["tls"] = <<"chain", "key", "config">>
  /\ Targets["issuer"] = <<"issuer", "chain", "key">>
  /\ Targets["root"] = <<"root", "issuer", "chain", "key">>
  /\ Replaced("tls") = {"chain", "key", "config"}
  /\ Replaced("issuer") = {"issuer", "chain", "key"}
  /\ Replaced("root") = {"root", "issuer", "chain", "key"}
<1>1. /\ Targets["tls"] = <<"chain", "key", "config">>
      /\ Targets["issuer"] = <<"issuer", "chain", "key">>
      /\ Targets["root"] = <<"root", "issuer", "chain", "key">>
  BY DEF Targets
<1>2. /\ DOMAIN <<"chain", "key", "config">> = {1, 2, 3}
      /\ DOMAIN <<"issuer", "chain", "key">> = {1, 2, 3}
      /\ DOMAIN <<"root", "issuer", "chain", "key">> = {1, 2, 3, 4}
  OBVIOUS
<1>3. Replaced("tls") = {"chain", "key", "config"}
  BY <1>1, <1>2 DEF Replaced
<1>4. Replaced("issuer") = {"issuer", "chain", "key"}
  BY <1>1, <1>2 DEF Replaced
<1>5. Replaced("root") = {"root", "issuer", "chain", "key"}
  BY <1>1, <1>2 DEF Replaced
<1> QED
  BY <1>1, <1>3, <1>4, <1>5

\* The same for any kind: its list is a list of files, with a length.
LEMMA TargetsTyped ==
  ASSUME NEW k \in Kinds
  PROVE  /\ Len(Targets[k]) \in Nat /\ Len(Targets[k]) # 0
         /\ DOMAIN Targets[k] = 1..Len(Targets[k])
         /\ \A i \in DOMAIN Targets[k] : Targets[k][i] \in Files /\ Targets[k][i] \in Replaced(k)
         /\ Replaced(k) \subseteq Files /\ "chain" \in Replaced(k)
         /\ \A f \in Replaced(k) : \E i \in DOMAIN Targets[k] : f = Targets[k][i]
<1>1. \A f \in Replaced(k) : \E i \in DOMAIN Targets[k] : f = Targets[k][i]
  BY DEF Replaced
<1>2. \A i \in DOMAIN Targets[k] : Targets[k][i] \in Replaced(k)
  BY DEF Replaced
<1>3. Replaced(k) \subseteq Files /\ "chain" \in Replaced(k)
  BY TargetFacts DEF Kinds, Files
<1>4. /\ Len(Targets[k]) \in Nat /\ Len(Targets[k]) # 0
      /\ DOMAIN Targets[k] = 1..Len(Targets[k])
  <2>1. CASE k = "tls"
    <3>1. Len(<<"chain", "key", "config">>) = 3 /\ DOMAIN <<"chain", "key", "config">> = 1..3
      OBVIOUS
    <3> QED
      BY <2>1, <3>1, TargetFacts
  <2>2. CASE k = "issuer"
    <3>1. Len(<<"issuer", "chain", "key">>) = 3 /\ DOMAIN <<"issuer", "chain", "key">> = 1..3
      OBVIOUS
    <3> QED
      BY <2>2, <3>1, TargetFacts
  <2>3. CASE k = "root"
    <3>1. /\ Len(<<"root", "issuer", "chain", "key">>) = 4
          /\ DOMAIN <<"root", "issuer", "chain", "key">> = 1..4
      OBVIOUS
    <3> QED
      BY <2>3, <3>1, TargetFacts
  <2> QED
    BY <2>1, <2>2, <2>3 DEF Kinds
<1> QED
  BY <1>1, <1>2, <1>3, <1>4

\* Where the daemon goes when it returns.
LEMMA OnOkFacts ==
  /\ DOMAIN OnOk = {"start_issuer", "start_root", "start_tls", "renewing", "ticking", "retiring"}
  /\ OnOk["start_issuer"] = "start_root" /\ OnOk["start_root"] = "start_tls"
  /\ OnOk["start_tls"] = "config" /\ OnOk["renewing"] = "chain"
  /\ OnOk["ticking"] = "off" /\ OnOk["retiring"] = "running"
BY DEF OnOk

\* The daemon's record, after one of its fields was set.
LEMMA DaemonSet ==
  ASSUME PkiShaped, NEW x \in {"pc", "host", "chain", "key", "issuer"}, NEW v
  PROVE  LET d == [daemon EXCEPT ![x] = v]
         IN  /\ d = [y \in {"pc", "host", "chain", "key", "issuer"} |-> d[y]]
             /\ d[x] = v
             /\ \A y \in {"pc", "host", "chain", "key", "issuer"} : y # x => d[y] = daemon[y]
<1>1. daemon = [y \in {"pc", "host", "chain", "key", "issuer"} |-> daemon[y]]
  BY DEF PkiShaped
<1> QED
  BY ONLY <1>1, x \in {"pc", "host", "chain", "key", "issuer"}

\* The daemon only moves on.
LEMMA DaemonGoes ==
  ASSUME PkiShaped, NEW from, NEW to, ServerGoto(from, to)
  PROVE  /\ daemon' = [x \in {"pc", "host", "chain", "key", "issuer"} |-> daemon'[x]]
         /\ daemon.pc = from /\ daemon'.pc = to /\ daemon'.chain = daemon.chain
<1>1. daemon' = [daemon EXCEPT !["pc"] = to] /\ daemon.pc = from
  BY DEF ServerGoto
<1> QED
  BY <1>1, DaemonSet

\* The lock is given back.
LEMMA ReturnFacts ==
  ASSUME PkiShaped, lock # None, NEW ok \in BOOLEAN, Return(ok)
  PROVE  /\ lock' = None /\ op' = "idle" /\ step' = "idle" /\ idx' = 1 /\ todo' = <<>>
         /\ seen' = [p \in Procs |-> seen'[p]] /\ seen'[lock] = None
         /\ \A p \in Procs : p # lock => seen'[p] = seen[p]
         /\ daemon' = [x \in {"pc", "host", "chain", "key", "issuer"} |-> daemon'[x]]
         /\ daemon'.chain = daemon.chain
         /\ lock # Server => daemon' = daemon
         /\ lock = Server => daemon'.pc = IF ok \/ daemon.pc = "retiring"
                                          THEN OnOk[daemon.pc] ELSE "off"
<1>1. lock' = None /\ op' = "idle" /\ step' = "idle" /\ idx' = 1 /\ todo' = <<>>
  BY DEF Return, Free
<1>2. /\ seen' = [p \in Procs |-> seen'[p]] /\ seen'[lock] = None
      /\ \A p \in Procs : p # lock => seen'[p] = seen[p]
  <2>1. seen' = [seen EXCEPT ![lock] = None] /\ seen = [p \in Procs |-> seen[p]] /\ lock \in Procs
    BY DEF Return, PkiShaped
  <2> QED
    BY ONLY <2>1
<1>3. CASE lock # Server
  BY <1>1, <1>2, <1>3 DEF Return, PkiShaped
<1>4. CASE lock = Server
  <2> DEFINE there == IF ok \/ daemon.pc = "retiring" THEN OnOk[daemon.pc] ELSE "off"
             host == IF ok /\ daemon.pc = "renewing" THEN pki.config.host ELSE daemon.host
             moved == [daemon EXCEPT !["pc"] = there]
  <2>1. daemon' = [moved EXCEPT !["host"] = host]
    <3>1. daemon' = [daemon EXCEPT !.pc = there,
                        !.host = IF ok /\ daemon.pc = "renewing" THEN pki.config.host ELSE @]
      BY <1>4 DEF Return
    <3>2. moved["host"] = daemon.host
      BY DaemonSet
    <3> QED
      BY <3>1, <3>2, DaemonSet DEF PkiShaped
  <2>2. /\ moved = [x \in {"pc", "host", "chain", "key", "issuer"} |-> moved[x]]
        /\ moved["pc"] = there /\ moved["chain"] = daemon["chain"]
    BY DaemonSet
  <2> HIDE DEF moved, there, host
  <2>3. /\ daemon' = [x \in {"pc", "host", "chain", "key", "issuer"} |-> daemon'[x]]
        /\ daemon'["chain"] = daemon["chain"] /\ daemon'["pc"] = there
    BY ONLY <2>1, <2>2
  <2> QED
    BY <1>1, <1>2, <1>4, <2>3 DEF there
<1> QED
  BY <1>3, <1>4

\* Shapes of what a step outside of the rotations may change.
Shaped2 ==
    /\ seen = [p \in Procs |-> seen[p]]
    /\ daemon = [x \in {"pc", "host", "chain", "key", "issuer"} |-> daemon[x]]
    /\ open \subseteq shift.tuis

\* Neither the files nor the holder of the lock change.
LEMMA BaseQuiet ==
  ASSUME PkiBase, Shaped2', lock = Server => daemon'.pc \in DOMAIN OnOk,
         UNCHANGED <<pki, backups, journal, lock, op, step, idx, todo, new, nextGen, shift>>
  PROVE  PkiBase'
<1>1. PkiShaped /\ BackupsSound /\ HolderSteps
  BY DEF PkiBase
<1>2. PkiShaped'
  BY <1>1 DEF PkiShaped, Shaped2
<1>3. BackupsSound'
  BY <1>1 DEF BackupsSound
<1>4. HolderSteps'
  BY <1>1 DEF HolderSteps, At, Gen, Kind
<1> QED
  BY <1>2, <1>3, <1>4 DEF PkiBase

\* The lock is taken.
LEMMA BaseAcquired ==
  ASSUME PkiBase, NEW p \in Procs, NEW o, NEW s \in {"recover", "retire"}, NEW kinds \in Seq(Kinds),
         Acquire(p, o, s, kinds), o = "retire" <=> s = "retire",
         p = Server => daemon.pc \in DOMAIN OnOk,
         UNCHANGED <<pki, backups, journal, seen, open, daemon, nextGen, shift>>
  PROVE  PkiBase'
<1>1. PkiShaped /\ BackupsSound
  BY DEF PkiBase
<1>2. lock' = p /\ op' = o /\ step' = s /\ idx' = 1 /\ todo' = kinds
  BY DEF Acquire
<1>3. PkiShaped'
  BY <1>1, <1>2 DEF PkiShaped
<1>4. BackupsSound'
  BY <1>1 DEF BackupsSound
<1>5. HolderSteps'
  BY <1>2 DEF HolderSteps, At, Steps, Unjournaled, Journaled
<1> QED
  BY <1>3, <1>4, <1>5 DEF PkiBase

\* Nobody has the lock afterwards.
LEMMA BaseFreed ==
  ASSUME PkiBase, lock' = None, idx' = 1, todo' = <<>>, Shaped2', BackupsSound',
         journal' \in [Kinds -> Nat \cup {None}],
         UNCHANGED <<pki, nextGen, shift>>
  PROVE  PkiBase'
<1>1. PkiShaped
  BY DEF PkiBase
<1>2. <<>> \in Seq(Kinds) /\ None # Server
  BY PkiAssumption
<1>3. PkiShaped'
  BY <1>1, <1>2 DEF PkiShaped, Shaped2
<1>4. HolderSteps'
  BY DEF HolderSteps, At
<1> QED
  BY <1>3, <1>4 DEF PkiBase

\* The sequences of kinds.
LEMMA KindLists ==
  /\ \A k \in Kinds : <<k>> \in Seq(Kinds) /\ RecoverFirst[k] \in Seq(Kinds)
  /\ <<>> \in Seq(Kinds)
  /\ RecoverFirst["tls"] = <<"issuer", "tls">> /\ RecoverFirst["issuer"] = <<"issuer", "tls">>
<1>1. /\ RecoverFirst["tls"] = <<"issuer", "tls">> /\ RecoverFirst["issuer"] = <<"issuer", "tls">>
      /\ RecoverFirst["root"] = <<"issuer", "root", "tls">>
  BY DEF RecoverFirst
<1>2. <<"issuer", "tls">> \in Seq(Kinds) /\ <<"issuer", "root", "tls">> \in Seq(Kinds)
  BY DEF Kinds
<1>3. \A k \in Kinds : <<k>> \in Seq(Kinds)
  OBVIOUS
<1>4. \A k \in Kinds : RecoverFirst[k] \in Seq(Kinds)
  BY <1>1, <1>2 DEF Kinds
<1> QED
  BY <1>1, <1>3, <1>4

\* Who is at work is on the host.
LEMMA OnTheHost ==
  ASSUME PkiShaped, NEW p \in shift.tuis
  PROVE  p \in Locals /\ p \in Procs /\ p # Server
BY PkiAssumption DEF PkiShaped, Procs

\* The steps that only move the daemon or the operators.
QuietStep ==
    \/ Start \/ LoadServerConfig \/ Bind \/ TlsRetirementPending \/ VerifyListeners
    \/ RenewIfNeeded("renew_start", "renewing", "chain") \/ Tick \/ Stop \/ Age
    \/ ReadFile("chain", "key") \/ ReadFile("key", "issuer") \/ ReadFile("issuer", "bind")
    \/ StartupRecovery("issuer", "start_issuer") /\ journal["issuer"] = None
    \/ StartupRecovery("root", "start_root") /\ journal["root"] = None
    \/ StartupRecovery("tls", "start_tls") /\ journal["tls"] = None
    \/ BeginRetirement /\ retirement = None
    \/ CrashServer /\ lock # Server
    \/ \E p \in shift.tuis : Prepare(p) \/ Cancel(p)
                             \/ (Reopen(p) /\ \A k \in Kinds : journal[k] = None)

\* The steps that take the lock.
Taking(p, o, s, kinds) ==
    /\ Acquire(p, o, s, kinds)
    /\ UNCHANGED <<pki, backups, journal, retirement, seen, open, daemon, nextGen, shift>>
    /\ \/ /\ o = "recover" /\ s = "recover"
          /\ \E k \in Kinds : kinds = <<k>> /\ journal[k] # None /\ (p = Server => daemon.pc = StartOf[k])
       \/ /\ o \in Kinds /\ s = "recover" /\ kinds = RecoverFirst[o]
          /\ IF p = Server THEN o = "tls" /\ daemon.pc \in {"renewing", "ticking"}
             ELSE o \in shift.kinds /\ seen[p] # None
       \/ /\ o = "retire" /\ s = "retire" /\ kinds = <<>>
          /\ p = Server /\ daemon.pc = "retiring"

\* What one of these steps does to the daemon and to what was read.
LEMMA QuietFacts ==
  ASSUME PkiBase, QuietStep, UNCHANGED shift
  PROVE  /\ UNCHANGED <<pki, backups, journal, lock, op, step, idx, todo, new, nextGen, shift>>
         /\ Shaped2' /\ (lock = Server => daemon'.pc \in DOMAIN OnOk)
<1>1. PkiShaped
  BY DEF PkiBase
<1>2. UNCHANGED <<pki, backups, journal, lock, op, step, idx, todo, new, nextGen, shift>>
  BY DEF QuietStep, Start, LoadServerConfig, Bind, TlsRetirementPending, VerifyListeners,
         RenewIfNeeded, Tick, Stop, Age, ReadFile, StartupRecovery, BeginRetirement,
         CrashServer, Prepare, Cancel, Reopen, store, holder
<1>3. CASE \/ Start \/ Bind \/ TlsRetirementPending \/ VerifyListeners \/ Stop
           \/ StartupRecovery("issuer", "start_issuer") /\ journal["issuer"] = None
           \/ StartupRecovery("root", "start_root") /\ journal["root"] = None
           \/ StartupRecovery("tls", "start_tls") /\ journal["tls"] = None
           \/ BeginRetirement /\ retirement = None
  <2>1. PICK from \in {"off", "bind", "pending", "probing", "running", "start_issuer",
                       "start_root", "start_tls", "retiring"}, to \in ServerPcs :
          ServerGoto(from, to) /\ (from \in DOMAIN OnOk => lock # Server)
    BY <1>3, OnOkFacts DEF Start, Bind, TlsRetirementPending, VerifyListeners, Stop,
         StartupRecovery, BeginRetirement, ServerPcs
  <2>2. UNCHANGED <<seen, open>>
    BY <1>3 DEF Start, Bind, TlsRetirementPending, VerifyListeners, Stop, StartupRecovery,
         BeginRetirement
  <2>3. /\ daemon' = [x \in {"pc", "host", "chain", "key", "issuer"} |-> daemon'[x]]
        /\ daemon.pc = from
    BY <1>1, <2>1, DaemonGoes
  <2>4. lock # Server
    BY <1>1, <2>1, <2>3 DEF PkiShaped
  <2> QED
    BY <1>1, <1>2, <2>2, <2>3, <2>4 DEF Shaped2, PkiShaped
<1>4. CASE LoadServerConfig
  <2> DEFINE moved == [daemon EXCEPT !["pc"] = "renew_start"]
  <2>1. daemon' = [daemon EXCEPT !.pc = "renew_start", !.host = pki.config.host]
        /\ daemon.pc = "config" /\ UNCHANGED <<seen, open>>
    BY <1>4 DEF LoadServerConfig
  <2>2. daemon = [x \in {"pc", "host", "chain", "key", "issuer"} |-> daemon[x]]
    BY <1>1 DEF PkiShaped
  <2>3. daemon' = [x \in {"pc", "host", "chain", "key", "issuer"} |-> daemon'[x]]
    BY ONLY <2>1, <2>2
  <2>4. lock # Server
    BY <1>1, <2>1, OnOkFacts DEF PkiShaped
  <2> QED
    BY <1>1, <1>2, <2>1, <2>3, <2>4 DEF Shaped2, PkiShaped
<1>5. CASE \/ ReadFile("chain", "key") \/ ReadFile("key", "issuer") \/ ReadFile("issuer", "bind")
  <2>1. PICK f \in {"chain", "key", "issuer"}, to \in ServerPcs :
          daemon.pc = f /\ daemon' = [daemon EXCEPT ![f] = pki[f], !.pc = to] /\ UNCHANGED <<seen, open>>
    BY <1>5 DEF ReadFile, ServerPcs
  <2>2. daemon = [x \in {"pc", "host", "chain", "key", "issuer"} |-> daemon[x]]
    BY <1>1 DEF PkiShaped
  <2>3. daemon' = [x \in {"pc", "host", "chain", "key", "issuer"} |-> daemon'[x]]
    BY ONLY <2>1, <2>2
  <2>4. lock # Server
    BY <1>1, <2>1, OnOkFacts DEF PkiShaped
  <2> QED
    BY <1>1, <1>2, <2>1, <2>3, <2>4 DEF Shaped2, PkiShaped
<1>6. CASE RenewIfNeeded("renew_start", "renewing", "chain") \/ Tick
  <2>1. /\ \E from \in {"renew_start", "running"}, to \in {"renewing", "chain", "ticking", "running"} :
              ServerGoto(from, to)
        /\ seen' = seen \/ \E v : seen' = [seen EXCEPT ![Server] = v]
        /\ open' = open
    BY <1>6 DEF RenewIfNeeded, Tick
  <2>2. PICK from \in {"renew_start", "running"}, to \in {"renewing", "chain", "ticking", "running"} :
          ServerGoto(from, to)
    BY <2>1
  <2>3. /\ daemon' = [x \in {"pc", "host", "chain", "key", "issuer"} |-> daemon'[x]]
        /\ daemon.pc = from
    BY <1>1, <2>2, DaemonGoes
  <2>4. seen' = [p \in Procs |-> seen'[p]]
    <3>1. seen = [p \in Procs |-> seen[p]]
      BY <1>1 DEF PkiShaped
    <3> QED
      BY ONLY <2>1, <3>1
  <2>5. lock # Server
    BY <1>1, <2>2, <2>3, OnOkFacts DEF PkiShaped
  <2> QED
    BY <1>1, <1>2, <2>1, <2>3, <2>4, <2>5 DEF Shaped2, PkiShaped
<1>7. CASE Age
  BY <1>1, <1>2, <1>7 DEF Age, Shaped2, PkiShaped
<1>8. CASE CrashServer /\ lock # Server
  <2>1. /\ daemon' = [daemon EXCEPT !["pc"] = "off"] /\ seen' = [seen EXCEPT ![Server] = None]
        /\ open' = open
    BY <1>8 DEF CrashServer
  <2>2. daemon' = [x \in {"pc", "host", "chain", "key", "issuer"} |-> daemon'[x]]
    BY <1>1, <2>1, DaemonSet
  <2>3. seen' = [p \in Procs |-> seen'[p]]
    <3>1. seen = [p \in Procs |-> seen[p]]
      BY <1>1 DEF PkiShaped
    <3> QED
      BY ONLY <2>1, <3>1
  <2> QED
    BY <1>1, <1>2, <1>8, <2>1, <2>2, <2>3 DEF Shaped2, PkiShaped
<1>9. ASSUME NEW p \in shift.tuis,
             Prepare(p) \/ Cancel(p) \/ (Reopen(p) /\ \A k \in Kinds : journal[k] = None)
      PROVE  Shaped2' /\ (lock = Server => daemon'.pc \in DOMAIN OnOk)
  <2>1. /\ daemon' = daemon /\ open' \subseteq shift.tuis
        /\ seen' = seen \/ \E v : seen' = [seen EXCEPT ![p] = v]
    BY <1>1, <1>9 DEF Prepare, Cancel, Reopen, PkiShaped
  <2>2. seen' = [q \in Procs |-> seen'[q]]
    <3>1. seen = [q \in Procs |-> seen[q]]
      BY <1>1 DEF PkiShaped
    <3> QED
      BY ONLY <2>1, <3>1
  <2> QED
    BY <1>1, <1>2, <2>1, <2>2 DEF Shaped2, PkiShaped
<1> QED
  BY <1>2, <1>3, <1>4, <1>5, <1>6, <1>7, <1>8, <1>9 DEF QuietStep

\* The steps that give the lock back.
EndingStep ==
    \/ Recovered /\ op \notin Kinds
    \/ RestoreTarget /\ ~BackedUp(journal[Kind], Targets[Kind][idx])
    \/ Refuse \/ Commit \/ EndRetirement
    \/ StepFails /\ step \notin Journaled
    \/ CrashLocal \/ (CrashServer /\ lock = Server)

\* The steps of a holder that goes on.
WorkingStep ==
    \/ SkipRecovered \/ ForgetJournal \/ UnlistBackups
    \/ RestoreTarget /\ BackedUp(journal[Kind], Targets[Kind][idx])
    \/ Recovered /\ op \in Kinds
    \/ Compute \/ Stage \/ WriteJournal \/ WriteRetirement \/ Publish
    \/ StepFails /\ step \in Journaled
    \/ DeleteBackup

\* Taking the lock, by any of the five who do.
LEMMA TakingSteps ==
  ASSUME PkiBase, UNCHANGED shift,
         \/ \E p \in shift.tuis : \/ Reopen(p) /\ ~Clear
                                  \/ \E k \in Kinds : Confirm(p, k)
         \/ StartupRecovery("issuer", "start_issuer") /\ journal["issuer"] # None
         \/ StartupRecovery("root", "start_root") /\ journal["root"] # None
         \/ StartupRecovery("tls", "start_tls") /\ journal["tls"] # None
         \/ RotateForRenewal
         \/ BeginRetirement /\ retirement # None
  PROVE  \E p \in Procs, o \in Kinds \cup {"recover", "retire"}, s \in {"recover", "retire"},
            kinds \in Seq(Kinds) : Taking(p, o, s, kinds)
<1>1. PkiShaped /\ Server \in Procs
  BY DEF PkiBase, Procs
<1>2. ASSUME NEW p \in shift.tuis, Reopen(p), ~Clear
      PROVE  \E k \in Kinds : Taking(p, "recover", "recover", <<k>>)
  <2>1. p # Server
    BY <1>1, OnTheHost
  <2>2. PICK k \in Kinds :
          journal[k] # None /\ Acquire(p, "recover", "recover", <<k>>) /\ UNCHANGED open
    BY <1>2 DEF Reopen, Clear
  <2>3. UNCHANGED <<pki, backups, journal, retirement, seen, daemon, nextGen, shift>>
    BY <1>2 DEF Reopen, store
  <2> QED
    BY <2>1, <2>2, <2>3 DEF Taking
<1>3. ASSUME NEW p \in shift.tuis, NEW k \in Kinds, Confirm(p, k)
      PROVE  Taking(p, k, "recover", RecoverFirst[k])
  <2>1. p # Server
    BY <1>1, OnTheHost
  <2> QED
    BY <1>3, <2>1 DEF Taking, Confirm, store, others
<1>4. ASSUME NEW k \in Kinds, StartupRecovery(k, StartOf[k]), journal[k] # None
      PROVE  Taking(Server, "recover", "recover", <<k>>)
  BY <1>4 DEF StartupRecovery, Taking, store
<1>5. ASSUME RotateForRenewal PROVE Taking(Server, "tls", "recover", RecoverFirst["tls"])
  BY <1>5 DEF RotateForRenewal, Taking, store, others, Kinds
<1>6. ASSUME BeginRetirement, retirement # None
      PROVE  Taking(Server, "retire", "retire", <<>>)
  BY <1>6 DEF BeginRetirement, Taking, store
<1>7. StartOf["issuer"] = "start_issuer" /\ StartOf["root"] = "start_root"
      /\ StartOf["tls"] = "start_tls" /\ {"issuer", "root", "tls"} = Kinds
  BY DEF StartOf, Kinds
<1>8. \A p \in shift.tuis : p \in Procs
  BY <1>1, OnTheHost
<1>9. ASSUME NEW k \in Kinds, Taking(Server, "recover", "recover", <<k>>)
      PROVE \E p \in Procs, o \in Kinds \cup {"recover", "retire"}, s \in {"recover", "retire"},
               kinds \in Seq(Kinds) : Taking(p, o, s, kinds)
  BY <1>1, <1>9, KindLists
<1>10. CASE \E p \in shift.tuis : Reopen(p) /\ ~Clear
  BY <1>2, <1>8, <1>10, KindLists
<1>11. CASE \E p \in shift.tuis : \E k \in Kinds : Confirm(p, k)
  BY <1>3, <1>8, <1>11, KindLists
<1>12. CASE \/ StartupRecovery("issuer", "start_issuer") /\ journal["issuer"] # None
            \/ StartupRecovery("root", "start_root") /\ journal["root"] # None
            \/ StartupRecovery("tls", "start_tls") /\ journal["tls"] # None
  BY <1>4, <1>7, <1>9, <1>12
<1>13. CASE RotateForRenewal
  BY <1>1, <1>5, <1>7, <1>13, KindLists
<1>14. CASE BeginRetirement /\ retirement # None
  BY <1>1, <1>6, <1>14, KindLists
<1> QED
  BY <1>10, <1>11, <1>12, <1>13, <1>14

\* Every step is one of the four kinds.
LEMMA PkiSteps ==
  ASSUME PkiBase, PkiNext
  PROVE  \/ QuietStep \/ WorkingStep \/ EndingStep
         \/ \E p \in Procs, o \in Kinds \cup {"recover", "retire"}, s \in {"recover", "retire"},
               kinds \in Seq(Kinds) : Taking(p, o, s, kinds)
<1>1. UNCHANGED shift
  BY DEF PkiNext
<1>2. CASE HolderStep \/ StepFails
  BY <1>2 DEF HolderStep, Recover, Rotate, WorkingStep, EndingStep
<1>3. CASE \/ DaemonStep \/ Tick \/ Age \/ Stop
  BY <1>1, <1>3, TakingSteps DEF DaemonStep, QuietStep
<1>4. CASE CrashLocal \/ CrashServer
  BY <1>4 DEF QuietStep, EndingStep
<1>5. CASE \E p \in shift.tuis : Operator(p)
  BY <1>1, <1>5, TakingSteps DEF Operator, QuietStep, Clear
<1> QED
  BY <1>2, <1>3, <1>4, <1>5 DEF PkiNext

\* What giving the lock back does.
LEMMA EndingFacts ==
  ASSUME PkiBase, EndingStep, UNCHANGED shift
  PROVE  /\ lock # None /\ lock' = None /\ idx' = 1 /\ todo' = <<>>
         /\ Shaped2' /\ UNCHANGED <<pki, nextGen>>
         /\ seen'[lock] = None /\ \A p \in Procs : p # lock => seen'[p] = seen[p]
         /\ daemon'.chain = daemon.chain
         /\ lock # Server => daemon' = daemon
         /\ lock = Server =>
               \/ daemon'.pc = "off"
               \/ /\ daemon'.pc = OnOk[daemon.pc]
                  /\ \/ daemon.pc = "retiring" \/ Commit \/ EndRetirement
                     \/ At("recover") /\ op = "recover" /\ todo = <<>>
         /\ journal' = journal \/ Commit
         /\ \/ backups' = backups
            \/ step \in {"stage", "journal"} /\ backups' = {b \in backups : b.gen # Gen}
<1>1. PkiShaped
  BY DEF PkiBase
<1>2. ASSUME NEW ok \in BOOLEAN, Return(ok), lock # None, UNCHANGED <<pki, nextGen, open>>,
             ok => Commit \/ EndRetirement \/ (At("recover") /\ op = "recover" /\ todo = <<>>),
             journal' = journal \/ Commit,
             \/ backups' = backups
             \/ step \in {"stage", "journal"} /\ backups' = {b \in backups : b.gen # Gen}
      PROVE  /\ lock # None /\ lock' = None /\ idx' = 1 /\ todo' = <<>>
             /\ Shaped2' /\ UNCHANGED <<pki, nextGen>>
             /\ seen'[lock] = None /\ \A p \in Procs : p # lock => seen'[p] = seen[p]
             /\ daemon'.chain = daemon.chain
             /\ lock # Server => daemon' = daemon
             /\ lock = Server =>
                   \/ daemon'.pc = "off"
                   \/ /\ daemon'.pc = OnOk[daemon.pc]
                      /\ \/ daemon.pc = "retiring" \/ Commit \/ EndRetirement
                         \/ At("recover") /\ op = "recover" /\ todo = <<>>
             /\ journal' = journal \/ Commit
             /\ \/ backups' = backups
                \/ step \in {"stage", "journal"} /\ backups' = {b \in backups : b.gen # Gen}
  <2>1. /\ lock' = None /\ idx' = 1 /\ todo' = <<>>
        /\ seen' = [p \in Procs |-> seen'[p]] /\ seen'[lock] = None
        /\ \A p \in Procs : p # lock => seen'[p] = seen[p]
        /\ daemon' = [x \in {"pc", "host", "chain", "key", "issuer"} |-> daemon'[x]]
        /\ daemon'.chain = daemon.chain
        /\ lock # Server => daemon' = daemon
        /\ lock = Server => daemon'.pc = IF ok \/ daemon.pc = "retiring"
                                         THEN OnOk[daemon.pc] ELSE "off"
    BY <1>1, <1>2, ReturnFacts
  <2>2. Shaped2'
    BY <1>1, <1>2, <2>1 DEF Shaped2, PkiShaped
  <2>3. lock = Server =>
               \/ daemon'.pc = "off"
               \/ /\ daemon'.pc = OnOk[daemon.pc]
                  /\ \/ daemon.pc = "retiring" \/ Commit \/ EndRetirement
                     \/ At("recover") /\ op = "recover" /\ todo = <<>>
    BY <1>2, <2>1
  <2> QED
    BY <1>2, <2>1, <2>2, <2>3
<1>3. CASE Recovered /\ op \notin Kinds
  <2>1. /\ Return(op = "recover") /\ At("recover") /\ todo = <<>>
        /\ UNCHANGED <<pki, backups, journal, nextGen, open>>
    BY <1>3 DEF Recovered, store
  <2> QED
    BY <1>2, <2>1 DEF At
<1>4. CASE RestoreTarget /\ ~BackedUp(journal[Kind], Targets[Kind][idx])
  <2>1. Return(FALSE) /\ UNCHANGED <<pki, backups, journal, nextGen, open>> /\ lock # None
    BY <1>4 DEF RestoreTarget, At
  <2> QED
    BY <1>2, <2>1
<1>5. CASE Refuse
  <2>1. Return(FALSE) /\ UNCHANGED <<pki, backups, journal, nextGen, open>> /\ lock # None
    BY <1>5 DEF Refuse, At, store
  <2> QED
    BY <1>2, <2>1
<1>6. CASE Commit
  <2>1. Return(TRUE) /\ UNCHANGED <<pki, backups, nextGen, open>> /\ lock # None
    BY <1>6 DEF Commit, At
  <2> QED
    BY <1>2, <1>6, <2>1
<1>7. CASE EndRetirement
  <2>1. Return(TRUE) /\ UNCHANGED <<pki, backups, journal, nextGen, open>> /\ lock # None
    BY <1>7 DEF EndRetirement, At
  <2> QED
    BY <1>2, <1>7, <2>1
<1>8. CASE StepFails /\ step \notin Journaled
  <2>1. /\ Return(FALSE) /\ UNCHANGED <<pki, journal, nextGen, open>> /\ lock # None
        /\ \/ backups' = backups
           \/ step \in {"stage", "journal"} /\ backups' = {b \in backups : b.gen # Gen}
    BY <1>8 DEF StepFails, Journaled
  <2> QED
    BY <1>2, <2>1
<1>9. CASE CrashLocal
  <2>1. /\ lock \in Locals /\ Free /\ seen' = [seen EXCEPT ![lock] = None] /\ open' = open \ {lock}
        /\ UNCHANGED <<pki, backups, journal, daemon, nextGen>>
    BY <1>9 DEF CrashLocal, store
  <2>2. /\ seen' = [p \in Procs |-> seen'[p]] /\ seen'[lock] = None
        /\ \A p \in Procs : p # lock => seen'[p] = seen[p]
    <3>1. seen = [p \in Procs |-> seen[p]] /\ lock \in Procs
      BY <1>1, <2>1 DEF PkiShaped, Procs
    <3> QED
      BY ONLY <2>1, <3>1
  <2>3. lock # Server /\ lock # None
    BY <2>1, PkiAssumption
  <2> QED
    BY <1>1, <2>1, <2>2, <2>3 DEF Free, Shaped2, PkiShaped
<1>10. CASE CrashServer /\ lock = Server
  <2>1. /\ Free /\ seen' = [seen EXCEPT ![Server] = None] /\ daemon' = [daemon EXCEPT !["pc"] = "off"]
        /\ UNCHANGED <<pki, backups, journal, nextGen, open>>
    BY <1>10 DEF CrashServer, store
  <2>2. /\ seen' = [p \in Procs |-> seen'[p]] /\ seen'[lock] = None
        /\ \A p \in Procs : p # lock => seen'[p] = seen[p]
    <3>1. seen = [p \in Procs |-> seen[p]] /\ lock \in Procs /\ lock = Server
      BY <1>1, <1>10 DEF PkiShaped, Procs
    <3> QED
      BY ONLY <2>1, <3>1
  <2>3. /\ daemon' = [x \in {"pc", "host", "chain", "key", "issuer"} |-> daemon'[x]]
        /\ daemon'.pc = "off" /\ daemon'.chain = daemon.chain
    BY <1>1, <2>1, DaemonSet
  <2>4. lock # None
    BY <1>10, PkiAssumption
  <2> QED
    BY <1>1, <1>10, <2>1, <2>2, <2>3, <2>4 DEF Free, Shaped2, PkiShaped
<1> QED
  BY <1>3, <1>4, <1>5, <1>6, <1>7, <1>8, <1>9, <1>10 DEF EndingStep

\* Head and tail of a list of kinds.
LEMMA KindHead ==
  ASSUME NEW q \in Seq(Kinds), q # <<>>
  PROVE  Head(q) \in Kinds /\ Tail(q) \in Seq(Kinds)
OBVIOUS

\* What a rotation is about to write.
LEMMA NewFacts ==
  ASSUME NEW k \in Kinds, NEW g
  PROVE  LET n == NewContents(k, g)
             s == seen[lock]
             host == IF k = "tls" /\ lock \in Locals THEN g ELSE s.host
             root == CASE k = "tls" -> pki.issuer.root
                       [] k = "issuer" -> s.root
                       [] k = "root" -> g
             issuer == IF k = "tls" THEN pki.issuer.gen ELSE g
         IN  /\ n["chain"] = Wrote(g, issuer, root, host) /\ n["chain"].gen = g
             /\ k = "issuer" => n["issuer"] = Wrote(g, 0, root, 0) /\ n["key"] = Wrote(g, 0, 0, 0)
             /\ k = "tls" => n["key"] = Wrote(g, 0, 0, 0) /\ n["config"] = Wrote(g, 0, 0, host)
<1> DEFINE n == NewContents(k, g)
           s == seen[lock]
           host == IF k = "tls" /\ lock \in Locals THEN g ELSE s.host
           root == CASE k = "tls" -> pki.issuer.root
                     [] k = "issuer" -> s.root
                     [] k = "root" -> g
           issuer == IF k = "tls" THEN pki.issuer.gen ELSE g
           all == [root |-> Wrote(g, 0, 0, 0), issuer |-> Wrote(g, 0, root, 0),
                   chain |-> Wrote(g, issuer, root, host),
                   key |-> Wrote(g, 0, 0, 0), config |-> Wrote(g, 0, 0, host)]
<1>1. n = [f \in Replaced(k) |-> all[f]]
  BY DEF NewContents, Replaced
<1>2. /\ all["chain"] = Wrote(g, issuer, root, host) /\ all["issuer"] = Wrote(g, 0, root, 0)
      /\ all["key"] = Wrote(g, 0, 0, 0) /\ all["config"] = Wrote(g, 0, 0, host)
  OBVIOUS
<1> HIDE DEF n, all, host, root, issuer
<1>3. n["chain"] = all["chain"]
  BY <1>1, TargetsTyped
<1>4. k = "issuer" => n["issuer"] = all["issuer"] /\ n["key"] = all["key"]
  BY <1>1, TargetFacts
<1>5. k = "tls" => n["key"] = all["key"] /\ n["config"] = all["config"]
  BY <1>1, TargetFacts
<1>6. Wrote(g, issuer, root, host).gen = g
  BY DEF Wrote
<1> QED
  BY <1>2, <1>3, <1>4, <1>5, <1>6 DEF n, host, root, issuer

\* A holder that goes on keeps the lock and leaves the others alone.
LEMMA WorkingFacts ==
  ASSUME WorkingStep
  PROVE  lock # None /\ UNCHANGED <<lock, seen, open, daemon>>
BY DEF WorkingStep, SkipRecovered, ForgetJournal, UnlistBackups, RestoreTarget, Recovered, Compute,
       Stage, WriteJournal, WriteRetirement, Publish, StepFails, DeleteBackup, RollBack, NextStep,
       At, others, holder, Journaled, Return, Free, store

\* It keeps the base of the invariants.
LEMMA BaseWorking ==
  ASSUME PkiBase, WorkingStep, UNCHANGED shift
  PROVE  PkiBase'
<1>1. PkiShaped /\ BackupsSound /\ HolderSteps
  BY DEF PkiBase
<1>2. lock # None /\ UNCHANGED <<lock, seen, open, daemon, shift>>
  BY WorkingFacts
<1>3. ASSUME pki' = [f \in Files |-> pki'[f]], journal' \in [Kinds -> Nat \cup {None}],
             nextGen' \in Nat, idx' \in Nat \ {0}, todo' \in Seq(Kinds)
      PROVE  PkiShaped'
  BY <1>1, <1>2, <1>3 DEF PkiShaped
<1>4. /\ pki = [f \in Files |-> pki[f]] /\ journal \in [Kinds -> Nat \cup {None}]
      /\ nextGen \in Nat /\ idx \in Nat \ {0} /\ todo \in Seq(Kinds) /\ lock \in Procs
  BY <1>1, <1>2 DEF PkiShaped
<1>5. CASE SkipRecovered
  <2>1. /\ step = "recover" /\ todo # <<>> /\ todo' = Tail(todo)
        /\ UNCHANGED <<pki, backups, journal, op, step, idx, new, nextGen>>
    BY <1>5 DEF SkipRecovered, At, store, others
  <2>2. Tail(todo) \in Seq(Kinds)
    BY <1>4, <2>1, KindHead
  <2>3. PkiShaped'
    BY <1>3, <1>4, <2>1, <2>2
  <2>4. BackupsSound'
    BY <1>1, <2>1 DEF BackupsSound
  <2>5. HolderSteps'
    BY <1>1, <1>2, <2>1 DEF HolderSteps, At, Steps, Unjournaled, Journaled
  <2> QED
    BY <2>3, <2>4, <2>5 DEF PkiBase
<1>6. CASE RestoreTarget /\ BackedUp(journal[Kind], Targets[Kind][idx])
  <2>1. /\ step = "recover" /\ todo # <<>> /\ UNCHANGED <<backups, journal, op, todo, new, nextGen>>
        /\ \E f, v : pki' = [pki EXCEPT ![f] = v]
        /\ \/ step' = "forget" /\ idx' = 1
           \/ step' = step /\ idx' = idx + 1
    BY <1>6 DEF RestoreTarget, At, NextStep
  <2>2. pki' = [f \in Files |-> pki'[f]]
    BY ONLY <1>4, <2>1
  <2>3. PkiShaped'
    BY <1>3, <1>4, <2>1, <2>2
  <2>4. BackupsSound'
    BY <1>1, <2>1 DEF BackupsSound
  <2>5. HolderSteps'
    BY <1>1, <1>2, <2>1 DEF HolderSteps, At, Steps, Unjournaled, Journaled
  <2> QED
    BY <2>3, <2>4, <2>5 DEF PkiBase
<1>7. CASE ForgetJournal
  <2>1. /\ step = "forget" /\ journal' = [journal EXCEPT ![Head(todo)] = None]
        /\ step' = "unlist" /\ idx' = 1 /\ UNCHANGED <<pki, backups, op, todo, new, nextGen>>
    BY <1>7 DEF ForgetJournal, At, NextStep, others, Kind
  <2>2. todo # <<>>
    BY <1>1, <1>2, <2>1 DEF HolderSteps, At
  <2>3. Head(todo) \in Kinds
    BY <1>4, <2>2, KindHead
  <2>4. journal' \in [Kinds -> Nat \cup {None}] /\ journal'[Head(todo)] = None
    BY ONLY <1>4, <2>1, <2>3
  <2>5. PkiShaped'
    BY <1>3, <1>4, <2>1, <2>4
  <2>6. BackupsSound'
    BY <1>1, <2>1 DEF BackupsSound
  <2>7. HolderSteps'
    <3>1. op # "retire"
      BY <1>1, <1>2, <2>1 DEF HolderSteps
    <3> QED
      BY <1>2, <2>1, <2>2, <2>4, <3>1 DEF HolderSteps, At, Steps, Unjournaled, Journaled, Kind
  <2> QED
    BY <2>5, <2>6, <2>7 DEF PkiBase
<1>8. CASE UnlistBackups
  <2>1. /\ step = "unlist" /\ step' = "recover" /\ idx' = 1 /\ todo' = Tail(todo)
        /\ UNCHANGED <<pki, backups, journal, op, new, nextGen>>
    BY <1>8 DEF UnlistBackups, At, others
  <2>2. Tail(todo) \in Seq(Kinds)
    <3>1. todo # <<>>
      BY <1>1, <1>2, <2>1 DEF HolderSteps, At
    <3> QED
      BY <1>4, <3>1, KindHead
  <2>3. PkiShaped'
    BY <1>3, <1>4, <2>1, <2>2
  <2>4. BackupsSound'
    BY <1>1, <2>1 DEF BackupsSound
  <2>5. HolderSteps'
    BY <1>1, <1>2, <2>1 DEF HolderSteps, At, Steps, Unjournaled, Journaled
  <2> QED
    BY <2>3, <2>4, <2>5 DEF PkiBase
<1>9. CASE Recovered /\ op \in Kinds
  <2>1. /\ step = "recover" /\ step' = "check" /\ idx' = 1
        /\ UNCHANGED <<pki, backups, journal, op, todo, new, nextGen>>
    BY <1>9 DEF Recovered, At, NextStep, store
  <2>2. PkiShaped'
    BY <1>3, <1>4, <2>1
  <2>3. BackupsSound'
    BY <1>1, <2>1 DEF BackupsSound
  <2>4. HolderSteps'
    BY <1>1, <1>2, <1>9, <2>1 DEF HolderSteps, At, Steps, Unjournaled, Journaled
  <2> QED
    BY <2>2, <2>3, <2>4 DEF PkiBase
<1>10. CASE Compute
  <2>1. /\ step = "check" /\ new' = NewContents(op, nextGen) /\ nextGen' = nextGen + 1
        /\ step' = "stage" /\ UNCHANGED <<pki, backups, journal, op, idx, todo>>
    BY <1>10 DEF Compute, At, store
  <2>2. op \in Kinds
    BY <1>1, <1>2, <2>1 DEF HolderSteps, Unjournaled
  <2>3. Gen' = nextGen
    BY <2>1, <2>2, NewFacts DEF Gen
  <2>4. PkiShaped'
    BY <1>3, <1>4, <2>1
  <2>5. BackupsSound'
    BY <1>1, <1>4, <2>1 DEF BackupsSound
  <2>6. HolderSteps'
    <3>1. \A b \in backups : b.gen # nextGen
      BY <1>1, <1>4 DEF BackupsSound
    <3>2. op # "retire" /\ nextGen \in Nat /\ nextGen < nextGen + 1
      BY <1>1, <1>2, <1>4, <2>1 DEF HolderSteps
    <3> QED
      BY <1>2, <2>1, <2>2, <2>3, <3>1, <3>2 DEF HolderSteps, At, Steps, Unjournaled, Journaled
  <2> QED
    BY <2>4, <2>5, <2>6 DEF PkiBase
<1>11. CASE Stage
  <2> DEFINE f == Targets[op][idx]
             made == [gen |-> Gen, file |-> f, was |-> pki[f]]
  <2>1. /\ step = "stage" /\ backups' = backups \cup {made}
        /\ \/ step' = "journal" /\ idx' = 1
           \/ step' = step /\ idx' = idx + 1
        /\ UNCHANGED <<pki, journal, op, todo, new, nextGen>>
    BY <1>11 DEF Stage, At, NextStep, others
  <2>2. made.gen = Gen /\ made.was = pki[made.file]
    OBVIOUS
  <2> HIDE DEF made
  <2>3. Gen' = Gen /\ Gen \in Nat /\ Gen < nextGen /\ \A b \in backups : b.gen = Gen => b.was = pki[b.file]
    BY <1>1, <1>2, <2>1 DEF HolderSteps, Gen
  <2>4. PkiShaped'
    BY <1>3, <1>4, <2>1
  <2>5. BackupsSound'
    BY <1>1, <2>1, <2>2, <2>3 DEF BackupsSound
  <2>6. HolderSteps'
    BY <1>1, <1>2, <2>1, <2>2, <2>3 DEF HolderSteps, At, Steps, Unjournaled, Journaled
  <2> QED
    BY <2>4, <2>5, <2>6 DEF PkiBase
<1>12. CASE WriteJournal
  <2>1. /\ step = "journal" /\ journal' = [journal EXCEPT ![op] = Gen] /\ step' = "retirement" /\ idx' = 1
        /\ UNCHANGED <<pki, backups, op, todo, new, nextGen>>
    BY <1>12 DEF WriteJournal, At, NextStep, others
  <2>2. op \in Kinds /\ Gen \in Nat /\ Gen < nextGen /\ Gen' = Gen /\ op # "retire"
    BY <1>1, <1>2, <2>1 DEF HolderSteps, Unjournaled, Gen
  <2>3. journal' \in [Kinds -> Nat \cup {None}] /\ journal'[op] = Gen
    BY ONLY <1>4, <2>1, <2>2
  <2>4. PkiShaped'
    BY <1>3, <1>4, <2>1, <2>3
  <2>5. BackupsSound'
    BY <1>1, <2>1 DEF BackupsSound
  <2>6. HolderSteps'
    BY <1>2, <2>1, <2>2, <2>3 DEF HolderSteps, At, Steps, Unjournaled, Journaled
  <2> QED
    BY <2>4, <2>5, <2>6 DEF PkiBase
<1>13. CASE WriteRetirement
  <2>1. /\ step = "retirement" /\ step' = "publish" /\ idx' = 1
        /\ UNCHANGED <<pki, backups, journal, op, todo, new, nextGen>>
    BY <1>13 DEF WriteRetirement, At, NextStep, others
  <2>2. PkiShaped'
    BY <1>3, <1>4, <2>1
  <2>3. BackupsSound'
    BY <1>1, <2>1 DEF BackupsSound
  <2>4. HolderSteps'
    BY <1>1, <1>2, <2>1 DEF HolderSteps, At, Steps, Unjournaled, Journaled, Gen
  <2> QED
    BY <2>2, <2>3, <2>4 DEF PkiBase
<1>14. CASE Publish
  <2>1. /\ step = "publish" /\ UNCHANGED <<backups, journal, op, todo, new, nextGen>>
        /\ \E f, v : pki' = [pki EXCEPT ![f] = v]
        /\ \/ step' = "commit" /\ idx' = 1
           \/ step' = step /\ idx' = idx + 1
    BY <1>14 DEF Publish, At, NextStep, others
  <2>2. pki' = [f \in Files |-> pki'[f]]
    BY ONLY <1>4, <2>1
  <2>3. PkiShaped'
    BY <1>3, <1>4, <2>1, <2>2
  <2>4. BackupsSound'
    BY <1>1, <2>1 DEF BackupsSound
  <2>5. HolderSteps'
    BY <1>1, <1>2, <2>1 DEF HolderSteps, At, Steps, Unjournaled, Journaled, Gen
  <2> QED
    BY <2>3, <2>4, <2>5 DEF PkiBase
<1>15. CASE StepFails /\ step \in Journaled
  <2>1. /\ step' = "recover" /\ op' = "rollback" /\ todo' = <<op>> /\ idx' = 1
        /\ UNCHANGED <<pki, backups, journal, new, nextGen>>
    BY <1>15 DEF StepFails, RollBack, Journaled
  <2>2. op \in Kinds
    BY <1>1, <1>2, <1>15 DEF HolderSteps
  <2>3. PkiShaped'
    BY <1>3, <1>4, <2>1, <2>2, KindLists
  <2>4. BackupsSound'
    BY <1>1, <2>1 DEF BackupsSound
  <2>5. HolderSteps'
    BY <1>2, <2>1 DEF HolderSteps, At, Steps, Unjournaled, Journaled
  <2> QED
    BY <2>3, <2>4, <2>5 DEF PkiBase
<1>16. CASE DeleteBackup
  <2>1. /\ step = "retire" /\ UNCHANGED <<pki, journal, op, todo, new, nextGen>>
        /\ backups' \subseteq backups /\ step' \in {"retire", "retired"}
        /\ idx' \in {1, idx}
    BY <1>16 DEF DeleteBackup, At, NextStep, holder
  <2>2. PkiShaped'
    BY <1>3, <1>4, <2>1
  <2>3. BackupsSound'
    BY <1>1, <2>1 DEF BackupsSound
  <2>4. HolderSteps'
    BY <1>1, <1>2, <2>1 DEF HolderSteps, At, Steps, Unjournaled, Journaled
  <2> QED
    BY <2>2, <2>3, <2>4 DEF PkiBase
<1> QED
  BY <1>5, <1>6, <1>7, <1>8, <1>9, <1>10, <1>11, <1>12, <1>13, <1>14, <1>15, <1>16 DEF WorkingStep

\* Giving the lock back keeps the base of the invariants.
LEMMA BaseEnding ==
  ASSUME PkiBase, EndingStep, UNCHANGED shift
  PROVE  PkiBase'
<1>1. /\ lock # None /\ lock' = None /\ idx' = 1 /\ todo' = <<>>
      /\ Shaped2' /\ UNCHANGED <<pki, nextGen>>
      /\ journal' = journal \/ Commit
      /\ backups' \subseteq backups
  BY EndingFacts
<1>2. PkiShaped /\ BackupsSound /\ HolderSteps
  BY DEF PkiBase
<1>3. BackupsSound'
  BY <1>1, <1>2 DEF BackupsSound
<1>4. journal' \in [Kinds -> Nat \cup {None}]
  <2>1. journal \in [Kinds -> Nat \cup {None}]
    BY <1>2 DEF PkiShaped
  <2>2. journal' = journal \/ journal' = [journal EXCEPT ![op] = None]
    BY <1>1 DEF Commit
  <2> QED
    BY ONLY <2>1, <2>2
<1> QED
  BY <1>1, <1>3, <1>4, BaseFreed

\* Taking the lock keeps it.
LEMMA BaseTaking ==
  ASSUME PkiBase, NEW p \in Procs, NEW o \in Kinds \cup {"recover", "retire"},
         NEW s \in {"recover", "retire"}, NEW kinds \in Seq(Kinds), Taking(p, o, s, kinds)
  PROVE  PkiBase'
<1>1. /\ Acquire(p, o, s, kinds)
      /\ UNCHANGED <<pki, backups, journal, seen, open, daemon, nextGen, shift>>
  BY DEF Taking
<1>2. o = "retire" <=> s = "retire"
  BY DEF Taking, Kinds
<1>3. \A k \in Kinds : StartOf[k] \in {"start_issuer", "start_root", "start_tls"}
  BY DEF StartOf, Kinds
<1>4. p = Server => daemon.pc \in DOMAIN OnOk
  BY <1>3, OnOkFacts DEF Taking
<1> QED
  BY <1>1, <1>2, <1>4, BaseAcquired

\* Every step keeps the base.
LEMMA BaseKept ==
  ASSUME PkiBase, [PkiNext]_pkiVars
  PROVE  PkiBase'
<1>1. CASE UNCHANGED pkiVars
  <2>1. UNCHANGED <<pki, backups, journal, lock, op, step, idx, todo, new, nextGen, shift, seen,
                    daemon, open>>
    BY <1>1 DEF pkiVars, work
  <2>2. Shaped2' /\ (lock = Server => daemon'.pc \in DOMAIN OnOk)
    BY <2>1 DEF PkiBase, PkiShaped, Shaped2
  <2> QED
    BY <2>1, <2>2, BaseQuiet
<1>2. CASE PkiNext
  <2>1. UNCHANGED shift
    BY <1>2 DEF PkiNext
  <2>2. CASE QuietStep
    BY <2>1, <2>2, QuietFacts, BaseQuiet
  <2>3. CASE WorkingStep
    BY <2>1, <2>3, BaseWorking
  <2>4. CASE EndingStep
    BY <2>1, <2>4, BaseEnding
  <2>5. CASE \E p \in Procs, o \in Kinds \cup {"recover", "retire"}, s \in {"recover", "retire"},
                kinds \in Seq(Kinds) : Taking(p, o, s, kinds)
    BY <2>5, BaseTaking
  <2> QED
    BY <1>2, <2>2, <2>3, <2>4, <2>5, PkiSteps
<1> QED
  BY <1>1, <1>2

\* And it holds at first.
LEMMA BaseInit ==
  ASSUME PkiInit
  PROVE  PkiBase
<1>1. PkiShaped
  <2>1. pki = [f \in Files |-> pki[f]]
    BY DEF PkiInit
  <2>2. seen = [p \in Procs |-> seen[p]]
    BY DEF PkiInit
  <2>3. daemon = [x \in {"pc", "host", "chain", "key", "issuer"} |-> daemon[x]]
    BY DEF PkiInit
  <2>4. journal \in [Kinds -> Nat \cup {None}] /\ todo \in Seq(Kinds) /\ None # Server
    BY PkiAssumption DEF PkiInit
  <2> QED
    BY <2>1, <2>2, <2>3, <2>4 DEF PkiInit, PkiShaped
<1>2. BackupsSound /\ HolderSteps
  BY DEF PkiInit, BackupsSound, HolderSteps, At
<1> QED
  BY <1>1, <1>2 DEF PkiBase

-----------------------------------------------------------------------------
\* What was read stays right as daemon and operators move.
LEMMA SeenQuiet ==
  ASSUME PkiBase, RootStays, HasSeen, QuietStep, UNCHANGED shift
  PROVE  RootStays' /\ HasSeen'
<1>1. PkiShaped
  BY DEF PkiBase
<1>2. UNCHANGED <<pki, journal, lock, op>>
  BY QuietFacts
<1>3. ASSUME NEW p \in Procs, p # lock, NEW v, seen' = [seen EXCEPT ![p] = v],
             v = None \/ v.root = 0,
             daemon'.pc \in {"renewing", "ticking"} =>
                (daemon.pc \in {"renewing", "ticking"} /\ p # Server) \/ (p = Server /\ v.root = 0)
      PROVE  RootStays' /\ HasSeen'
  <2>1. seen = [q \in Procs |-> seen[q]] /\ Server \in Procs
    BY <1>1 DEF PkiShaped, Procs
  <2>2. seen'[p] = v /\ \A q \in Procs : q # p => seen'[q] = seen[q]
    BY ONLY <1>3, <2>1
  <2>3. RootStays'
    BY <1>2, <1>3, <2>2 DEF RootStays
  <2>4. lock \in Procs \cup {None}
    BY <1>1 DEF PkiShaped
  <2>5. HasSeen'
    BY <1>2, <1>3, <2>1, <2>2, <2>4 DEF HasSeen
  <2> QED
    BY <2>3, <2>5
<1>4. ASSUME seen' = seen,
             daemon'.pc \in {"renewing", "ticking"} => daemon.pc \in {"renewing", "ticking"}
      PROVE  RootStays' /\ HasSeen'
  BY <1>2, <1>4 DEF RootStays, HasSeen
<1>5. CASE \/ Start \/ Bind \/ TlsRetirementPending \/ VerifyListeners \/ Stop
           \/ StartupRecovery("issuer", "start_issuer") /\ journal["issuer"] = None
           \/ StartupRecovery("root", "start_root") /\ journal["root"] = None
           \/ StartupRecovery("tls", "start_tls") /\ journal["tls"] = None
           \/ BeginRetirement /\ retirement = None
  <2>1. PICK from \in ServerPcs, to \in ServerPcs \ {"renewing", "ticking"} : ServerGoto(from, to)
    BY <1>5, OnOkFacts DEF Start, Bind, TlsRetirementPending, VerifyListeners, Stop,
         StartupRecovery, BeginRetirement, ServerPcs
  <2>2. seen' = seen
    BY <1>5 DEF Start, Bind, TlsRetirementPending, VerifyListeners, Stop, StartupRecovery,
         BeginRetirement
  <2> QED
    BY <1>1, <1>4, <2>1, <2>2, DaemonGoes
<1>6. CASE \/ LoadServerConfig \/ ReadFile("chain", "key") \/ ReadFile("key", "issuer")
           \/ ReadFile("issuer", "bind") \/ Age
  <2>1. daemon = [x \in {"pc", "host", "chain", "key", "issuer"} |-> daemon[x]]
    BY <1>1 DEF PkiShaped
  <2>2. seen' = seen /\ (daemon'.pc \in {"renew_start", "key", "issuer", "bind"} \/ daemon' = daemon)
    BY <1>6, <2>1 DEF LoadServerConfig, ReadFile, Age
  <2> QED
    BY <1>4, <2>2
<1>7. CASE RenewIfNeeded("renew_start", "renewing", "chain") \/ Tick
  <2>1. daemon.pc \in {"renew_start", "running"}
    BY <1>7 DEF RenewIfNeeded, Tick, ServerGoto
  <2>2. lock # Server /\ Server \in Procs
    BY <1>1, <2>1, OnOkFacts DEF PkiShaped, Procs
  <2>3. CASE Due
    <3> DEFINE v == [root |-> pki.root.gen, host |-> pki.config.host]
    <3>1. seen' = [seen EXCEPT ![Server] = v]
      BY <1>7, <2>3 DEF RenewIfNeeded, Tick
    <3>2. v.root = 0
      BY DEF RootStays
    <3> HIDE DEF v
    <3> QED
      BY <1>3, <2>2, <3>1, <3>2
  <2>4. CASE ~Due
    <3>1. ServerGoto("renew_start", "chain") /\ seen' = seen
      BY <1>7, <2>4 DEF RenewIfNeeded, Tick
    <3> QED
      BY <1>1, <1>4, <3>1, DaemonGoes
  <2> QED
    BY <2>3, <2>4
<1>8. CASE CrashServer /\ lock # Server
  <2>1. seen' = [seen EXCEPT ![Server] = None] /\ daemon' = [daemon EXCEPT !["pc"] = "off"]
        /\ Server \in Procs
    BY <1>8 DEF CrashServer, Procs
  <2>2. daemon'.pc = "off"
    BY <1>1, <2>1, DaemonSet
  <2> QED
    BY <1>3, <1>8, <2>1, <2>2
<1>9. ASSUME NEW p \in shift.tuis,
             Prepare(p) \/ Cancel(p) \/ (Reopen(p) /\ \A k \in Kinds : journal[k] = None)
      PROVE  RootStays' /\ HasSeen'
  <2>1. p \in Procs /\ p # Server
    BY <1>1, OnTheHost
  <2>2. CASE Prepare(p)
    <3> DEFINE v == [root |-> pki.root.gen, host |-> pki.config.host]
    <3>1. seen' = [seen EXCEPT ![p] = v] /\ p # lock /\ daemon' = daemon
      BY <2>2 DEF Prepare
    <3>2. v.root = 0
      BY DEF RootStays
    <3> HIDE DEF v
    <3> QED
      BY <1>3, <2>1, <3>1, <3>2
  <2>3. CASE Cancel(p)
    <3>1. seen' = [seen EXCEPT ![p] = None] /\ p # lock /\ daemon' = daemon
      BY <2>3 DEF Cancel
    <3> QED
      BY <1>3, <2>1, <3>1
  <2>4. CASE Reopen(p)
    BY <1>4, <2>4 DEF Reopen
  <2> QED
    BY <1>9, <2>2, <2>3, <2>4
<1> QED
  BY <1>5, <1>6, <1>7, <1>8, <1>9 DEF QuietStep

\* The rest of the invariant looks at the files and the holder of the lock.
LEMMA PkiStays ==
  ASSUME PkiInv, PkiBase', RootStays', HasSeen',
         UNCHANGED <<pki, backups, journal, lock, op, step, idx, todo, new>>
  PROVE  PkiInv'
<1>1. /\ (Clear' <=> Clear) /\ Published' = Published /\ Kind' = Kind /\ Gen' = Gen
      /\ (\A k : Restored(k)' = Restored(k))
      /\ \A g, f : (BackedUp(g, f)' <=> BackedUp(g, f)) /\ Backup(g, f)' = Backup(g, f)
      /\ \A s : At(s)' <=> At(s)
  BY DEF Clear, Published, Kind, Gen, Restored, BackedUp, Backup, At
<1>2. OneJournal'
  BY DEF PkiInv, OneJournal
<1>3. Recovers'
  BY <1>1 DEF PkiInv, Recovers
<1>4. Rotates'
  BY <1>1 DEF PkiInv, Rotates
<1>5. FilesFit'
  BY <1>1 DEF PkiInv, FilesFit
<1> QED
  BY <1>2, <1>3, <1>4, <1>5 DEF PkiInv

\* Moving daemon and operators keeps the invariant.
LEMMA PkiQuiet ==
  ASSUME PkiInv, QuietStep, UNCHANGED shift
  PROVE  PkiInv'
<1>1. UNCHANGED <<pki, backups, journal, lock, op, step, idx, todo, new>>
  BY QuietFacts DEF PkiInv
<1>2. PkiBase'
  BY QuietFacts, BaseQuiet DEF PkiInv
<1>3. RootStays' /\ HasSeen'
  BY SeenQuiet DEF PkiInv
<1> QED
  BY <1>1, <1>2, <1>3, PkiStays

-----------------------------------------------------------------------------
\* Whether the files fit together is a matter of what each of them says.
LEMMA CoherentSame ==
  ASSUME NEW d, NEW e, \A f \in Files : e[f] = d[f], Coherent(d)
  PROVE  Coherent(e)
BY DEF Coherent, Files

\* The backup of a file in a rotation, where there is only one.
LEMMA BackupIs ==
  ASSUME NEW S, \A b, c \in S : b.gen = c.gen /\ b.file = c.file => b.was = c.was,
         NEW b \in S
  PROVE  (CHOOSE c \in S : c.gen = b.gen /\ c.file = b.file).was = b.was
<1> DEFINE c == CHOOSE c \in S : c.gen = b.gen /\ c.file = b.file
<1>1. c \in S /\ c.gen = b.gen /\ c.file = b.file
  OBVIOUS
<1> QED
  BY <1>1

\* The lists a recovery works through when the root is kept.
LEMMA TodoFacts ==
  ASSUME NEW q \in {<<"issuer", "tls">>, <<"tls">>, <<"issuer">>, <<>>}, q # <<>>
  PROVE  /\ Head(q) \in {"issuer", "tls"} /\ Head(q) \in Kinds
         /\ Tail(q) \in {<<"issuer", "tls">>, <<"tls">>, <<"issuer">>, <<>>}
         /\ q = <<"issuer", "tls">> => Head(q) = "issuer" /\ Tail(q) = <<"tls">>
         /\ q = <<"tls">> => Head(q) = "tls"
<1>1. /\ Head(<<"issuer", "tls">>) = "issuer" /\ Tail(<<"issuer", "tls">>) = <<"tls">>
      /\ Head(<<"tls">>) = "tls" /\ Tail(<<"tls">>) = <<>>
      /\ Head(<<"issuer">>) = "issuer" /\ Tail(<<"issuer">>) = <<>>
  OBVIOUS
<1>2. <<"issuer", "tls">> # <<"tls">>
  <2>1. Head(<<"issuer", "tls">>) # Head(<<"tls">>)
    BY <1>1
  <2> QED
    BY ONLY <2>1
<1> QED
  BY <1>1, <1>2 DEF Kinds

\* The files and the journals are as they were, and so is what recovery makes of them.
LEMMA FitKept ==
  ASSUME FilesFit, UNCHANGED <<pki, backups, journal>>
  PROVE  FilesFit'
<1>1. /\ Clear' <=> Clear
      /\ \A k : Restored(k)' = Restored(k)
      /\ \A g, f : BackedUp(g, f)' <=> BackedUp(g, f)
  BY DEF Clear, Restored, Backup, BackedUp
<1> QED
  BY <1>1 DEF FilesFit

\* Taking the lock keeps the invariant.
LEMMA PkiTaking ==
  ASSUME PkiInv, RootIsKept, NEW p \in Procs, NEW o \in Kinds \cup {"recover", "retire"},
         NEW s \in {"recover", "retire"}, NEW kinds \in Seq(Kinds), Taking(p, o, s, kinds)
  PROVE  PkiInv'
<1>1. PkiBase' /\ PkiShaped
  BY BaseTaking DEF PkiInv, PkiBase
<1>2. /\ lock' = p /\ op' = o /\ step' = s /\ idx' = 1 /\ todo' = kinds
      /\ UNCHANGED <<pki, backups, journal, seen, daemon, shift>>
      /\ p # None
  BY PkiAssumption DEF Taking, Acquire, Procs
<1>3. o # "root"
  BY DEF Taking, RootIsKept
<1>4. RootStays'
  BY <1>2, <1>3 DEF PkiInv, RootStays
<1>5. HasSeen'
  BY <1>2 DEF PkiInv, RootStays, HasSeen, Taking, Kinds
<1>6. OneJournal' /\ FilesFit'
  BY <1>2, FitKept DEF PkiInv, OneJournal
<1>7. Recovers'
  <2>1. s = "recover" =>
           /\ kinds \in {<<"issuer", "tls">>, <<"tls">>, <<"issuer">>}
           /\ o \in Kinds => kinds = <<"issuer", "tls">>
    <3>1. CASE o = "recover"
      <4>1. PICK k \in Kinds : kinds = <<k>> /\ journal[k] # None
        BY <3>1 DEF Taking, Kinds
      <4>2. k \in {"issuer", "tls"}
        BY <4>1 DEF PkiInv, RootStays, Kinds
      <4> QED
        BY <3>1, <4>1, <4>2 DEF Kinds
    <3>2. CASE o \in Kinds
      <4>1. kinds = RecoverFirst[o] /\ o \in {"issuer", "tls"}
        BY <1>3, <3>2 DEF Taking, Kinds
      <4> QED
        BY <4>1, KindLists
    <3>3. CASE o = "retire"
      BY <3>3 DEF Taking, Kinds
    <3> QED
      BY <3>1, <3>2, <3>3
  <2>2. s = "recover" => kinds # <<>> /\ Head(kinds) \in Kinds
    <3>1. \A q \in {<<"issuer", "tls">>, <<"tls">>, <<"issuer">>} : q # <<>>
      OBVIOUS
    <3> QED
      BY <2>1, <3>1, TodoFacts
  <2>3. \A k \in Kinds : \A i \in DOMAIN Targets[k] : ~(i < 1)
    BY TargetsTyped
  <2> QED
    BY <1>2, <2>1, <2>2, <2>3 DEF Recovers, At, Recovering, Kind
<1>8. Rotates'
  BY <1>2 DEF Rotates, At, Unjournaled, Journaled
<1> QED
  BY <1>1, <1>4, <1>5, <1>6, <1>7, <1>8 DEF PkiInv

\* So does giving it back.
LEMMA PkiEnding ==
  ASSUME PkiInv, EndingStep, UNCHANGED shift
  PROVE  PkiInv'
<1>1. PkiBase' /\ PkiShaped /\ PkiBase /\ HolderSteps
  BY BaseEnding DEF PkiInv, PkiBase
<1>2. /\ lock # None /\ lock' = None /\ UNCHANGED pki
      /\ seen'[lock] = None /\ \A p \in Procs : p # lock => seen'[p] = seen[p]
      /\ lock # Server => daemon' = daemon
      /\ lock = Server => daemon'.pc = "off" \/ daemon'.pc = OnOk[daemon.pc]
      /\ journal' = journal \/ Commit
      /\ \/ backups' = backups
         \/ step \in {"stage", "journal"} /\ backups' = {b \in backups : b.gen # Gen}
  BY <1>1, EndingFacts
<1>3. /\ journal \in [Kinds -> Nat \cup {None}] /\ lock \in Procs /\ Server \in Procs
  BY <1>1, <1>2 DEF PkiShaped, Procs
<1>4. Commit => /\ At("commit") /\ journal' = [journal EXCEPT ![op] = None] /\ op \in Kinds
                /\ backups' = backups
  BY <1>1 DEF Commit, HolderSteps, At, Journaled
<1>5. \A k \in Kinds : journal'[k] = journal[k] \/ (Commit /\ k = op /\ journal'[k] = None)
  BY ONLY <1>2, <1>3, <1>4
<1>6. RootStays'
  BY <1>2, <1>5 DEF PkiInv, RootStays, Kinds
<1>7. HasSeen'
  <2>1. lock = Server => daemon'.pc \notin {"renewing", "ticking"}
    BY <1>1, <1>2, OnOkFacts DEF PkiShaped
  <2> QED
    BY <1>2, <1>3, <2>1 DEF PkiInv, HasSeen
<1>8. OneJournal'
  BY <1>5 DEF PkiInv, OneJournal, Kinds
<1>9. Recovers' /\ Rotates'
  BY <1>2 DEF Recovers, Rotates, At
<1>10. FilesFit'
  <2>1. CASE Commit
    <3>1. Coherent(Published) /\ \A f \in Replaced(op) : pki[f] = new[f]
      BY <1>2, <1>4, <2>1 DEF PkiInv, Rotates, At, Journaled
    <3>2. \A f \in Files : pki[f] = Published[f]
      BY <3>1 DEF Published
    <3>3. Coherent(pki)
      BY <3>1, <3>2, CoherentSame
    <3>4. ASSUME NEW k \in Kinds, journal'[k] # None,
                 \A f \in Replaced(k) : BackedUp(journal[k], f)'
          PROVE  Coherent(Restored(k)')
      <4>1. journal'[k] = journal[k]
        BY <1>5, <3>4
      <4>2. Restored(k)' = Restored(k) /\ \A f \in Replaced(k) : BackedUp(journal[k], f)
        BY <1>2, <1>4, <2>1, <3>4, <4>1 DEF Restored, Backup, BackedUp
      <4> QED
        BY <3>4, <4>1, <4>2 DEF PkiInv, FilesFit
    <3> QED
      BY <1>2, <3>3, <3>4 DEF FilesFit, Coherent
  <2>2. CASE journal' = journal /\ backups' = backups
    BY <1>2, <2>2, FitKept DEF PkiInv
  <2>3. CASE journal' = journal /\ step \in {"stage", "journal"}
    <3>1. Clear
      BY <1>2, <2>3 DEF PkiInv, Rotates, Unjournaled
    <3> QED
      BY <1>2, <2>3, <3>1 DEF PkiInv, FilesFit, Clear, Coherent
  <2> QED
    BY <1>2, <2>1, <2>2, <2>3
<1> QED
  BY <1>1, <1>6, <1>7, <1>8, <1>9, <1>10 DEF PkiInv

\* The holder of the lock works on: what the invariant says apart from the
\* recovery and the rotation it is at.
LEMMA WorkingSeen ==
  ASSUME PkiInv, WorkingStep, UNCHANGED shift, op' \in {op, "rollback"},
         pki'.root.gen = 0, journal'["root"] = None
  PROVE  PkiBase' /\ RootStays' /\ HasSeen'
<1>1. PkiBase'
  BY BaseWorking DEF PkiInv
<1>2. lock # None /\ UNCHANGED <<lock, seen, open, daemon>>
  BY WorkingFacts
<1>3. RootStays'
  BY <1>2 DEF PkiInv, RootStays
<1>4. HasSeen'
  BY <1>2 DEF PkiInv, HasSeen, Kinds
<1> QED
  BY <1>1, <1>3, <1>4

\* A kind done with leaves the list of a recovery.
LEMMA ListShrinks ==
  ASSUME PkiInv, lock # None, step \in Recovering, todo # <<>>, journal[Kind] = None,
         lock' = lock, step' = "recover", idx' = 1, todo' = Tail(todo),
         UNCHANGED <<journal, op>>
  PROVE  Recovers' /\ Rotates'
<1>1. /\ todo \in {<<"issuer", "tls">>, <<"tls">>, <<"issuer">>, <<>>}
      /\ op \in Kinds => /\ journal["issuer"] # None => todo = <<"issuer", "tls">>
                         /\ journal["tls"] # None => todo \in {<<"issuer", "tls">>, <<"tls">>}
  BY DEF PkiInv, Recovers
<1>2. /\ Tail(todo) \in {<<"issuer", "tls">>, <<"tls">>, <<"issuer">>, <<>>}
      /\ todo = <<"issuer", "tls">> => Head(todo) = "issuer" /\ Tail(todo) = <<"tls">>
      /\ todo = <<"tls">> => Head(todo) = "tls"
  BY <1>1, TodoFacts
<1>3. todo' # <<>> => Head(todo') \in Kinds
  BY <1>2, TodoFacts
<1>4. \A k \in Kinds : \A i \in DOMAIN Targets[k] : ~(i < 1)
  BY TargetsTyped
<1>5. op' \in Kinds => /\ journal'["issuer"] # None => todo' = <<"issuer", "tls">>
                       /\ journal'["tls"] # None => todo' \in {<<"issuer", "tls">>, <<"tls">>}
  BY <1>1, <1>2 DEF Kind
<1>6. At("recover")' /\ todo' # <<>> => \A i \in DOMAIN Targets[Kind]' : ~(i < idx')
  BY <1>3, <1>4 DEF Kind, Targets
<1>7. Recovers'
  BY <1>2, <1>5, <1>6 DEF Recovers, At
<1>8. Rotates'
  BY DEF Rotates, At, Unjournaled, Journaled
<1> QED
  BY <1>7, <1>8

\* The steps of a recovery before and after the files are restored.
LEMMA PkiListing ==
  ASSUME PkiInv, SkipRecovered \/ UnlistBackups, UNCHANGED shift
  PROVE  PkiInv'
<1>1. /\ lock # None /\ step \in Recovering /\ todo # <<>> /\ journal[Kind] = None
      /\ lock' = lock /\ step' = "recover" /\ todo' = Tail(todo)
      /\ UNCHANGED <<pki, backups, journal, op>>
  BY DEF SkipRecovered, UnlistBackups, At, Recovering, store, PkiInv, PkiBase, HolderSteps
<1>2. idx' = 1
  BY DEF SkipRecovered, UnlistBackups, At, PkiInv, Recovers
<1>3. Recovers' /\ Rotates'
  BY <1>1, <1>2, ListShrinks
<1>4. PkiBase' /\ RootStays' /\ HasSeen'
  BY <1>1, WorkingSeen DEF WorkingStep, PkiInv, RootStays
<1>5. OneJournal' /\ FilesFit'
  BY <1>1, FitKept DEF PkiInv, OneJournal
<1> QED
  BY <1>3, <1>4, <1>5 DEF PkiInv

\* A file is restored.
LEMMA PkiRestoring ==
  ASSUME PkiInv, RestoreTarget, BackedUp(journal[Kind], Targets[Kind][idx]), UNCHANGED shift
  PROVE  PkiInv'
<1>1. PICK k, g, f : k = Kind /\ g = journal[k] /\ f = Targets[k][idx]
  OBVIOUS
<1>2. /\ At("recover") /\ todo # <<>> /\ g # None /\ idx <= Len(Targets[k]) /\ BackedUp(g, f)
      /\ pki' = [pki EXCEPT ![f] = Backup(g, f).was]
      /\ UNCHANGED <<backups, journal, lock, op, todo, new>>
      /\ IF idx = Len(Targets[k]) THEN step' = "forget" /\ idx' = 1
         ELSE idx' = idx + 1 /\ step' = step
  BY <1>1 DEF RestoreTarget, NextStep
<1>3. /\ todo \in {<<"issuer", "tls">>, <<"tls">>, <<"issuer">>, <<>>}
      /\ \A i \in DOMAIN Targets[k] : i < idx =>
            BackedUp(g, Targets[k][i]) /\ pki[Targets[k][i]] = Backup(g, Targets[k][i]).was
  BY <1>1, <1>2 DEF PkiInv, Recovers, At, Recovering
<1>4. k \in {"issuer", "tls"} /\ k \in Kinds
  BY <1>1, <1>2, <1>3, TodoFacts DEF Kind
<1>5. /\ idx \in Nat \ {0} /\ pki = [h \in Files |-> pki[h]] /\ idx \in DOMAIN Targets[k]
      /\ f \in Files /\ f \in Replaced(k) /\ f # "root"
  <2>1. idx \in Nat \ {0} /\ pki = [h \in Files |-> pki[h]]
    BY DEF PkiInv, PkiBase, PkiShaped
  <2>2. idx \in DOMAIN Targets[k]
    BY ONLY <1>2, <1>4, <2>1, TargetsTyped
  <2>3. f \in Files /\ f \in Replaced(k)
    BY ONLY <1>1, <1>4, <2>2, TargetsTyped
  <2>4. f # "root"
    BY ONLY <1>4, <2>3, TargetFacts
  <2> QED
    BY ONLY <2>1, <2>2, <2>3, <2>4
<1>6. pki'[f] = Backup(g, f).was /\ \A h \in Files : h # f => pki'[h] = pki[h]
  BY ONLY <1>2, <1>5
<1>7. /\ \A h : Backup(g, h)' = Backup(g, h) /\ (BackedUp(g, h)' <=> BackedUp(g, h))
      /\ Kind' = k /\ journal'[k] = g
  BY <1>1, <1>2 DEF Backup, BackedUp, Kind
<1>8. PkiBase' /\ RootStays' /\ HasSeen'
  <2>1. WorkingStep
    BY <1>1, <1>2 DEF WorkingStep
  <2>2. pki'.root.gen = 0
    BY <1>5, <1>6 DEF PkiInv, RootStays, Files
  <2> QED
    BY <1>2, <2>1, <2>2, WorkingSeen DEF PkiInv, RootStays
<1>9. OneJournal'
  BY <1>2 DEF PkiInv, OneJournal
<1>10. Rotates'
  BY <1>2 DEF Rotates, At, Unjournaled, Journaled
<1>11. \A i \in DOMAIN Targets[k] : i <= idx =>
            BackedUp(g, Targets[k][i]) /\ pki'[Targets[k][i]] = Backup(g, Targets[k][i]).was
  <2> SUFFICES ASSUME NEW i \in DOMAIN Targets[k], i <= idx
               PROVE  BackedUp(g, Targets[k][i]) /\ pki'[Targets[k][i]] = Backup(g, Targets[k][i]).was
    OBVIOUS
  <2>1. CASE Targets[k][i] = f
    BY <1>2, <1>6, <2>1
  <2>2. CASE Targets[k][i] # f
    <3>1. i < idx /\ Targets[k][i] \in Files
      BY <1>1, <1>4, <1>5, <2>2, TargetsTyped
    <3> QED
      BY <1>3, <1>6, <2>2, <3>1
  <2> QED
    BY <2>1, <2>2
<1>12. \A h \in Files : Restored(k)'[h] = Restored(k)[h]
  <2>1. ASSUME NEW h \in Files PROVE Restored(k)'[h] = Restored(k)[h]
    <3>1. /\ Restored(k)[h] = IF h \in Replaced(k) THEN Backup(g, h).was ELSE pki[h]
          /\ Restored(k)'[h] = IF h \in Replaced(k) THEN Backup(g, h)'.was ELSE pki'[h]
      BY <1>1, <1>7 DEF Restored, Backup, Replaced, Targets
    <3> QED
      BY <1>5, <1>6, <1>7, <3>1
  <2> QED
    BY <2>1
<1>13. FilesFit'
  <2>1. ~Clear'
    BY <1>2, <1>4, <1>7 DEF Clear
  <2>2. \A j \in Kinds : journal'[j] # None => j = k
    BY <1>1, <1>2, <1>4 DEF PkiInv, OneJournal, RootStays, Kinds
  <2>3. (\A h \in Replaced(k) : BackedUp(g, h)) => Coherent(Restored(k)')
    BY <1>1, <1>2, <1>4, <1>12, CoherentSame DEF PkiInv, FilesFit
  <2> QED
    BY <1>7, <2>1, <2>2, <2>3 DEF FilesFit, Coherent
<1>14. Recovers'
  <2>1. step' = "forget" => Coherent(pki')
    <3>1. SUFFICES ASSUME idx = Len(Targets[k]) PROVE Coherent(pki')
      BY <1>2 DEF At
    <3>2. \A h \in Replaced(k) : BackedUp(g, h) /\ pki'[h] = Backup(g, h).was
      BY <1>4, <1>11, <3>1, TargetsTyped
    <3>3. Coherent(Restored(k))
      BY <1>1, <1>2, <1>4, <3>2 DEF PkiInv, FilesFit
    <3>4. \A h \in Files : pki'[h] = Restored(k)[h]
      BY <1>1, <1>5, <1>6, <3>2 DEF Restored
    <3> QED
      BY <3>3, <3>4, CoherentSame
  <2>2. step' = "recover" => \A i \in DOMAIN Targets[k] : i < idx' => i <= idx
    BY <1>2, <1>4, <1>5, TargetsTyped
  <2> QED
    BY <1>2, <1>3, <1>7, <1>11, <2>1, <2>2 DEF PkiInv, Recovers, At, Recovering, Coherent
<1> QED
  BY <1>8, <1>9, <1>10, <1>13, <1>14 DEF PkiInv

\* All files are restored.
LEMMA PkiForgetting ==
  ASSUME PkiInv, ForgetJournal, UNCHANGED shift
  PROVE  PkiInv'
<1>1. PICK k : k = Kind
  OBVIOUS
<1>2. /\ At("forget") /\ journal' = [journal EXCEPT ![k] = None] /\ step' = "unlist" /\ idx' = 1
      /\ UNCHANGED <<pki, backups, lock, op, todo, new>>
  BY <1>1 DEF ForgetJournal, NextStep
<1>3. \A j \in Kinds : journal'[j] \in {journal[j], None}
  <2>1. journal \in [Kinds -> Nat \cup {None}]
    BY DEF PkiInv, PkiBase, PkiShaped
  <2> QED
    BY ONLY <1>2, <2>1
<1>4. PkiBase' /\ RootStays' /\ HasSeen'
  <2>1. journal'["root"] = None
    BY <1>3 DEF PkiInv, RootStays, Kinds
  <2> QED
    BY <1>2, <2>1, WorkingSeen DEF WorkingStep, PkiInv, RootStays
<1>5. OneJournal'
  BY <1>3 DEF PkiInv, OneJournal, Kinds
<1>6. Recovers'
  BY <1>2, <1>3 DEF PkiInv, Recovers, At, Recovering, Kinds
<1>7. Rotates'
  BY <1>2 DEF Rotates, At, Unjournaled, Journaled
<1>8. FilesFit'
  <2>1. Coherent(pki')
    BY <1>2 DEF PkiInv, Recovers
  <2>2. ASSUME NEW j \in Kinds, journal'[j] # None,
               \A f \in Replaced(j) : BackedUp(journal[j], f)'
        PROVE  Coherent(Restored(j)')
    <3>1. journal'[j] = journal[j]
      BY <1>3, <2>2
    <3>2. Restored(j)' = Restored(j) /\ \A f \in Replaced(j) : BackedUp(journal[j], f)
      <4>1. pki' = pki /\ backups' = backups
        BY <1>2
      <4> QED
        BY ONLY <2>2, <3>1, <4>1 DEF Restored, Backup, BackedUp, Replaced, Targets
    <3> QED
      BY <2>2, <3>1, <3>2 DEF PkiInv, FilesFit
  <2> QED
    BY <2>1, <2>2 DEF FilesFit, Coherent
<1> QED
  BY <1>4, <1>5, <1>6, <1>7, <1>8 DEF PkiInv

\* The files that a rotation writes fit those it leaves.
LEMMA ComputedFits ==
  ASSUME PkiInv, At("check"), ~Refused, NEW g
  PROVE  Coherent([f \in Files |-> IF f \in Replaced(op) THEN NewContents(op, g)[f] ELSE pki[f]])
<1> DEFINE n == NewContents(op, g)
           d == [f \in Files |-> IF f \in Replaced(op) THEN n[f] ELSE pki[f]]
<1>1. /\ op \in {"tls", "issuer"} /\ op \in Kinds /\ Clear /\ Coherent(pki)
      /\ seen[lock].root = 0 /\ pki.root.gen = 0
  BY DEF PkiInv, PkiBase, HolderSteps, At, Unjournaled, Kinds, RootStays, HasSeen, Rotates, FilesFit
<1>2. seen[lock].host = pki.config.host
  BY DEF Refused
<1>3. \A x, i, r, h : /\ Wrote(x, i, r, h).gen = x /\ Wrote(x, i, r, h).issuer = i
                      /\ Wrote(x, i, r, h).root = r /\ Wrote(x, i, r, h).host = h
  BY DEF Wrote
<1>4. CASE op = "tls"
  <2>1. PICK host : /\ n["chain"] = Wrote(g, pki.issuer.gen, pki.issuer.root, host)
                    /\ n["key"] = Wrote(g, 0, 0, 0) /\ n["config"] = Wrote(g, 0, 0, host)
    BY <1>1, <1>4, NewFacts
  <2>2. /\ d["chain"] = n["chain"] /\ d["key"] = n["key"] /\ d["config"] = n["config"]
        /\ d["issuer"] = pki["issuer"] /\ d["root"] = pki["root"]
    BY <1>4, TargetFacts DEF Files
  <2> HIDE DEF d, n
  <2> QED
    BY <1>1, <1>3, <2>1, <2>2 DEF Coherent, d, n
<1>5. CASE op = "issuer"
  <2>1. /\ n["chain"] = Wrote(g, g, seen[lock].root, seen[lock].host)
        /\ n["key"] = Wrote(g, 0, 0, 0) /\ n["issuer"] = Wrote(g, 0, seen[lock].root, 0)
    BY <1>1, <1>5, NewFacts
  <2>2. /\ d["chain"] = n["chain"] /\ d["key"] = n["key"] /\ d["config"] = pki["config"]
        /\ d["issuer"] = n["issuer"] /\ d["root"] = pki["root"]
    BY <1>5, TargetFacts DEF Files
  <2> HIDE DEF d, n
  <2> QED
    BY <1>1, <1>2, <1>3, <2>1, <2>2 DEF Coherent, d, n
<1> QED
  BY <1>1, <1>4, <1>5

\* Nothing is left to recover: a rotation prepares.
LEMMA PkiPreparing ==
  ASSUME PkiInv, (Recovered /\ op \in Kinds) \/ Compute \/ Stage, UNCHANGED shift
  PROVE  PkiInv'
<1>1. lock # None /\ UNCHANGED <<pki, journal, lock, op>> /\ WorkingStep
  BY DEF Recovered, Compute, Stage, At, NextStep, store, others, WorkingStep
<1>2. PkiBase' /\ RootStays' /\ HasSeen' /\ OneJournal'
  BY <1>1, WorkingSeen DEF PkiInv, RootStays, OneJournal
<1>3. Clear
  <2>1. CASE Recovered /\ op \in Kinds
    <3>1. step = "recover" /\ todo = <<>>
      BY <2>1 DEF Recovered, At
    <3>2. <<>> # <<"issuer", "tls">> /\ <<>> # <<"tls">>
      OBVIOUS
    <3> QED
      BY <1>1, <2>1, <3>1, <3>2 DEF PkiInv, Recovers, Recovering, RootStays, Clear, Kinds
  <2>2. CASE Compute \/ Stage
    BY <2>2 DEF Compute, Stage, At, PkiInv, Rotates, Unjournaled
  <2> QED
    BY <2>1, <2>2
<1>4. Clear' /\ FilesFit'
  BY <1>1, <1>3 DEF PkiInv, FilesFit, Clear, Coherent
<1>5. step' \in Unjournaled
  BY DEF Recovered, Compute, Stage, NextStep, At, Unjournaled
<1>6. Recovers'
  BY <1>5 DEF Recovers, At, Unjournaled, Recovering
<1>7. step' \in {"stage", "journal"} => Gen' # None /\ Coherent(Published')
  <2>1. CASE Recovered /\ op \in Kinds
    BY <2>1 DEF Recovered, NextStep
  <2>2. CASE Compute
    <3>1. /\ At("check") /\ ~Refused /\ new' = NewContents(op, nextGen) /\ nextGen <= MaxGen
          /\ op \in Kinds /\ nextGen \in Nat
      BY <2>2 DEF Compute, At, PkiInv, PkiBase, HolderSteps, PkiShaped, Unjournaled
    <3>2. Published' = [f \in Files |-> IF f \in Replaced(op) THEN NewContents(op, nextGen)[f] ELSE pki[f]]
      BY <1>1, <3>1 DEF Published, Replaced, Targets
    <3>3. Gen' = nextGen
      BY <3>1, NewFacts DEF Gen
    <3>4. nextGen # None
      BY <3>1, PkiAssumption
    <3> QED
      BY <3>1, <3>2, <3>3, <3>4, ComputedFits
  <2>3. CASE Stage
    <3>1. At("stage") /\ new' = new
      BY <2>3 DEF Stage, NextStep
    <3>2. Gen # None /\ Coherent(Published)
      BY <1>1, <3>1 DEF PkiInv, Rotates, At
    <3>3. Published' = Published /\ Gen' = Gen
      BY <1>1, <3>1 DEF Published, Gen
    <3> QED
      BY <3>2, <3>3
  <2> QED
    BY <2>1, <2>2, <2>3
<1>8. Rotates'
  BY <1>4, <1>5, <1>7 DEF Rotates, At, Unjournaled, Journaled, Coherent
<1> QED
  BY <1>2, <1>4, <1>6, <1>8 DEF PkiInv

\* The journal is written when every file is backed up as it is.
LEMMA PkiJournaling ==
  ASSUME PkiInv, WriteJournal, UNCHANGED shift
  PROVE  PkiInv'
<1>1. PICK k, g : k = op /\ g = Gen
  OBVIOUS
<1>2. /\ At("journal") /\ journal' = [journal EXCEPT ![k] = g] /\ step' = "retirement" /\ idx' = 1
      /\ UNCHANGED <<pki, backups, lock, op, new>>
  BY <1>1 DEF WriteJournal, NextStep, others
<1>3. /\ k \in Kinds /\ k # "root" /\ Clear /\ Coherent(pki) /\ g # None /\ Coherent(Published)
      /\ \A b \in backups : b.gen = g => b.was = pki[b.file]
  BY <1>1, <1>2 DEF PkiInv, PkiBase, HolderSteps, RootStays, Rotates, FilesFit, At, Unjournaled
<1>4. journal'[k] = g /\ \A j \in Kinds : j # k => journal'[j] = None
  <2>1. journal \in [Kinds -> Nat \cup {None}] /\ \A j \in Kinds : journal[j] = None
    BY <1>3 DEF PkiInv, PkiBase, PkiShaped, Clear
  <2> QED
    BY ONLY <1>2, <1>3, <2>1
<1>5. PkiBase' /\ RootStays' /\ HasSeen'
  <2>1. journal'["root"] = None
    BY <1>3, <1>4 DEF Kinds
  <2> QED
    BY <1>2, <2>1, WorkingSeen DEF WorkingStep, PkiInv, RootStays
<1>6. OneJournal'
  BY <1>3, <1>4 DEF OneJournal, Kinds
<1>7. Recovers'
  BY <1>2 DEF Recovers, At, Recovering
<1>8. Rotates'
  <2>1. Gen' = Gen /\ Published' = Published
    BY <1>2 DEF Gen, Published
  <2> QED
    BY <1>1, <1>2, <1>3, <2>1 DEF Rotates, At, Unjournaled, Journaled, Coherent
<1>9. FilesFit'
  <2>1. ASSUME \A f \in Replaced(k) : BackedUp(g, f)
        PROVE  Coherent(Restored(k)')
    <3>1. ASSUME NEW f \in Replaced(k) PROVE Backup(g, f).was = pki[f]
      <4>1. PICK b \in backups : b.gen = g /\ b.file = f
        BY <2>1 DEF BackedUp
      <4>2. Backup(g, f) \in backups /\ Backup(g, f).gen = g /\ Backup(g, f).file = f
        BY <4>1 DEF Backup
      <4> QED
        BY <1>3, <4>2
    <3>2. \A f \in Files : Restored(k)'[f] = pki[f]
      <4>1. Restored(k)' = [f \in Files |-> IF f \in Replaced(k) THEN Backup(g, f).was ELSE pki[f]]
        <5>1. pki' = pki /\ backups' = backups /\ journal'[k] = g
          BY <1>2, <1>4
        <5> QED
          BY ONLY <5>1 DEF Restored, Backup, Replaced, Targets
      <4> QED
        BY <3>1, <4>1
    <3> QED
      BY <1>3, <3>2, CoherentSame
  <2>2. \A f : BackedUp(g, f)' <=> BackedUp(g, f)
    BY <1>2 DEF BackedUp
  <2> QED
    BY <1>2, <1>3, <1>4, <2>1, <2>2 DEF FilesFit, Coherent
<1> QED
  BY <1>5, <1>6, <1>7, <1>8, <1>9 DEF PkiInv

\* A file is published.
LEMMA PkiPublishing ==
  ASSUME PkiInv, Publish, UNCHANGED shift
  PROVE  PkiInv'
<1>1. PICK k, f : k = op /\ f = Targets[k][idx]
  OBVIOUS
<1>2. /\ At("publish") /\ pki' = [pki EXCEPT ![f] = new[f]]
      /\ UNCHANGED <<backups, journal, lock, op, todo, new>>
      /\ IF idx = Len(Targets[k]) THEN step' = "commit" /\ idx' = 1
         ELSE idx' = idx + 1 /\ step' = step
  BY <1>1 DEF Publish, NextStep
<1>3. /\ k \in {"tls", "issuer"} /\ k \in Kinds /\ Gen # None /\ Coherent(Published) /\ journal[k] = Gen
      /\ idx \in DOMAIN Targets[k]
      /\ \A i \in DOMAIN Targets[k] : i < idx => pki[Targets[k][i]] = new[Targets[k][i]]
  BY <1>1, <1>2 DEF PkiInv, PkiBase, HolderSteps, Rotates, RootStays, At, Unjournaled, Journaled, Kinds
<1>4. f \in Files /\ f \in Replaced(k) /\ f # "root" /\ pki = [h \in Files |-> pki[h]]
  <2>1. f \in Files /\ f \in Replaced(k)
    BY ONLY <1>1, <1>3, TargetsTyped
  <2>2. f # "root"
    BY ONLY <1>3, <2>1, TargetFacts
  <2> QED
    BY <2>1, <2>2 DEF PkiInv, PkiBase, PkiShaped
<1>5. pki'[f] = new[f] /\ \A h \in Files : h # f => pki'[h] = pki[h]
  BY ONLY <1>2, <1>4
<1>6. PkiBase' /\ RootStays' /\ HasSeen' /\ OneJournal'
  <2>1. pki'.root.gen = 0
    BY <1>4, <1>5 DEF PkiInv, RootStays, Files
  <2> QED
    BY <1>2, <2>1, WorkingSeen DEF WorkingStep, PkiInv, RootStays, OneJournal
<1>7. Recovers'
  BY <1>2 DEF Recovers, At, Recovering
<1>8. \A i \in DOMAIN Targets[k] : i <= idx => pki'[Targets[k][i]] = new[Targets[k][i]]
  <2> SUFFICES ASSUME NEW i \in DOMAIN Targets[k], i <= idx
               PROVE  pki'[Targets[k][i]] = new[Targets[k][i]]
    OBVIOUS
  <2>1. CASE Targets[k][i] = f
    BY <1>5, <2>1
  <2>2. CASE Targets[k][i] # f
    <3>1. i < idx /\ Targets[k][i] \in Files
      BY <1>1, <1>3, <2>2, TargetsTyped
    <3> QED
      BY <1>3, <1>5, <2>2, <3>1
  <2> QED
    BY <2>1, <2>2
<1>9. Rotates'
  <2>1. Gen' = Gen
    BY <1>2 DEF Gen
  <2>2. Coherent(Published')
    <3>1. \A h \in Files : Published'[h] = Published[h]
      BY <1>1, <1>2, <1>4, <1>5 DEF Published
    <3> QED
      BY <1>3, <3>1, CoherentSame
  <2>3. step' = "publish" => /\ idx' \in DOMAIN Targets[k]
                             /\ \A i \in DOMAIN Targets[k] : i < idx' => i <= idx
    BY <1>2, <1>3, TargetsTyped
  <2>4. step' = "commit" => \A h \in Replaced(k) : pki'[h] = new[h]
    <3>1. SUFFICES ASSUME idx = Len(Targets[k]) PROVE \A h \in Replaced(k) : pki'[h] = new[h]
      BY <1>2 DEF At
    <3> QED
      BY <1>3, <1>8, <3>1, TargetsTyped
  <2>5. step' \in {"publish", "commit"} /\ op' = k /\ new' = new
    BY <1>1, <1>2 DEF At
  <2> QED
    BY <1>3, <1>8, <2>1, <2>2, <2>3, <2>4, <2>5 DEF Rotates, At, Unjournaled, Journaled, Coherent
<1>10. FilesFit'
  <2>1. ~Clear'
    BY <1>2, <1>3 DEF Clear
  <2>2. \A j \in Kinds : journal'[j] # None => j = k
    BY <1>2, <1>3 DEF PkiInv, OneJournal, RootStays, Kinds
  <2>3. /\ \A h : Backup(journal[k], h)' = Backup(journal[k], h)
        /\ \A h : BackedUp(journal[k], h)' <=> BackedUp(journal[k], h)
    BY <1>2 DEF Backup, BackedUp
  <2>4. \A h \in Files : Restored(k)'[h] = Restored(k)[h]
    <3>1. ASSUME NEW h \in Files PROVE Restored(k)'[h] = Restored(k)[h]
      <4>1. /\ Restored(k)[h] = IF h \in Replaced(k) THEN Backup(journal[k], h).was ELSE pki[h]
            /\ Restored(k)'[h] = IF h \in Replaced(k) THEN Backup(journal[k], h)'.was ELSE pki'[h]
        BY DEF Restored, Replaced, Targets
      <4> QED
        BY <1>4, <1>5, <2>3, <4>1
    <3> QED
      BY <3>1
  <2>5. (\A h \in Replaced(k) : BackedUp(journal[k], h)) => Coherent(Restored(k)')
    BY <1>3, <2>4, CoherentSame DEF PkiInv, FilesFit
  <2> QED
    BY <2>1, <2>2, <2>3, <2>5 DEF FilesFit, Coherent
<1> QED
  BY <1>6, <1>7, <1>9, <1>10 DEF PkiInv

\* A rotation lists its backups, or fails and rolls itself back.
LEMMA PkiTurning ==
  ASSUME PkiInv, WriteRetirement \/ (StepFails /\ step \in Journaled), UNCHANGED shift
  PROVE  PkiInv'
<1>1. /\ lock # None /\ step \in Journaled /\ UNCHANGED <<pki, backups, journal, lock, new>> /\ idx' = 1
      /\ \/ step' = "publish" /\ op' = op
         \/ step' = "recover" /\ op' = "rollback" /\ todo' = <<op>>
  BY DEF WriteRetirement, StepFails, RollBack, NextStep, At, Journaled
<1>2. op \in {"issuer", "tls"} /\ op \in Kinds
  BY <1>1 DEF PkiInv, PkiBase, HolderSteps, RootStays, Kinds
<1>3. PkiBase' /\ RootStays' /\ HasSeen'
  BY <1>1, WorkingSeen DEF WorkingStep, PkiInv, RootStays
<1>4. OneJournal' /\ FilesFit'
  BY <1>1, FitKept DEF PkiInv, OneJournal
<1>5. \A k \in Kinds : 1 \in DOMAIN Targets[k] /\ \A i \in DOMAIN Targets[k] : ~(i < 1)
  BY TargetsTyped
<1>6. CASE step' = "publish"
  <2>1. Recovers'
    BY <1>6 DEF Recovers, At, Recovering
  <2>2. Gen' = Gen /\ Published' = Published /\ op' = op
    BY <1>1, <1>6 DEF Gen, Published
  <2>3. Rotates'
    BY <1>1, <1>2, <1>5, <1>6, <2>2 DEF PkiInv, Rotates, At, Unjournaled, Journaled, Coherent
  <2> QED
    BY <1>3, <1>4, <2>1, <2>3 DEF PkiInv
<1>7. CASE step' = "recover"
  <2>1. todo' = <<op>> /\ op' = "rollback"
    BY <1>1, <1>7
  <2>2. Head(todo') = op /\ todo' \in {<<"issuer", "tls">>, <<"tls">>, <<"issuer">>, <<>>}
    BY <1>2, <2>1
  <2>3. \A i \in DOMAIN Targets[Kind]' : ~(i < idx')
    BY <1>1, <1>2, <1>5, <2>2 DEF Kind, Targets
  <2>4. Recovers'
    BY <1>1, <1>7, <2>1, <2>2, <2>3 DEF Recovers, At, Kinds
  <2>5. Rotates'
    BY <1>7 DEF Rotates, At, Unjournaled, Journaled
  <2> QED
    BY <1>3, <1>4, <2>4, <2>5 DEF PkiInv
<1> QED
  BY <1>1, <1>6, <1>7

\* A backup is deleted: the others are what they were.
LEMMA PkiDeleting ==
  ASSUME PkiInv, DeleteBackup, UNCHANGED shift
  PROVE  PkiInv'
<1>1. /\ step' \in {"retire", "retired"} /\ backups' \subseteq backups
      /\ UNCHANGED <<pki, journal, op>>
  BY DEF DeleteBackup, NextStep, At, holder
<1>2. PkiBase' /\ RootStays' /\ HasSeen' /\ OneJournal'
  BY <1>1, WorkingSeen DEF WorkingStep, PkiInv, RootStays, OneJournal
<1>3. Recovers' /\ Rotates'
  BY <1>1 DEF Recovers, Rotates, At, Recovering, Unjournaled, Journaled
<1>4. \A b, c \in backups : b.gen = c.gen /\ b.file = c.file => b.was = c.was
  BY DEF PkiInv, PkiBase, BackupsSound
<1>5. ASSUME NEW k \in Kinds, journal[k] # None, \A f \in Replaced(k) : BackedUp(journal[k], f)'
      PROVE  Coherent(Restored(k)')
  <2>1. ASSUME NEW f \in Replaced(k)
        PROVE  BackedUp(journal[k], f) /\ Backup(journal[k], f)'.was = Backup(journal[k], f).was
    <3>1. PICK b \in backups' : b.gen = journal[k] /\ b.file = f
      BY <1>1, <1>5, <2>1 DEF BackedUp
    <3>2. b \in backups
      BY <1>1, <3>1
    <3>3. \A x, y \in backups' : x.gen = y.gen /\ x.file = y.file => x.was = y.was
      BY <1>1, <1>4
    <3>4. Backup(journal[k], f).was = b.was
      BY <1>4, <3>1, <3>2, BackupIs DEF Backup
    <3>5. Backup(journal[k], f)' = CHOOSE c \in backups' : c.gen = b.gen /\ c.file = b.file
      BY <1>1, <3>1 DEF Backup
    <3>6. Backup(journal[k], f)'.was = b.was
      BY <3>1, <3>3, <3>5, BackupIs
    <3> QED
      BY <3>1, <3>2, <3>4, <3>6 DEF BackedUp
  <2>2. \A f \in Files : Restored(k)'[f] = Restored(k)[f]
    <3>1. ASSUME NEW f \in Files PROVE Restored(k)'[f] = Restored(k)[f]
      <4>1. /\ Restored(k)[f] = IF f \in Replaced(k) THEN Backup(journal[k], f).was ELSE pki[f]
            /\ Restored(k)'[f] = IF f \in Replaced(k) THEN Backup(journal[k], f)'.was ELSE pki'[f]
        BY DEF Restored, Replaced, Targets
      <4> QED
        BY <1>1, <2>1, <4>1
    <3> QED
      BY <3>1
  <2>3. Coherent(Restored(k))
    BY <1>5, <2>1 DEF PkiInv, FilesFit
  <2> QED
    BY <2>2, <2>3, CoherentSame
<1>6. FilesFit'
  <2>1. Clear' => Coherent(pki')
    BY <1>1 DEF PkiInv, FilesFit, Clear
  <2> QED
    BY <1>1, <1>5, <2>1 DEF FilesFit, Coherent
<1> QED
  BY <1>2, <1>3, <1>6 DEF PkiInv

\* The invariant of the rotations holds at first, and every step keeps it.
LEMMA PkiKept ==
  PkiSpec /\ RootIsKept => []PkiInv
<1>1. PkiInit => PkiInv
  <2> SUFFICES ASSUME PkiInit PROVE PkiInv
    OBVIOUS
  <2>1. PkiBase
    BY BaseInit
  <2>2. /\ lock = None /\ journal = [k \in Kinds |-> None] /\ daemon.pc = "off"
        /\ pki.root.gen = 0 /\ Coherent(pki) /\ \A p \in Procs : seen[p] = None
    BY DEF PkiInit, Coherent, Files, Wrote
  <2>3. RootStays /\ HasSeen /\ OneJournal /\ Recovers /\ Rotates /\ FilesFit
    BY <2>2 DEF RootStays, HasSeen, OneJournal, Recovers, Rotates, FilesFit, At, Kinds
  <2> QED
    BY <2>1, <2>3 DEF PkiInv
<1>2. RootIsKept /\ [PkiNext]_pkiVars => RootIsKept'
  BY DEF PkiNext, pkiVars, RootIsKept
<1>3. PkiInv /\ RootIsKept /\ [PkiNext]_pkiVars => PkiInv'
  <2> SUFFICES ASSUME PkiInv, RootIsKept, [PkiNext]_pkiVars PROVE PkiInv'
    OBVIOUS
  <2>1. CASE UNCHANGED pkiVars
    <3>1. UNCHANGED <<pki, backups, journal, lock, op, step, idx, todo, new, seen, daemon>>
      BY <2>1 DEF pkiVars, work
    <3>2. PkiBase'
      BY BaseKept DEF PkiInv
    <3>3. RootStays' /\ HasSeen'
      BY <3>1 DEF PkiInv, RootStays, HasSeen
    <3> QED
      BY <3>1, <3>2, <3>3, PkiStays
  <2>2. CASE PkiNext
    <3>1. UNCHANGED shift /\ PkiBase
      BY <2>2 DEF PkiNext, PkiInv
    <3>2. CASE QuietStep
      BY <3>1, <3>2, PkiQuiet
    <3>3. CASE EndingStep
      BY <3>1, <3>3, PkiEnding
    <3>4. CASE WorkingStep
      BY <3>1, <3>4, PkiListing, PkiRestoring, PkiForgetting, PkiPreparing, PkiJournaling,
         PkiPublishing, PkiTurning, PkiDeleting DEF WorkingStep
    <3>5. CASE \E p \in Procs, o \in Kinds \cup {"recover", "retire"}, s \in {"recover", "retire"},
                  kinds \in Seq(Kinds) : Taking(p, o, s, kinds)
      BY <3>5, PkiTaking
    <3> QED
      BY <2>2, <3>1, <3>2, <3>3, <3>4, <3>5, PkiSteps
  <2> QED
    BY <2>1, <2>2
<1> QED
  BY <1>1, <1>2, <1>3, PTL DEF PkiSpec

\* For any operators and any number of rotations of the leaf and the issuers,
\* with crashes and failures anywhere, in any number: the files fit together
\* whenever no rotation is under way or waiting to be rolled back. The root
\* replacement is left out: it is not recovered by the other rotations, and
\* an issuer rotation signs with the root it read before it took the lock.
THEOREM PkiCoherent ==
  PkiSpec /\ RootIsKept => []CoherentAtRest
<1>1. PkiInv => CoherentAtRest
  BY DEF PkiInv, FilesFit, Clear, CoherentAtRest, AtRest
<1> QED
  BY <1>1, PkiKept, PTL

-----------------------------------------------------------------------------
\* Inside of a start, past the recoveries.
Inner == Past("tls")

\* What these sets say.
LEMMA PastFacts ==
  /\ \A k \in Kinds : Inner \subseteq Past(k)
  /\ \A k \in Kinds : Past(k) \cap {"off", "running", "ticking", "start_issuer"} = {}
  /\ Loaded \subseteq Inner
  /\ {"config", "renew_start", "renewing", "chain", "key", "issuer", "bind", "pending", "probing",
      "retiring"} = Inner
  /\ "start_root" \in Past("issuer") /\ "start_root" \notin Past("root") \cup Past("tls")
  /\ "start_tls" \in Past("issuer") \cap Past("root") /\ "start_tls" \notin Past("tls")
  /\ StartOf["issuer"] = "start_issuer" /\ StartOf["root"] = "start_root"
  /\ StartOf["tls"] = "start_tls"
BY DEF Inner, Past, Loaded, Kinds, StartOf

\* How the daemon moves outside of its locked operations.
Moves ==
    /\ lock # Server
    /\ \/ daemon'.pc \in {"off", "running", "ticking"}
       \/ daemon.pc = "off" /\ daemon'.pc = "start_issuer"
       \/ \E k \in Kinds : daemon.pc = StartOf[k] /\ journal[k] = None /\ daemon'.pc = OnOk[StartOf[k]]
       \/ /\ daemon.pc \in Inner /\ daemon'.pc \in Inner
          /\ daemon'.pc \in Loaded => \/ daemon'.chain = pki.chain
                                      \/ daemon.pc \in Loaded /\ daemon'.chain = daemon.chain

\* It does nothing else.
LEMMA QuietMoves ==
  ASSUME PkiBase, QuietStep, UNCHANGED shift
  PROVE  daemon' = daemon \/ Moves
<1>1. PkiShaped
  BY DEF PkiBase
<1>2. daemon = [x \in {"pc", "host", "chain", "key", "issuer"} |-> daemon[x]]
  BY <1>1 DEF PkiShaped
<1>3. lock = Server => daemon.pc \in {"start_issuer", "start_root", "start_tls", "renewing", "ticking",
                                      "retiring"}
  BY <1>1, OnOkFacts DEF PkiShaped
<1>4. CASE Start
  <2>1. ServerGoto("off", "start_issuer")
    BY <1>4 DEF Start
  <2> QED
    BY <1>1, <1>3, <2>1, DaemonGoes DEF Moves
<1>5. ASSUME NEW k \in Kinds, StartupRecovery(k, StartOf[k]), journal[k] = None PROVE Moves
  <2>1. ServerGoto(StartOf[k], OnOk[StartOf[k]]) /\ lock # Server
    BY <1>5 DEF StartupRecovery
  <2> QED
    BY <1>1, <1>5, <2>1, DaemonGoes DEF Moves
<1>6. CASE \/ Bind \/ TlsRetirementPending \/ VerifyListeners \/ Stop
           \/ BeginRetirement /\ retirement = None
  <2>1. PICK from \in {"bind", "pending", "probing", "running", "retiring"},
             to \in {"off", "running", "pending", "probing", "retiring"} :
          ServerGoto(from, to) /\ (from = "retiring" => lock # Server) /\ (from = "running" => to = "off")
    BY <1>6 DEF Bind, TlsRetirementPending, VerifyListeners, Stop, BeginRetirement
  <2>2. daemon.pc = from /\ daemon'.pc = to /\ daemon'.chain = daemon.chain
    BY <1>1, <2>1, DaemonGoes
  <2> QED
    BY <1>3, <2>1, <2>2, PastFacts DEF Moves, Loaded
<1>7. CASE LoadServerConfig
  <2>1. daemon.pc = "config" /\ daemon'.pc = "renew_start"
    BY <1>2, <1>7 DEF LoadServerConfig
  <2> QED
    BY <1>3, <2>1, PastFacts DEF Moves, Loaded
<1>8. CASE ReadFile("chain", "key")
  <2>1. daemon.pc = "chain" /\ daemon' = [daemon EXCEPT !["chain"] = pki["chain"], !.pc = "key"]
    BY <1>8 DEF ReadFile
  <2>2. daemon'.pc = "key" /\ daemon'.chain = pki.chain
    BY ONLY <1>2, <2>1
  <2> QED
    BY <1>3, <2>1, <2>2, PastFacts DEF Moves, Loaded
<1>9. CASE ReadFile("key", "issuer") \/ ReadFile("issuer", "bind")
  <2>1. PICK f \in {"key", "issuer"}, to \in {"issuer", "bind"} :
          daemon.pc = f /\ daemon' = [daemon EXCEPT ![f] = pki[f], !.pc = to]
    BY <1>9 DEF ReadFile
  <2>2. daemon'.pc = to /\ daemon'.chain = daemon.chain
    BY ONLY <1>2, <2>1
  <2> QED
    BY <1>3, <2>1, <2>2, PastFacts DEF Moves, Loaded
<1>10. CASE RenewIfNeeded("renew_start", "renewing", "chain") \/ Tick
  <2>1. PICK from \in {"renew_start", "running"}, to \in {"renewing", "chain", "ticking", "running"} :
          ServerGoto(from, to) /\ (from = "running" => to \in {"ticking", "running"})
             /\ (from = "renew_start" => to \in {"renewing", "chain"})
    BY <1>10 DEF RenewIfNeeded, Tick
  <2>2. daemon.pc = from /\ daemon'.pc = to
    BY <1>1, <2>1, DaemonGoes
  <2> QED
    BY <1>3, <2>1, <2>2, PastFacts DEF Moves, Loaded
<1>11. CASE CrashServer /\ lock # Server
  <2>1. daemon' = [daemon EXCEPT !["pc"] = "off"]
    BY <1>11 DEF CrashServer
  <2>2. daemon'.pc = "off"
    BY <1>1, <2>1, DaemonSet
  <2> QED
    BY <1>11, <2>2 DEF Moves
<1>12. CASE Age
  BY <1>12 DEF Age
<1>13. ASSUME NEW p, Prepare(p) \/ Cancel(p) \/ Reopen(p)
       PROVE  daemon' = daemon
  BY <1>13 DEF Prepare, Cancel, Reopen
<1>14. {"issuer", "root", "tls"} = Kinds
  BY DEF Kinds
<1> QED
  BY <1>4, <1>5, <1>6, <1>7, <1>8, <1>9, <1>10, <1>11, <1>12, <1>13, <1>14, PastFacts DEF QuietStep

\* A start stays sound as daemon and operators move.
LEMMA StartQuiet ==
  ASSUME PkiBase, StartSound, daemon' = daemon \/ Moves,
         UNCHANGED <<pki, journal, lock, op, step, todo>>, ~(lock' \in Locals /\ op' \in Kinds)
  PROVE  StartSound'
<1>1. CASE daemon' = daemon
  BY <1>1 DEF StartSound
<1>2. CASE Moves
  <2>1. lock # Server /\ (lock # None => op # "retire")
    BY <1>2 DEF Moves, StartSound
  <2>2. \A k \in Kinds : daemon.pc \in Past(k) => journal[k] = None
    BY <2>1 DEF StartSound
  <2>3. lock \in Locals /\ op \in Kinds => daemon'.pc \in {"off", "running", "ticking"}
    OBVIOUS
  <2>4. \A k \in Kinds : daemon'.pc \in Past(k) => journal[k] = None
    <3>1. CASE daemon'.pc \in {"off", "running", "ticking", "start_issuer"}
      BY <3>1, PastFacts
    <3>2. ASSUME NEW k \in Kinds, daemon.pc = StartOf[k], journal[k] = None, daemon'.pc = OnOk[StartOf[k]]
          PROVE  \A j \in Kinds : daemon'.pc \in Past(j) => journal[j] = None
      <4>1. CASE k = "issuer"
        BY <3>2, <4>1, PastFacts, OnOkFacts DEF Kinds
      <4>2. CASE k = "root"
        BY <2>2, <3>2, <4>2, PastFacts, OnOkFacts DEF Kinds
      <4>3. CASE k = "tls"
        BY <2>2, <3>2, <4>3, PastFacts, OnOkFacts DEF Kinds
      <4> QED
        BY <4>1, <4>2, <4>3 DEF Kinds
    <3>3. CASE daemon.pc \in Inner
      BY <2>2, <3>3, PastFacts
    <3> QED
      BY <1>2, <3>1, <3>2, <3>3 DEF Moves
  <2>5. daemon'.pc \in Loaded => daemon'.chain = pki.chain
    <3>1. \A k \in Kinds : OnOk[StartOf[k]] \notin Loaded
      BY PastFacts, OnOkFacts DEF Kinds, Loaded
    <3> QED
      BY <1>2, <3>1 DEF Moves, StartSound, Loaded
  <2> QED
    BY <2>1, <2>3, <2>4, <2>5 DEF StartSound
<1> QED
  BY <1>1, <1>2

\* Or as the lock is taken.
LEMMA StartTaking ==
  ASSUME PkiBase, StartSound, NEW p \in Procs, NEW o \in Kinds \cup {"recover", "retire"},
         NEW s \in {"recover", "retire"}, NEW kinds \in Seq(Kinds), Taking(p, o, s, kinds),
         ~(lock' \in Locals /\ op' \in Kinds)
  PROVE  StartSound'
<1>1. /\ lock = None /\ lock' = p /\ op' = o /\ step' = s /\ todo' = kinds
      /\ UNCHANGED <<pki, journal, daemon>> /\ None # Server
  BY PkiAssumption DEF Taking, Acquire
<1>2. \A k \in Kinds : daemon.pc \in Past(k) => journal[k] = None
  BY <1>1 DEF StartSound
<1>4. ~(p \in Locals /\ o \in Kinds)
  BY <1>1
<1>5. p = Server =>
         \/ /\ o = "recover" /\ s = "recover"
            /\ \E k \in Kinds : kinds = <<k>> /\ daemon.pc = StartOf[k]
         \/ o = "tls" /\ daemon.pc \in {"renewing", "ticking"}
         \/ o = "retire" /\ daemon.pc = "retiring"
  BY DEF Taking
<1>6. ASSUME NEW k \in Kinds, p = Server, daemon.pc = StartOf[k]
      PROVE  o = "recover" /\ s \in Recovering /\ kinds = <<k>>
  <2>1. daemon.pc \in {"start_issuer", "start_root", "start_tls"}
    BY <1>6, PastFacts DEF Kinds
  <2>2. PICK j \in Kinds : o = "recover" /\ s = "recover" /\ kinds = <<j>> /\ daemon.pc = StartOf[j]
    BY <1>5, <1>6, <2>1
  <2>3. j = k
    BY <1>6, <2>2, PastFacts DEF Kinds
  <2> QED
    BY <2>2, <2>3 DEF Recovering
<1>7. p = Server /\ daemon.pc = "renewing" => o = "tls" /\ journal["issuer"] = None /\ journal["root"] = None
  BY <1>2, <1>5, PastFacts DEF Kinds
<1>8. p = Server /\ daemon.pc = "retiring" => o = "retire"
  BY <1>5, PastFacts DEF Kinds
<1>9. o = "retire" => p = Server /\ daemon.pc = "retiring"
  BY DEF Taking, Kinds
<1> QED
  BY <1>1, <1>2, <1>4, <1>6, <1>7, <1>8, <1>9 DEF StartSound

\* Or as it is given back.
LEMMA StartEnding ==
  ASSUME PkiBase, StartSound, EndingStep, UNCHANGED shift
  PROVE  StartSound'
<1>1. /\ lock # None /\ lock' = None /\ UNCHANGED pki
      /\ daemon'.chain = daemon.chain
      /\ lock # Server => daemon' = daemon
      /\ lock = Server =>
            \/ daemon'.pc = "off"
            \/ /\ daemon'.pc = OnOk[daemon.pc]
               /\ \/ daemon.pc = "retiring" \/ Commit \/ EndRetirement
                  \/ At("recover") /\ op = "recover" /\ todo = <<>>
      /\ journal' = journal \/ Commit
  BY EndingFacts
<1>2. None # Server /\ None \notin Locals
  BY PkiAssumption
<1>3. PkiShaped /\ HolderSteps
  BY DEF PkiBase
<1>4. Commit => At("commit") /\ journal' = [journal EXCEPT ![op] = None] /\ op \in Kinds
  BY <1>3 DEF Commit, HolderSteps, At, Journaled
<1>5. \A k \in Kinds : journal'[k] = journal[k] \/ journal'[k] = None
  <2>1. journal \in [Kinds -> Nat \cup {None}]
    BY <1>3 DEF PkiShaped
  <2> QED
    BY ONLY <1>1, <1>4, <2>1
<1>6. lock = Server => daemon.pc \in {"start_issuer", "start_root", "start_tls", "renewing", "ticking",
                                      "retiring"}
  BY <1>3, OnOkFacts DEF PkiShaped
<1>7. EndRetirement => lock = Server /\ daemon.pc = "retiring"
  BY <1>3 DEF EndRetirement, HolderSteps, StartSound, At
<1>8. \A k \in Kinds : daemon'.pc \in Past(k) => journal'[k] = None
  <2>1. CASE lock # Server
    BY <1>1, <1>5, <2>1 DEF StartSound
  <2>2. CASE lock = Server /\ daemon'.pc = "off"
    BY <2>2, PastFacts
  <2>3. CASE lock = Server /\ daemon.pc = "retiring" /\ daemon'.pc = OnOk[daemon.pc]
    BY <2>3, PastFacts, OnOkFacts
  <2>4. CASE lock = Server /\ daemon'.pc = OnOk[daemon.pc] /\ Commit
    <3>1. op \in Kinds /\ step = "commit"
      BY <1>4, <2>4 DEF At
    <3>2. daemon.pc \in {"renewing", "ticking"}
      BY <1>6, <2>4, <3>1, PastFacts DEF StartSound, Kinds
    <3>3. daemon.pc = "renewing" =>
             op = "tls" /\ journal["issuer"] = None /\ journal["root"] = None
      BY <2>4, <3>1 DEF StartSound, Kinds
    <3>4. daemon.pc = "renewing" => \A k \in Kinds : journal'[k] = None
      <4>1. journal \in [Kinds -> Nat \cup {None}]
        BY <1>3 DEF PkiShaped
      <4>2. journal'[op] = None /\ \A k \in Kinds : k # op => journal'[k] = journal[k]
        BY ONLY <1>4, <2>4, <3>1, <4>1
      <4> QED
        BY <3>3, <4>2 DEF Kinds
    <3> QED
      BY <2>4, <3>2, <3>4, PastFacts, OnOkFacts
  <2>5. CASE /\ lock = Server /\ daemon'.pc = OnOk[daemon.pc]
             /\ At("recover") /\ op = "recover" /\ todo = <<>>
    <3>1. daemon.pc # "renewing"
      BY <2>5 DEF StartSound, Kinds
    <3>2. CASE daemon.pc \in {"ticking", "retiring"}
      BY <2>5, <3>2, PastFacts, OnOkFacts
    <3>3. ASSUME NEW k \in Kinds, daemon.pc = StartOf[k]
          PROVE  \A j \in Kinds : daemon'.pc \in Past(j) => journal'[j] = None
      <4>1. <<k>> # <<>>
        OBVIOUS
      <4>2. journal[k] = None /\ \A j \in Kinds : daemon.pc \in Past(j) => journal[j] = None
        BY <2>5, <3>1, <3>3, <4>1 DEF StartSound
      <4>3. CASE k = "issuer"
        BY <1>5, <2>5, <3>3, <4>2, <4>3, PastFacts, OnOkFacts DEF Kinds
      <4>4. CASE k = "root"
        BY <1>5, <2>5, <3>3, <4>2, <4>4, PastFacts, OnOkFacts DEF Kinds
      <4>5. CASE k = "tls"
        BY <1>5, <2>5, <3>3, <4>2, <4>5, PastFacts, OnOkFacts DEF Kinds
      <4> QED
        BY <4>3, <4>4, <4>5 DEF Kinds
    <3>4. {"issuer", "root", "tls"} = Kinds
      BY DEF Kinds
    <3> QED
      BY <1>6, <2>5, <3>1, <3>2, <3>3, <3>4, PastFacts
  <2> QED
    BY <1>1, <1>7, <2>1, <2>2, <2>3, <2>4, <2>5
<1>9. daemon'.pc \in Loaded => daemon'.chain = pki'.chain
  <2>1. lock = Server => daemon'.pc \notin Loaded
    BY <1>1, <1>6, OnOkFacts DEF Loaded
  <2> QED
    BY <1>1, <2>1 DEF StartSound
<1> QED
  BY <1>1, <1>2, <1>8, <1>9 DEF StartSound

\* Or as its holder works on.
LEMMA StartWorking ==
  ASSUME PkiBase, StartSound, WorkingStep, UNCHANGED shift
  PROVE  StartSound'
<1>1. lock # None /\ UNCHANGED <<lock, daemon>>
  BY WorkingFacts
<1>2. PkiShaped /\ HolderSteps
  BY DEF PkiBase
<1>3. /\ lock \in Procs /\ journal \in [Kinds -> Nat \cup {None}] /\ todo \in Seq(Kinds)
      /\ lock = Server => daemon.pc \in {"start_issuer", "start_root", "start_tls", "renewing",
                                         "ticking", "retiring"}
  BY <1>1, <1>2, OnOkFacts DEF PkiShaped
<1>4. op' = op \/ (op' = "rollback" /\ step \in Journaled)
  BY DEF WorkingStep, SkipRecovered, ForgetJournal, UnlistBackups, RestoreTarget, Recovered, Compute,
       Stage, WriteJournal, WriteRetirement, Publish, StepFails, DeleteBackup, RollBack, NextStep,
       holder, Journaled, Return, Free
<1>5. step \in Journaled => op \in Kinds /\ op # "retire"
  BY <1>1, <1>2 DEF HolderSteps, Kinds
<1>6. lock \in Locals /\ op' \in Kinds => daemon'.pc \in {"off", "running", "ticking"}
  BY <1>1, <1>4 DEF StartSound, Kinds
\* Writing a journal, the daemon is not starting, or it renews its leaf.
<1>7. WriteJournal => /\ op \in Kinds /\ journal' = [journal EXCEPT ![op] = Gen]
                      /\ (lock = Server /\ daemon.pc = "renewing") \/ \A k \in Kinds : daemon.pc \notin Past(k)
                      /\ lock = Server /\ daemon.pc = "renewing" => op = "tls"
  <2> SUFFICES ASSUME WriteJournal
               PROVE  /\ op \in Kinds /\ journal' = [journal EXCEPT ![op] = Gen]
                      /\ (lock = Server /\ daemon.pc = "renewing") \/ \A k \in Kinds : daemon.pc \notin Past(k)
                      /\ lock = Server /\ daemon.pc = "renewing" => op = "tls"
    OBVIOUS
  <2>1. step = "journal" /\ journal' = [journal EXCEPT ![op] = Gen] /\ op \in Kinds
    BY <1>1, <1>2 DEF WriteJournal, At, HolderSteps, Unjournaled
  <2>2. CASE lock = Server
    <3>1. daemon.pc \in {"renewing", "ticking"}
      BY <1>3, <2>1, <2>2, PastFacts DEF StartSound, Kinds
    <3> QED
      BY <2>1, <2>2, <3>1, PastFacts DEF StartSound, Kinds
  <2>3. CASE lock # Server
    <3>1. lock \in Locals
      BY <1>3, <2>3 DEF Procs
    <3> QED
      BY <2>1, <2>3, <3>1, PastFacts DEF StartSound
  <2> QED
    BY <2>2, <2>3
<1>8. \/ journal' = journal
      \/ \E k \in Kinds : journal' = [journal EXCEPT ![k] = None]
      \/ WriteJournal
  <2>1. CASE ForgetJournal
    <3>1. todo # <<>>
      BY <1>2, <2>1 DEF ForgetJournal, HolderSteps
    <3>2. Kind \in Kinds
      BY <1>3, <3>1, KindHead DEF Kind
    <3> QED
      BY <2>1, <3>2 DEF ForgetJournal
  <2>2. CASE ~ForgetJournal /\ ~WriteJournal
    BY <2>2 DEF WorkingStep, SkipRecovered, UnlistBackups, RestoreTarget, Recovered, Compute,
       Stage, WriteRetirement, Publish, StepFails, DeleteBackup, store
  <2> QED
    BY <2>1, <2>2
<1>9. \A k \in Kinds : \/ journal'[k] = journal[k] \/ journal'[k] = None
                       \/ WriteJournal /\ k = op
  BY ONLY <1>3, <1>7, <1>8
<1>10. \A k \in Kinds : daemon'.pc \in Past(k) =>
          journal'[k] = None \/ (lock' = Server /\ daemon'.pc = "renewing")
  BY <1>1, <1>7, <1>9 DEF StartSound
<1>11. lock = Server /\ daemon.pc = "renewing" =>
          op' \in {"tls", "rollback"} /\ journal'["issuer"] = None /\ journal'["root"] = None
  BY <1>4, <1>7, <1>9 DEF StartSound, Kinds
<1>12. (lock = Server /\ daemon.pc = "retiring" => op' = "retire")
       /\ (op' = "retire" => lock = Server /\ daemon.pc = "retiring")
  BY <1>1, <1>4, <1>5 DEF StartSound
<1>13. ASSUME NEW k \in Kinds, lock = Server, daemon.pc = StartOf[k]
       PROVE  /\ op' = "recover" /\ step' \in Recovering
              /\ todo' = <<k>> \/ (todo' = <<>> /\ journal'[k] = None)
  <2>1. op = "recover" /\ step \in Recovering /\ (todo = <<k>> \/ (todo = <<>> /\ journal[k] = None))
    BY <1>13 DEF StartSound
  <2>2. Head(<<k>>) = k /\ Tail(<<k>>) = <<>>
    OBVIOUS
  <2>3. CASE SkipRecovered \/ UnlistBackups
    <3>1. /\ step' = "recover" /\ op' = op /\ journal' = journal /\ todo' = Tail(todo) /\ todo # <<>>
          /\ journal[Head(todo)] = None
      BY <1>2, <2>3 DEF SkipRecovered, UnlistBackups, HolderSteps, Kind, store, At
    <3> QED
      BY <2>1, <2>2, <3>1 DEF Recovering
  <2>4. CASE ForgetJournal
    <3>1. step' = "unlist" /\ op' = op /\ todo' = todo /\ todo # <<>>
      BY <1>2, <2>4 DEF ForgetJournal, NextStep, HolderSteps
    <3> QED
      BY <2>1, <3>1 DEF Recovering
  <2>5. CASE RestoreTarget /\ BackedUp(journal[Kind], Targets[Kind][idx])
    <3>1. step' \in {"forget", "recover"} /\ op' = op /\ todo' = todo /\ todo # <<>>
      BY <2>5 DEF RestoreTarget, NextStep, At
    <3> QED
      BY <2>1, <3>1 DEF Recovering
  <2>6. CASE \/ (Recovered /\ op \in Kinds) \/ (StepFails /\ step \in Journaled)
             \/ Compute \/ Stage \/ WriteJournal \/ WriteRetirement \/ Publish \/ DeleteBackup
    <3>1. op \notin Kinds /\ step \notin Journaled /\ step \in {"recover", "forget", "unlist"}
      BY <2>1 DEF Recovering, Kinds, Journaled
    <3> QED
      BY <2>6, <3>1 DEF Compute, Stage, WriteJournal, WriteRetirement, Publish, DeleteBackup, At
  <2> QED
    BY <2>3, <2>4, <2>5, <2>6 DEF WorkingStep
<1>14. daemon.pc \in Loaded => pki' = pki
  <2> SUFFICES ASSUME daemon.pc \in Loaded PROVE pki' = pki
    OBVIOUS
  <2>1. \A k \in Kinds : journal[k] = None
    BY PastFacts DEF StartSound, Loaded
  <2>2. ~RestoreTarget
    <3> SUFFICES ASSUME RestoreTarget PROVE FALSE
      OBVIOUS
    <3>1. todo # <<>> /\ journal[Head(todo)] # None
      BY DEF RestoreTarget, Kind
    <3> QED
      BY <1>3, <2>1, <3>1, KindHead
  <2>3. ~Publish
    <3> SUFFICES ASSUME Publish PROVE FALSE
      OBVIOUS
    <3>1. step = "publish" /\ op \in Kinds /\ op # "retire"
      BY <1>1, <1>2 DEF Publish, At, HolderSteps, Journaled, Kinds
    <3>2. lock \in Locals \/ lock = Server
      BY <1>3 DEF Procs
    <3> QED
      BY <1>3, <3>1, <3>2 DEF StartSound, Loaded
  <2> QED
    BY <2>2, <2>3 DEF WorkingStep, SkipRecovered, ForgetJournal, UnlistBackups, Recovered, Compute,
       Stage, WriteJournal, WriteRetirement, StepFails, DeleteBackup, store
<1> QED
  BY <1>1, <1>6, <1>10, <1>11, <1>12, <1>13, <1>14 DEF StartSound

\* Backups go only while the lock is held.
LEMMA BackupsGo ==
  ASSUME PkiBase, PkiNext, backups' # backups
  PROVE  lock # None
<1>1. UNCHANGED shift
  BY DEF PkiNext
<1>2. ~QuietStep
  BY <1>1, QuietFacts
<1>3. WorkingStep => lock # None
  BY WorkingFacts
<1>4. EndingStep => lock # None
  BY <1>1, EndingFacts
<1> QED
  BY <1>2, <1>3, <1>4, PkiSteps DEF Taking

\* Only a server that probed its listeners retires, whoever rotates meanwhile.
LEMMA RetireKept ==
  ASSUME PkiBase, RetireHeld, [PkiNext]_pkiVars
  PROVE  RetireHeld'
<1>1. CASE UNCHANGED pkiVars
  BY <1>1 DEF pkiVars, work, RetireHeld
<1>2. CASE PkiNext
  <2>1. UNCHANGED shift
    BY <1>2 DEF PkiNext
  <2>2. CASE QuietStep
    <3>1. UNCHANGED <<lock, op>> /\ (daemon' = daemon \/ lock # Server)
      BY <2>1, <2>2, QuietFacts, QuietMoves DEF Moves
    <3> QED
      BY ONLY <3>1, RetireHeld DEF RetireHeld
  <2>3. CASE WorkingStep
    <3>1. UNCHANGED <<lock, daemon>>
      BY <2>3, WorkingFacts
    <3>2. op' = op \/ op' = "rollback"
      BY <2>3 DEF WorkingStep, SkipRecovered, ForgetJournal, UnlistBackups, RestoreTarget, Recovered,
         Compute, Stage, WriteJournal, WriteRetirement, Publish, StepFails, DeleteBackup, RollBack,
         NextStep, holder, Journaled, Return, Free
    <3> QED
      BY ONLY <3>1, <3>2, RetireHeld DEF RetireHeld
  <2>4. CASE EndingStep
    <3>1. lock' = None
      BY <2>1, <2>4, EndingFacts
    <3> QED
      BY <3>1 DEF RetireHeld
  <2>5. ASSUME NEW p \in Procs, NEW o \in Kinds \cup {"recover", "retire"},
               NEW s \in {"recover", "retire"}, NEW kinds \in Seq(Kinds), Taking(p, o, s, kinds)
        PROVE  RetireHeld'
    <3>1. op' = o /\ lock' = p /\ daemon' = daemon
      BY <2>5 DEF Taking, Acquire
    <3>2. o = "retire" => p = Server /\ daemon.pc = "retiring"
      BY <2>5 DEF Taking, Kinds
    <3> QED
      BY ONLY <3>1, <3>2 DEF RetireHeld
  <2> QED
    BY <1>2, <2>2, <2>3, <2>4, <2>5, PkiSteps
<1> QED
  BY <1>1, <1>2

\* For any operators, rotations of every kind, crashes and failures, in any
\* number: unless a TUI rotated while the server was starting, the backups of
\* a rotation are deleted only by a server that serves the leaf on disk.
THEOREM PkiRetiredProven == PkiSpec => RetiredIsProven
<1>1. PkiInit => StartInv
  <2> SUFFICES ASSUME PkiInit PROVE StartInv
    OBVIOUS
  <2>1. lock = None /\ daemon.pc = "off" /\ None # Server /\ None \notin Locals
    BY PkiAssumption DEF PkiInit
  <2>2. StartSound
    BY <2>1, PastFacts DEF StartSound, Loaded
  <2> QED
    BY <2>1, <2>2, BaseInit DEF StartInv, RetireHeld
<1>2. StartInv /\ [PkiNext]_pkiVars => StartInv'
  <2> SUFFICES ASSUME StartInv, [PkiNext]_pkiVars PROVE StartInv'
    OBVIOUS
  <2>1. PkiBase /\ PkiBase' /\ RetireHeld /\ RetireHeld'
    BY BaseKept, RetireKept DEF StartInv
  <2> SUFFICES ASSUME ~overlapped' PROVE StartSound'
    BY <2>1 DEF StartInv
  <2>2. CASE UNCHANGED pkiVars
    <3>1. UNCHANGED <<pki, journal, lock, op, step, todo, daemon, overlapped>>
      BY <2>2 DEF pkiVars, work, history
    <3>2. StartSound
      BY <3>1 DEF StartInv
    <3> QED
      BY ONLY <3>1, <3>2 DEF StartSound, BackedUp
  <2>3. CASE PkiNext /\ daemon'.pc \in {"off", "running", "ticking"}
    <3>1. \A k \in Kinds : daemon'.pc \notin Past(k) /\ daemon'.pc # StartOf[k]
      BY <2>3, PastFacts DEF Kinds
    <3>2. daemon'.pc \notin Loaded \cup {"renewing", "retiring"}
      BY <2>3 DEF Loaded
    <3> QED
      BY ONLY <2>1, <2>3, <3>1, <3>2 DEF StartSound, RetireHeld
  <2>4. CASE PkiNext /\ daemon'.pc \notin {"off", "running", "ticking"}
    <3>1. UNCHANGED shift
      BY <2>4 DEF PkiNext
    <3>2. StartSound /\ ~(lock' \in Locals /\ op' \in Kinds)
      <4>1. overlapped' = (Starting' /\ (overlapped \/ (lock' \in Locals /\ op' \in Kinds)))
        BY <2>4 DEF PkiNext, Remember
      <4>2. Starting'
        BY <2>4 DEF Starting
      <4> QED
        BY <4>1, <4>2 DEF StartInv
    <3>3. CASE QuietStep
      BY <2>1, <3>1, <3>2, <3>3, QuietFacts, QuietMoves, StartQuiet
    <3>4. CASE WorkingStep
      BY <2>1, <3>1, <3>2, <3>4, StartWorking
    <3>6. CASE EndingStep
      BY <2>1, <3>1, <3>2, <3>6, StartEnding
    <3>5. CASE \E p \in Procs, o \in Kinds \cup {"recover", "retire"}, s \in {"recover", "retire"},
                  kinds \in Seq(Kinds) : Taking(p, o, s, kinds)
      BY <2>1, <3>2, <3>5, StartTaking
    <3> QED
      BY <2>1, <2>4, <3>3, <3>4, <3>5, <3>6, PkiSteps
  <2> QED
    BY <2>2, <2>3, <2>4
<1>3. StartInv /\ [PkiNext]_pkiVars =>
         [(op = "retire" /\ backups' # backups /\ ~overlapped) =>
            daemon.chain.gen = pki.chain.gen]_backups
  <2> SUFFICES ASSUME StartInv, [PkiNext]_pkiVars, op = "retire", backups' # backups, ~overlapped
               PROVE  daemon.chain.gen = pki.chain.gen
    OBVIOUS
  <2>1. PkiNext
    BY DEF pkiVars, work
  <2>2. lock # None
    BY <2>1, BackupsGo DEF StartInv
  <2> QED
    BY <2>2 DEF StartInv, StartSound, Loaded
<1> QED
  BY <1>1, <1>2, <1>3, PTL DEF PkiSpec, RetiredIsProven
=============================================================================
