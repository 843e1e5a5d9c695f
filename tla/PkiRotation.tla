----------------------------- MODULE PkiRotation -----------------------------
(***************************************************************************)
(* The three journaled rotations of the server's certificates and keys     *)
(* (crates/centrald-server/src/manage.rs): the server TLS leaf, renewed by *)
(* the daemon or changed together with the public host name; the online    *)
(* issuers; and the offline root with everything below it. A rotation      *)
(* backs up and stages every file, writes its journal and the retirement   *)
(* journal, renames the stages into place and removes its journal;         *)
(* recovery restores the backups of a rotation whose journal is left. The  *)
(* restarted server (main.rs) probes its own listeners and then deletes    *)
(* the backups the retirement journal lists.                               *)
(*                                                                         *)
(* "issuer" stands for the six issuer files, which are always written      *)
(* together. Stages are left out: a rotation holds its new contents in     *)
(* memory, and recovery rewrites a stage before it uses it. The backup and *)
(* the stage of one file are one step.                                     *)
(***************************************************************************)
EXTENDS Naturals, Sequences, FiniteSets

CONSTANTS
  Server,          \* the daemon process
  Locals,          \* configuration TUIs
  None,
  Shifts,          \* who works on the host, the rotations they start, and
                   \* a bound on the crashes and failed operations meanwhile
  Renewals,        \* TRUE: the first leaf comes due for renewal
  MaxGen           \* bound: rotations

Kinds == {"tls", "issuer", "root"}

ASSUME PkiAssumption ==
  /\ \A s \in Shifts : /\ s.tuis \subseteq Locals
                       /\ s.kinds \subseteq Kinds
                       /\ s.disruptions \in Nat
  /\ Renewals \in BOOLEAN
  /\ MaxGen \in Nat
  /\ None \notin Locals \cup {Server} \cup 0..MaxGen /\ Server \notin Locals

Files == {"root", "issuer", "chain", "key", "config"}
Procs == Locals \cup {Server}
Gens == 0..MaxGen

\* Publication order of each rotation.
Targets ==
  [tls    |-> <<"chain", "key", "config">>,
   issuer |-> <<"issuer", "chain", "key">>,
   root   |-> <<"root", "issuer", "chain", "key">>]

\* What a file says: the rotation that wrote it, the issuer and the root that
\* vouch for it, and the host name it carries. Unused fields are 0.
Content == [gen : Gens, issuer : Gens, root : Gens, host : Gens]
Wrote(g, i, r, h) == [gen |-> g, issuer |-> i, root |-> r, host |-> h]

VARIABLES
  pki,          \* pki[f]: the content of file f
  backups,      \* rotation backups: records [gen, file, was]
  journal,      \* journal[k]: the rotation whose journal of kind k is left
  retirement,   \* the rotation whose backups await a healthy restart
  lock,         \* holder of the ConfigFileLock
  op,           \* what the holder does: a rotation, a recovery or "retire"
  step, idx,    \* its program counter, and position in a list of targets
  todo,         \* kinds it still has to recover
  new,          \* new[f]: what its rotation writes
  seen,         \* seen[p]: root and host p read before it took the lock
  shift,        \* who is at work
  overlapped,   \* history: a TUI rotated while the server was starting
  undone,       \* history: rotations one of whose journals a recovery removed
  open,         \* the TUIs that are running
  daemon,       \* its pc and the material it has loaded
  aged,         \* the first leaf is in its renewal window
  nextGen, disruptions

work == <<pki, backups, journal, retirement, lock, op, step, idx, todo, new,
          seen, open, daemon, aged, nextGen, disruptions>>
history == <<overlapped, undone>>
pkiVars == <<work, shift, history>>
holder == <<lock, op, step, idx, todo, new>>
store == <<pki, backups, journal, retirement>>
others == <<seen, open, daemon, aged, nextGen, disruptions>>

Steps == {"recover", "forget", "unlist", "check", "stage", "journal",
          "retirement", "publish", "commit", "retire", "retired"}
ServerPcs == {"off", "start_issuer", "start_root", "start_tls", "config",
              "renew_start", "renewing", "chain", "key", "issuer", "bind",
              "pending", "probing", "retiring", "running", "ticking"}

\* Where the server goes when its locked operation returns: startup recovery
\* and renewal propagate an error and end the process, a completed renewal
\* ends a running server, and retirement only warns.
OnOk ==
  [start_issuer |-> "start_root", start_root |-> "start_tls",
   start_tls |-> "config", renewing |-> "chain", ticking |-> "off",
   retiring |-> "running"]

(* The daemon holds the lock only inside one of its locked operations.      *)
PkiTypeOK ==
  /\ pki \in [Files -> Content]
  /\ backups \subseteq [gen : Gens, file : Files, was : Content]
  /\ journal \in [Kinds -> Gens \cup {None}]
  /\ retirement \in Gens \cup {None}
  /\ lock \in Procs \cup {None}
  /\ lock = None <=> op = "idle"
  /\ lock = Server => daemon.pc \in DOMAIN OnOk
  /\ op \in Kinds \cup {"idle", "recover", "rollback", "retire"}
  /\ step \in Steps \cup {"idle"} /\ idx \in 1..5
  /\ todo \in Seq(Kinds) /\ Len(todo) <= 3
  /\ DOMAIN new \subseteq Files /\ \A f \in DOMAIN new : new[f] \in Content
  /\ seen \in [Procs -> [root : Gens, host : Gens] \cup {None}]
  /\ daemon \in [pc : ServerPcs, host : Gens, chain : Content,
                 key : Content, issuer : Content]
  /\ open \subseteq shift.tuis /\ aged \in BOOLEAN
  /\ nextGen \in 1..(MaxGen + 1) /\ disruptions \in 0..shift.disruptions
  /\ overlapped \in BOOLEAN /\ undone \subseteq Gens

PkiInit ==
  /\ pki = [f \in Files |-> Wrote(0, 0, 0, 0)]
  /\ backups = {} /\ retirement = None
  /\ journal = [k \in Kinds |-> None]
  /\ lock = None /\ op = "idle" /\ step = "idle" /\ idx = 1
  /\ todo = <<>> /\ new = <<>>
  /\ seen = [p \in Procs |-> None] /\ shift \in Shifts /\ open = shift.tuis
  /\ daemon = [pc |-> "off", host |-> 0, chain |-> Wrote(0, 0, 0, 0),
               key |-> Wrote(0, 0, 0, 0), issuer |-> Wrote(0, 0, 0, 0)]
  /\ aged = FALSE /\ nextGen = 1 /\ disruptions = 0
  /\ overlapped = FALSE /\ undone = {}

-----------------------------------------------------------------------------
(* Holding the lock. *)

At(s) == lock # None /\ step = s

NextStep(s) == step' = s /\ idx' = 1 /\ UNCHANGED <<lock, op, todo, new>>

Free ==
  /\ lock' = None /\ op' = "idle" /\ step' = "idle" /\ idx' = 1
  /\ todo' = <<>> /\ new' = <<>>

Return(ok) ==
  /\ Free
  /\ seen' = [seen EXCEPT ![lock] = None]
  /\ IF lock # Server THEN UNCHANGED daemon
     ELSE LET pc == daemon.pc
          IN daemon' = [daemon EXCEPT
                 !.pc = IF ok \/ pc = "retiring" THEN OnOk[pc] ELSE "off",
                 !.host = IF ok /\ pc = "renewing" THEN pki.config.host
                          ELSE @]

Disrupt == disruptions < shift.disruptions /\ disruptions' = disruptions + 1

Backup(g, f) == CHOOSE b \in backups : b.gen = g /\ b.file = f
BackedUp(g, f) == \E b \in backups : b.gen = g /\ b.file = f

Acquire(p, o, s, kinds) ==
  /\ lock = None
  /\ lock' = p /\ op' = o /\ step' = s /\ idx' = 1
  /\ todo' = kinds /\ new' = <<>>

-----------------------------------------------------------------------------
(* recover_interrupted_*_locked: the backups are restored target by target, *)
(* then the journal and then the retirement journal are removed.            *)

Kind == Head(todo)

SkipRecovered ==
  /\ At("recover") /\ todo # <<>> /\ journal[Kind] = None
  /\ todo' = Tail(todo)
  /\ UNCHANGED <<store, lock, op, step, idx, new, others>>

RestoreTarget ==
  /\ At("recover") /\ todo # <<>> /\ journal[Kind] # None
  /\ idx <= Len(Targets[Kind])
  /\ LET g == journal[Kind] f == Targets[Kind][idx] IN
       \/ /\ BackedUp(g, f)
          /\ pki' = [pki EXCEPT ![f] = Backup(g, f).was]
          /\ IF idx = Len(Targets[Kind])
             THEN NextStep("forget")
             ELSE idx' = idx + 1 /\ UNCHANGED <<lock, op, step, todo, new>>
          /\ UNCHANGED <<daemon, seen>>
       \/ /\ ~BackedUp(g, f) /\ Return(FALSE) /\ UNCHANGED pki
  /\ UNCHANGED <<backups, journal, retirement, open, aged, nextGen,
                 disruptions>>

ForgetJournal ==
  /\ At("forget")
  /\ journal' = [journal EXCEPT ![Kind] = None]
  /\ NextStep("unlist")
  /\ UNCHANGED <<pki, backups, retirement, others>>

UnlistBackups ==
  /\ At("unlist")
  /\ retirement' = None
  /\ step' = "recover" /\ idx' = 1 /\ todo' = Tail(todo)
  /\ UNCHANGED <<pki, backups, journal, lock, op, new, others>>

Recovered ==
  /\ At("recover") /\ todo = <<>>
  /\ IF op \in Kinds THEN NextStep("check") /\ UNCHANGED <<daemon, seen>>
                     ELSE Return(op = "recover")
  /\ UNCHANGED <<store, open, aged, nextGen, disruptions>>

Recover ==
  SkipRecovered \/ RestoreTarget \/ ForgetJournal \/ UnlistBackups \/ Recovered

-----------------------------------------------------------------------------
(* The operators. *)

\* Every command starts with the recovery of what an earlier one left, the
\* issuers' first.
Reopen(p) ==
  /\ p \notin open /\ lock # p
  /\ \/ /\ \A k \in Kinds : journal[k] = None
        /\ open' = open \cup {p} /\ UNCHANGED holder
     \/ \E k \in Kinds :
          /\ journal[k] # None
          /\ k # "issuer" => journal["issuer"] = None
          /\ k = "tls" => journal["root"] = None
          /\ Acquire(p, "recover", "recover", <<k>>)
          /\ UNCHANGED open
  /\ UNCHANGED <<store, seen, daemon, aged, nextGen, disruptions>>

\* A ceremony reads the configuration and the root, and asks for confirmation,
\* before it takes the lock.
Prepare(p) ==
  /\ p \in open /\ lock # p /\ seen[p] = None
  /\ seen' = [seen EXCEPT ![p] = [root |-> pki.root.gen,
                                  host |-> pki.config.host]]
  /\ UNCHANGED <<store, holder, open, daemon, aged, nextGen, disruptions>>

Cancel(p) ==
  /\ p \in open /\ lock # p /\ seen[p] # None
  /\ seen' = [seen EXCEPT ![p] = None]
  /\ UNCHANGED <<store, holder, open, daemon, aged, nextGen, disruptions>>

\* Only the root replacement recovers an interrupted root replacement.
RecoverFirst ==
  [tls |-> <<"issuer", "tls">>, issuer |-> <<"issuer", "tls">>,
   root |-> <<"issuer", "root", "tls">>]

Confirm(p, k) ==
  /\ k \in shift.kinds /\ seen[p] # None
  /\ nextGen + (IF Renewals THEN 1 ELSE 0) <= MaxGen
  /\ Acquire(p, k, "recover", RecoverFirst[k])
  /\ UNCHANGED <<store, others>>

-----------------------------------------------------------------------------
(* A rotation, up to its commit. *)

\* Mutant: a ceremony trusts the configuration it read before the lock.
RefusedWithoutReload == retirement # None

\* Rollback material of the last rotation is still needed, or the
\* configuration changed in another process.
Refused == retirement # None \/ seen[lock].host # pki.config.host

Refuse ==
  /\ At("check") /\ Refused
  /\ Return(FALSE)
  /\ UNCHANGED <<store, open, aged, nextGen, disruptions>>

\* An issuer rotation signs with the root it read before it took the lock; a
\* leaf rotation reads the issuer under the lock.
NewContents(k, g) ==
  LET s == seen[lock]
      host == IF k = "tls" /\ lock \in Locals THEN g ELSE s.host
      root == CASE k = "tls" -> pki.issuer.root
                [] k = "issuer" -> s.root
                [] k = "root" -> g
      issuer == IF k = "tls" THEN pki.issuer.gen ELSE g
      all == [root |-> Wrote(g, 0, 0, 0), issuer |-> Wrote(g, 0, root, 0),
              chain |-> Wrote(g, issuer, root, host),
              key |-> Wrote(g, 0, 0, 0), config |-> Wrote(g, 0, 0, host)]
  IN  [f \in {Targets[k][i] : i \in DOMAIN Targets[k]} |-> all[f]]

Compute ==
  /\ At("check") /\ ~Refused /\ nextGen <= MaxGen
  /\ new' = NewContents(op, nextGen)
  /\ nextGen' = nextGen + 1
  /\ step' = "stage" /\ UNCHANGED <<lock, op, idx, todo>>
  /\ UNCHANGED <<store, seen, open, daemon, aged, disruptions>>

Gen == new["chain"].gen

Stage ==
  /\ At("stage")
  /\ LET f == Targets[op][idx] IN
       backups' = backups \cup {[gen |-> Gen, file |-> f, was |-> pki[f]]}
  /\ IF idx = Len(Targets[op]) THEN NextStep("journal")
     ELSE idx' = idx + 1 /\ UNCHANGED <<lock, op, step, todo, new>>
  /\ UNCHANGED <<pki, journal, retirement, others>>

WriteJournal ==
  /\ At("journal")
  /\ journal' = [journal EXCEPT ![op] = Gen]
  /\ NextStep("retirement")
  /\ UNCHANGED <<pki, backups, retirement, others>>

WriteRetirement ==
  /\ At("retirement")
  /\ retirement' = Gen
  /\ NextStep("publish")
  /\ UNCHANGED <<pki, backups, journal, others>>

Publish ==
  /\ At("publish")
  /\ LET f == Targets[op][idx] IN pki' = [pki EXCEPT ![f] = new[f]]
  /\ IF idx = Len(Targets[op]) THEN NextStep("commit")
     ELSE idx' = idx + 1 /\ UNCHANGED <<lock, op, step, todo, new>>
  /\ UNCHANGED <<backups, journal, retirement, others>>

Commit ==
  /\ At("commit")
  /\ journal' = [journal EXCEPT ![op] = None]
  /\ Return(TRUE)
  /\ UNCHANGED <<pki, backups, retirement, open, aged, nextGen, disruptions>>

Rotate ==
  \/ Refuse \/ Compute \/ Stage \/ WriteJournal \/ WriteRetirement \/ Publish
  \/ Commit

\* A failed step before the journal removes the backups it made; after it, the
\* rotation is rolled back by its own recovery. Either way it returns an error.
RollBack ==
  /\ step' = "recover" /\ op' = "rollback" /\ todo' = <<op>> /\ idx' = 1
  /\ UNCHANGED <<lock, new, daemon, seen>>

StepFails ==
  /\ lock # None /\ Disrupt
  /\ \/ /\ step \in {"recover", "forget", "unlist", "check", "retire", "retired"}
        /\ Return(FALSE) /\ UNCHANGED backups
     \/ /\ step \in {"stage", "journal"}
        /\ Return(FALSE)
        /\ backups' = {b \in backups : b.gen # Gen}
     \/ /\ step \in {"retirement", "publish", "commit"}
        /\ RollBack /\ UNCHANGED backups
  /\ UNCHANGED <<pki, journal, retirement, open, aged, nextGen>>

-----------------------------------------------------------------------------
(* The server: startup, health probe, renewal. *)

ServerGoto(from, to) ==
  daemon.pc = from /\ daemon' = [daemon EXCEPT !.pc = to]

Start ==
  /\ ServerGoto("off", "start_issuer")
  /\ UNCHANGED <<store, holder, seen, open, aged, nextGen, disruptions>>

\* Each startup recovery takes the lock only when its journal is there.
StartupRecovery(k, from) ==
  /\ daemon.pc = from
  /\ \/ /\ journal[k] = None /\ ServerGoto(from, OnOk[from])
        /\ UNCHANGED holder
     \/ /\ journal[k] # None /\ Acquire(Server, "recover", "recover", <<k>>)
        /\ UNCHANGED daemon
  /\ lock # Server
  /\ UNCHANGED <<store, seen, open, aged, nextGen, disruptions>>

LoadServerConfig ==
  /\ daemon.pc = "config"
  /\ daemon' = [daemon EXCEPT !.pc = "renew_start", !.host = pki.config.host]
  /\ UNCHANGED <<store, holder, seen, open, aged, nextGen, disruptions>>

\* Only the first leaf is ever due: the ones made here are fresh.
Due == aged /\ pki.chain.gen = 0 /\ nextGen <= MaxGen

RenewIfNeeded(from, due, otherwise) ==
  /\ IF Due
     THEN /\ ServerGoto(from, due)
          /\ seen' = [seen EXCEPT ![Server] = [root |-> pki.root.gen,
                                               host |-> pki.config.host]]
     ELSE ServerGoto(from, otherwise) /\ UNCHANGED seen
  /\ UNCHANGED <<store, holder, open, aged, nextGen, disruptions>>

RotateForRenewal ==
  /\ daemon.pc \in {"renewing", "ticking"} /\ lock # Server
  /\ Acquire(Server, "tls", "recover", RecoverFirst["tls"])
  /\ UNCHANGED <<store, others>>

\* The server reads its files one by one, without the lock.
ReadFile(f, to) ==
  /\ daemon.pc = f
  /\ daemon' = [daemon EXCEPT ![f] = pki[f], !.pc = to]
  /\ UNCHANGED <<store, holder, seen, open, aged, nextGen, disruptions>>

\* A key that is not the chain's ends the start.
Bind ==
  /\ ServerGoto("bind", IF daemon.chain.gen = daemon.key.gen
                     THEN "pending" ELSE "off")
  /\ UNCHANGED <<store, holder, seen, open, aged, nextGen, disruptions>>

\* Mutant: looks for the rotation journal.
RotationPending ==
  /\ ServerGoto("pending", IF journal["tls"] # None THEN "probing" ELSE "running")
  /\ UNCHANGED <<store, holder, seen, open, aged, nextGen, disruptions>>

TlsRetirementPending ==
  /\ ServerGoto("pending", IF retirement # None THEN "probing" ELSE "running")
  /\ UNCHANGED <<store, holder, seen, open, aged, nextGen, disruptions>>

\* The probes trust the root on disk, present identities of the issuer on disk
\* and ask for the host name the server loaded.
ProbeSucceeds ==
  /\ daemon.chain.root = pki.root.gen
  /\ daemon.issuer.gen = pki.issuer.gen
  /\ daemon.chain.host = daemon.host

VerifyListeners ==
  /\ ServerGoto("probing", IF ProbeSucceeds THEN "retiring" ELSE "running")
  /\ UNCHANGED <<store, holder, seen, open, aged, nextGen, disruptions>>

\* Mutant: a running server retires without having been restarted.
BeginRetirementAnytime ==
  /\ daemon.pc \in {"retiring", "running"} /\ lock # Server
  /\ retirement # None
  /\ Acquire(Server, "retire", "retire", <<>>)
  /\ UNCHANGED <<store, seen, open, daemon, aged, nextGen, disruptions>>

BeginRetirement ==
  /\ daemon.pc = "retiring" /\ lock # Server
  /\ IF retirement = None
     THEN ServerGoto("retiring", "running") /\ UNCHANGED holder
     ELSE Acquire(Server, "retire", "retire", <<>>) /\ UNCHANGED daemon
  /\ UNCHANGED <<store, seen, open, aged, nextGen, disruptions>>

DeleteBackup ==
  /\ At("retire")
  /\ \/ \E b \in backups :
          /\ b.gen = retirement /\ backups' = backups \ {b}
          /\ UNCHANGED <<holder, retirement, daemon>>
     \/ /\ ~\E b \in backups : b.gen = retirement
        /\ NextStep("retired") /\ UNCHANGED <<backups, retirement, daemon>>
  /\ UNCHANGED <<pki, journal, seen, open, aged, nextGen, disruptions>>

EndRetirement ==
  /\ At("retired")
  /\ retirement' = None /\ Return(TRUE)
  /\ UNCHANGED <<pki, backups, journal, open, aged, nextGen, disruptions>>

\* Shut down, to be restarted by the operator or the service manager.
Stop ==
  /\ ServerGoto("running", "off")
  /\ UNCHANGED <<store, holder, seen, open, aged, nextGen, disruptions>>

DaemonStep ==
  \/ Start
  \/ StartupRecovery("issuer", "start_issuer")
  \/ StartupRecovery("root", "start_root")
  \/ StartupRecovery("tls", "start_tls")
  \/ LoadServerConfig
  \/ RenewIfNeeded("renew_start", "renewing", "chain")
  \/ RotateForRenewal
  \/ ReadFile("chain", "key") \/ ReadFile("key", "issuer")
  \/ ReadFile("issuer", "bind") \/ Bind \/ TlsRetirementPending
  \/ VerifyListeners \/ BeginRetirement

Tick == Due /\ RenewIfNeeded("running", "ticking", "running")

Age ==
  /\ Renewals /\ ~aged /\ aged' = TRUE
  /\ UNCHANGED <<store, holder, seen, open, daemon, nextGen, disruptions>>

-----------------------------------------------------------------------------
CrashLocal ==
  /\ lock \in Locals /\ Disrupt /\ Free
  /\ seen' = [seen EXCEPT ![lock] = None] /\ open' = open \ {lock}
  /\ UNCHANGED <<store, daemon, aged, nextGen>>

CrashServer ==
  /\ daemon.pc # "off" /\ Disrupt
  /\ daemon' = [daemon EXCEPT !.pc = "off"]
  /\ IF lock = Server THEN Free ELSE UNCHANGED holder
  /\ seen' = [seen EXCEPT ![Server] = None]
  /\ UNCHANGED <<store, open, aged, nextGen>>

HolderStep ==
  Recover \/ Rotate \/ DeleteBackup \/ EndRetirement

Operator(p) ==
  Reopen(p) \/ Prepare(p) \/ Cancel(p) \/ \E k \in Kinds : Confirm(p, k)

Starting == daemon.pc \notin {"off", "running", "ticking"}

\* What the history variables keep of a step.
Remember ==
  /\ overlapped' = (Starting' /\ (overlapped \/ (lock' \in Locals /\ op' \in Kinds)))
  /\ undone' = undone \cup
       (CASE step = "forget" /\ step' = "unlist" -> {journal[Kind]}
          [] step = "unlist" /\ retirement' # retirement -> {retirement}
          [] OTHER -> {})

PkiNext ==
  /\ \/ HolderStep \/ StepFails \/ DaemonStep \/ Tick \/ Age \/ Stop
     \/ CrashLocal \/ CrashServer
     \/ \E p \in shift.tuis : Operator(p)
  /\ UNCHANGED shift /\ Remember

PkiSpec == PkiInit /\ [][PkiNext]_pkiVars

FairPkiSpec ==
  PkiSpec /\ WF_work(HolderStep) /\ SF_work(DaemonStep) /\ WF_work(Stop)

-----------------------------------------------------------------------------
(***************************************************************************)
(* Properties                                                              *)
(***************************************************************************)

AtRest == lock = None /\ \A k \in Kinds : journal[k] = None

Coherent(d) ==
  /\ d.chain.gen = d.key.gen
  /\ d.chain.issuer = d.issuer.gen
  /\ d.issuer.root = d.root.gen
  /\ d.chain.host = d.config.host

(* Whenever no rotation is under way or waiting to be rolled back, the      *)
(* files fit together: the key is the chain's, the chain's issuer is the    *)
(* online issuer, which the root vouches for, and the leaf carries the      *)
(* configured host name.                                                    *)
CoherentAtRest == AtRest => Coherent(pki)

(* Rollback material is deleted only by a server that serves the leaf now   *)
(* on disk ("until the restarted daemon completes actual ... probes"),      *)
(* unless a TUI rotated while that server was starting: nothing keeps a     *)
(* rotation from the time between the reading of the leaf and the look for  *)
(* the retirement journal, and the probes do not compare the leaf.          *)
RetiredIsProven ==
  [][(op = "retire" /\ backups' # backups /\ ~overlapped) =>
       daemon.chain.gen = pki.chain.gen]_backups

(* A device enrolled under the first issuer is still accepted by the        *)
(* running server while the root is the same.                               *)
EnrolledStayConnected ==
  (daemon.pc = "running" /\ pki.root.gen = 0) => daemon.issuer.gen = 0

Gone(g) == \A b \in backups : b.gen # g

Unrecoverable ==
  \E k \in Kinds : /\ journal[k] # None
                    /\ \E i \in DOMAIN Targets[k] :
                         ~BackedUp(journal[k], Targets[k][i])

(* The old private material of a rotation that stands does not stay for     *)
(* ever: restarts and probes of the server delete its backups. A rotation   *)
(* that is rolled back is excepted: recover_interrupted_*_locked removes    *)
(* the journals that list its backups and not the backups, so they stay.    *)
(* Excepted too is what follows when a server that was starting beside a    *)
(* rotation that died has deleted backups the recovery of that rotation     *)
(* needs: the recovery fails from then on, and no server starts.            *)
MaterialIsRetired ==
  \A g \in 1..MaxGen :
    (retirement = g) ~> (Gone(g) \/ g \in undone \/ Unrecoverable)
=============================================================================
