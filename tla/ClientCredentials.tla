-------------------------- MODULE ClientCredentials --------------------------
(***************************************************************************)
(* How a managed device comes by its credentials and changes them:         *)
(* `centrald-client enroll' and `reenroll' (centrald-client                *)
(* enrollment.rs, run), and the daemon, which finishes what an interrupted *)
(* enrollment left and renews the certificate (daemon.rs,                  *)
(* finalize_active_publication, renew_certificate_if_needed).  Each works  *)
(* under the client state lock, can die at any step, and talks to the      *)
(* server in calls whose request or answer can be lost.                    *)
(*                                                                         *)
(* A generation is a key pair with its certificate, its identity and its   *)
(* configuration file.  The pointer to the active one is AtomicPointer,    *)
(* which ActivePointer implements; the server is what IdentityRegistry     *)
(* does to one device's certificates.                                      *)
(***************************************************************************)
EXTENDS Naturals

CONSTANTS
    Gens,        \* generations
    Ids,         \* identities
    None,
    MaxOutages,  \* bound: how often a call fails while its sender lives on
    MaxCrashes   \* bound: how often a process dies

ASSUME CredentialConstants ==
    /\ None \notin Gens
    /\ None \notin Ids
    /\ MaxOutages \in Nat
    /\ MaxCrashes \in Nat

VARIABLES
    current, previous,  \* the active pointer
    disk,               \* generations whose configuration file exists
    lock,               \* holder of the client state lock, or None
    pc,                 \* next step of each process
    gen,                \* the generation each process works on
    call,               \* the request each process waits for, or None
    reply,              \* its outcome
    late,               \* requests nobody waits for that may still arrive
    status,             \* the server's view of each generation's certificate
    owner,              \* and of its identity
    heir,               \* history: the generation a replaced one gave way to
    crashes, outages,   \* how often a process died, and a living one lost a call
    botched             \* history: a publication failed, could not be undone,
                        \* and its generation was deleted all the same

pointerVars == <<current, previous>>
procVars == <<lock, pc, gen, call, reply>>
serverVars == <<status, owner, heir>>
credentialVars == <<current, previous, disk, lock, pc, gen, call, reply, late,
                    status, owner, heir, crashes, outages, botched>>
failures == <<crashes, outages, botched>>

Procs == {"cli", "daemon"}

Pointer == INSTANCE AtomicPointer WITH Values <- Gens

\* keyed: the key pair exists, no certificate.  retiring: superseded by a
\* renewal, in its last hour.  replaced: revoked by a reenrollment.
Statuses == {"unused", "keyed", "pending", "active", "retiring", "retired",
             "replaced", "revoked", "swept"}

Steps == {"idle", "asking", "persisting", "publishing", "activating", "undoing",
          "cleaning", "replacing", "committing", "finalizing", "finishing",
          "adopting", "deciding"}

Requests == [op : {"enroll", "renew", "activate", "replace"}, gen : Gens, old : Gens \cup {None}]

ASSUME NoneIsNothing == None \notin Procs /\ None \notin Requests

Request(o, g, h) == [op |-> o, gen |-> g, old |-> h]

Init ==
    /\ current = None
    /\ previous = None
    /\ disk = {}
    /\ lock = None
    /\ pc = [p \in Procs |-> "idle"]
    /\ gen = [p \in Procs |-> None]
    /\ call = [p \in Procs |-> None]
    /\ reply = [p \in Procs |-> "none"]
    /\ late = {}
    /\ status = [g \in Gens |-> "unused"]
    /\ owner = [g \in Gens |-> None]
    /\ heir = [g \in Gens |-> None]
    /\ crashes = 0
    /\ outages = 0
    /\ botched = FALSE

----------------------------------------------------------------------------
(***************************************************************************)
(* The server.                                                             *)
(***************************************************************************)

\* authenticate lets the generation in.
Usable(g) == status[g] \in {"active", "retiring"}

\* Activated and not revoked.
Standing(i) ==
    \E g \in Gens : owner[g] = i /\ status[g] \in {"active", "retiring", "retired"}

\* unknown is Code::Unauthenticated.  An active certificate may be activated
\* again, even a retired one.
Answers(r) ==
    CASE r.op = "enroll"   -> {"ok", "rejected"}
      [] r.op = "renew"    -> IF Usable(r.old) THEN {"ok"} ELSE {"unknown"}
      [] r.op = "activate" ->
             IF status[r.gen] \in {"pending", "active", "retiring", "retired"}
             THEN {"ok"} ELSE {"rejected"}
      [] r.op = "replace"  ->
             IF ~Usable(r.old) THEN {"unknown"}
             ELSE IF Standing(owner[r.gen]) THEN {"ok"} ELSE {"rejected"}

Issue(g, i) ==
    /\ status' = [status EXCEPT ![g] = "pending"]
    /\ owner' = [owner EXCEPT ![g] = i]
    /\ UNCHANGED heir

Activate(g) ==
    /\ status' = IF status[g] # "pending" THEN status
                 ELSE [h \in Gens |->
                          CASE h = g -> "active"
                            [] h # g /\ owner[h] = owner[g] /\ status[h] = "active" -> "retiring"
                            [] OTHER -> status[h]]
    /\ UNCHANGED <<owner, heir>>

Revoke(i, as) ==
    /\ status' = [g \in Gens |->
           IF owner[g] = i /\ status[g] \in {"pending", "active", "retiring", "retired"}
           THEN as ELSE status[g]]
    /\ UNCHANGED owner

Replace(old, new) ==
    /\ Revoke(owner[old], "replaced")
    /\ heir' = [g \in Gens |-> IF owner[g] = owner[old] THEN new ELSE heir[g]]

Effect(r, answer) ==
    \/ answer # "ok" /\ UNCHANGED serverVars
    \/ /\ answer = "ok"
       /\ \/ /\ r.op = "enroll"
             /\ \E i \in Ids : (\A g \in Gens : owner[g] # i) /\ Issue(r.gen, i)
          \/ r.op = "renew" /\ Issue(r.gen, owner[r.old])
          \/ r.op = "activate" /\ Activate(r.gen)
          \/ r.op = "replace" /\ Replace(r.old, r.gen)

Serve(p) ==
    /\ call[p] # None
    /\ reply[p] = "none"
    /\ \E answer \in Answers(call[p]) :
          /\ Effect(call[p], answer)
          /\ reply' = [reply EXCEPT ![p] = answer]
    /\ UNCHANGED <<current, previous, disk, lock, pc, gen, call, late, failures>>

\* A request arrives after its sender gave up or died.
ServeLate(r) ==
    /\ r \in late
    /\ \E answer \in Answers(r) : Effect(r, answer)
    /\ late' = late \ {r}
    /\ UNCHANGED <<current, previous, disk, lock, pc, gen, call, reply, failures>>

\* maintenance_once: the activation deadline has passed.
Sweep(g) ==
    /\ status[g] = "pending"
    /\ status' = [status EXCEPT ![g] = "swept"]
    /\ UNCHANGED <<current, previous, disk, lock, pc, gen, call, reply, late, owner, heir, failures>>

\* The hour is over.
Retire(g) ==
    /\ status[g] = "retiring"
    /\ status' = [status EXCEPT ![g] = "retired"]
    /\ UNCHANGED <<current, previous, disk, lock, pc, gen, call, reply, late, owner, heir, failures>>

\* An Admin revokes the identity.
RevokeIdentity(i) ==
    /\ Standing(i)
    /\ Revoke(i, "revoked")
    /\ UNCHANGED <<current, previous, disk, lock, pc, gen, call, reply, late, heir, failures>>

----------------------------------------------------------------------------
(***************************************************************************)
(* Steps of a process.                                                     *)
(***************************************************************************)
Goto(p, step) == pc' = [pc EXCEPT ![p] = step]

\* Send a request and wait at the given step.
Call(p, step, r) ==
    /\ Goto(p, step)
    /\ call' = [call EXCEPT ![p] = r]
    /\ reply' = [reply EXCEPT ![p] = "none"]

\* Every return drops the state lock.
Release(p) ==
    /\ Goto(p, "idle")
    /\ lock' = IF lock = p THEN None ELSE lock
    /\ gen' = [gen EXCEPT ![p] = None]
    /\ call' = [call EXCEPT ![p] = None]
    /\ reply' = [reply EXCEPT ![p] = "none"]

Answered(p, step) == pc[p] = step /\ reply[p] # "none"

\* ClientStateLock: acquire waits for it, try_acquire comes back for it.
LockFree == lock = None

\* Generate a key pair and ask for a certificate for it.
Ask(p, o, g) ==
    /\ status[g] = "unused"
    /\ status' = [status EXCEPT ![g] = "keyed"]
    /\ gen' = [gen EXCEPT ![p] = g]
    /\ Call(p, "asking", Request(o, g, IF o = "renew" THEN current ELSE None))

\* enroll with no identity, or reenroll with one; either refuses while a
\* publication is unfinished.
StartEnrollment(g) ==
    /\ pc["cli"] = "idle"
    /\ LockFree
    /\ previous = None
    /\ current # None => current \in disk
    /\ Ask("cli", "enroll", g)
    /\ lock' = "cli"
    /\ UNCHANGED <<current, previous, disk, late, owner, heir, failures>>

Receive(p) ==
    /\ Answered(p, "asking")
    /\ IF reply[p] = "ok"
       THEN Goto(p, "persisting") /\ UNCHANGED <<lock, gen, call, reply>>
       ELSE Release(p)
    /\ UNCHANGED <<current, previous, disk, late, status, owner, heir, failures>>

\* persist_identity_generation; on failure what was written is removed.
Persist(p) ==
    /\ pc[p] = "persisting"
    /\ \/ /\ disk' = disk \cup {gen[p]}
          /\ Goto(p, "publishing")
          /\ UNCHANGED <<lock, gen, call, reply>>
       \/ Release(p) /\ UNCHANGED disk
    /\ UNCHANGED <<current, previous, late, status, owner, heir, failures>>

\* publish_active_config, then ensure_identity_active.  On an error the
\* generation is deleted, whether or not the pointer was withdrawn: a .next
\* that stays behind is installed by the next recovery, and a pointer whose
\* rollback failed is in place.
Publish(p) ==
    /\ pc[p] = "publishing"
    /\ \/ /\ Pointer!Publish(gen[p])
          /\ Call(p, "activating", Request("activate", gen[p], None))
          /\ UNCHANGED <<disk, lock, gen, botched>>
       \/ /\ disk' = disk \ {gen[p]}
          /\ Release(p)
          /\ \/ UNCHANGED <<current, previous, botched>>
             \/ Pointer!Publish(gen[p]) /\ botched' = TRUE
    /\ UNCHANGED <<late, status, owner, heir, crashes, outages>>

\* A reenrollment goes on to replace the identity it knew before.
ActivationAnswered(p) ==
    /\ Answered(p, "activating")
    /\ IF reply[p] # "ok" THEN Goto(p, "undoing") /\ UNCHANGED <<call, reply>>
       ELSE IF p = "cli" /\ previous # None
            THEN Call(p, "replacing", Request("replace", gen[p], previous))
            ELSE Goto(p, "committing") /\ UNCHANGED <<call, reply>>
    /\ UNCHANGED <<current, previous, disk, lock, gen, late, status, owner, heir, failures>>

\* Mutant: cleans up although the pointer was not rolled back.
UndoRegardless(p) ==
    /\ pc[p] = "undoing"
    /\ Goto(p, "cleaning")
    /\ (Pointer!Rollback \/ Pointer!Unpublish) \/ UNCHANGED pointerVars
    /\ UNCHANGED <<disk, lock, gen, call, reply, late, status, owner, heir, failures>>

\* publication.rollback; if it fails the generation is kept.
Undo(p) ==
    /\ pc[p] = "undoing"
    /\ \/ /\ Pointer!Rollback \/ Pointer!Unpublish
          /\ Goto(p, "cleaning")
          /\ UNCHANGED <<lock, gen, call, reply>>
       \/ Release(p) /\ UNCHANGED pointerVars
    /\ UNCHANGED <<disk, late, status, owner, heir, failures>>

\* cleanup_failed_enrollment_generation, cleanup_failed_generation.
CleanUp(p) ==
    /\ pc[p] = "cleaning"
    /\ disk' = disk \ {gen[p]}
    /\ Release(p)
    /\ UNCHANGED <<current, previous, late, status, owner, heir, failures>>

\* Mutant: a refused replacement undoes the enrollment.
ReplacementAnsweredUndoing ==
    /\ Answered("cli", "replacing")
    /\ Goto("cli", IF reply["cli"] = "ok" THEN "committing" ELSE "undoing")
    /\ UNCHANGED <<current, previous, disk, lock, gen, call, reply, late, status, owner, heir, failures>>

\* replace_previous_identity, of reenroll: any error is left to the daemon.
ReplacementAnswered ==
    /\ Answered("cli", "replacing")
    /\ IF reply["cli"] = "ok"
       THEN Goto("cli", "committing") /\ UNCHANGED <<lock, gen, call, reply>>
       ELSE Release("cli")
    /\ UNCHANGED <<current, previous, disk, late, status, owner, heir, failures>>

\* Committing a pointer that has no predecessor changes nothing.
CommitPointer == IF previous = None THEN UNCHANGED pointerVars ELSE Pointer!Commit

Commit(p) ==
    /\ pc[p] = "committing"
    /\ CommitPointer
    /\ Release(p)
    /\ UNCHANGED <<disk, late, status, owner, heir, failures>>

(***************************************************************************)
(* The daemon's loop.  load_latest_config fails, and the service is        *)
(* started again, while nothing is enrolled.                               *)
(***************************************************************************)
LoadLatestConfig ==
    /\ pc["daemon"] = "idle"
    /\ LockFree
    /\ current \in disk
    /\ lock' = "daemon"
    /\ gen' = [gen EXCEPT !["daemon"] = current]
    /\ Call("daemon", "finalizing", Request("activate", current, None))
    /\ UNCHANGED <<current, previous, disk, late, status, owner, heir, failures>>

\* finalize_active_publication: whatever the error, an unfinished publication
\* is rolled back.  The generation stays on disk.
FinalizeAnswered ==
    /\ Answered("daemon", "finalizing")
    /\ \/ /\ reply["daemon"] # "ok"
          /\ IF previous = None THEN UNCHANGED pointerVars ELSE Pointer!Rollback
          /\ Release("daemon")
       \/ /\ reply["daemon"] = "ok"
          /\ IF previous # None /\ owner[previous] # owner[gen["daemon"]]
             THEN Call("daemon", "finishing", Request("replace", gen["daemon"], previous))
             ELSE Goto("daemon", "adopting") /\ UNCHANGED <<call, reply>>
          /\ UNCHANGED <<current, previous, lock, gen>>
    /\ UNCHANGED <<disk, late, status, owner, heir, failures>>

\* Mutant: without is_unknown_identity.
OldIsGoneOnlyIfReplaced(answer) == answer = "ok"

\* The old identity is revoked, now or (is_unknown_identity) before.
OldIsGone(answer) == answer \in {"ok", "unknown"}

\* Mutant: an unknown old identity is taken for a failed reenrollment.
FinishAnsweredReverting ==
    /\ Answered("daemon", "finishing")
    /\ \/ /\ reply["daemon"] = "ok"
          /\ Goto("daemon", "adopting")
          /\ UNCHANGED <<current, previous, lock, gen, call, reply>>
       \/ /\ reply["daemon"] # "ok"
          /\ Pointer!Rollback
          /\ Release("daemon")
    /\ UNCHANGED <<disk, late, status, owner, heir, failures>>

FinishAnswered ==
    /\ Answered("daemon", "finishing")
    /\ IF OldIsGone(reply["daemon"])
       THEN Goto("daemon", "adopting") /\ UNCHANGED <<lock, gen, call, reply>>
       ELSE Release("daemon")
    /\ UNCHANGED <<current, previous, disk, late, status, owner, heir, failures>>

Adopt ==
    /\ pc["daemon"] = "adopting"
    /\ CommitPointer
    /\ Goto("daemon", "deciding")
    /\ UNCHANGED <<disk, lock, gen, call, reply, late, status, owner, heir, failures>>

\* renew_certificate_if_needed: not due, the daemon connects; or due.
NotDue ==
    /\ pc["daemon"] = "deciding"
    /\ Release("daemon")
    /\ UNCHANGED <<current, previous, disk, late, status, owner, heir, failures>>

Renew(g) ==
    /\ pc["daemon"] = "deciding"
    /\ Ask("daemon", "renew", g)
    /\ UNCHANGED <<current, previous, disk, lock, late, owner, heir, failures>>

----------------------------------------------------------------------------
(***************************************************************************)
(* Failures.                                                               *)
(***************************************************************************)
Abandoned(p) ==
    late' = IF call[p] # None /\ reply[p] = "none" THEN late \cup {call[p]} ELSE late

\* The request or its answer is lost, late, or the server cannot serve it.
Fail(p) ==
    /\ outages < MaxOutages
    /\ outages' = outages + 1
    /\ call[p] # None
    /\ pc[p] \in {"asking", "activating", "replacing", "finalizing", "finishing"}
    /\ reply[p] # "failed"
    /\ Abandoned(p)
    /\ reply' = [reply EXCEPT ![p] = "failed"]
    /\ UNCHANGED <<current, previous, disk, lock, pc, gen, call, status, owner, heir, crashes, botched>>

\* The process dies and the kernel releases its lock; or a file operation of
\* a commit, a rollback or a clean-up fails and it gives up with an error.
Crash(p) ==
    /\ pc[p] # "idle"
    /\ crashes < MaxCrashes
    /\ crashes' = crashes + 1
    /\ Abandoned(p)
    /\ Release(p)
    /\ UNCHANGED <<current, previous, disk, status, owner, heir, outages, botched>>

ProcStep(p) ==
    \/ Receive(p) \/ Persist(p) \/ Publish(p) \/ ActivationAnswered(p)
    \/ Undo(p) \/ CleanUp(p) \/ Commit(p)

DaemonStep ==
    \/ LoadLatestConfig \/ FinalizeAnswered \/ FinishAnswered \/ Adopt \/ NotDue
    \/ \E g \in Gens : Renew(g)

Next ==
    \/ \E p \in Procs : ProcStep(p) \/ Serve(p) \/ Fail(p) \/ Crash(p)
    \/ \E g \in Gens : StartEnrollment(g) \/ Sweep(g) \/ Retire(g)
    \/ \E i \in Ids : RevokeIdentity(i)
    \/ \E r \in late : ServeLate(r)
    \/ ReplacementAnswered
    \/ DaemonStep

Spec == Init /\ [][Next]_credentialVars

\* Processes go on, the service manager keeps the daemon running, and the
\* server answers.  No operator is made to enroll and nobody to revoke.
FairSpec ==
    /\ Spec
    /\ WF_credentialVars(DaemonStep)
    /\ WF_credentialVars(ReplacementAnswered)
    /\ \A p \in Procs : WF_credentialVars(ProcStep(p)) /\ WF_credentialVars(Serve(p))

----------------------------------------------------------------------------
(***************************************************************************)
(* Properties.                                                             *)
(***************************************************************************)

\* Well typed; and a process that is not idle holds the state lock, so that
\* enrollment and daemon never change credentials at once.
TypeOK ==
    /\ {current, previous} \subseteq Gens \cup {None}
    /\ disk \subseteq Gens
    /\ lock \in Procs \cup {None}
    /\ pc \in [Procs -> Steps]
    /\ gen \in [Procs -> Gens \cup {None}]
    /\ call \in [Procs -> Requests \cup {None}]
    /\ reply \in [Procs -> {"none", "ok", "rejected", "unknown", "failed"}]
    /\ late \subseteq Requests
    /\ status \in [Gens -> Statuses]
    /\ owner \in [Gens -> Ids \cup {None}]
    /\ heir \in [Gens -> Gens \cup {None}]
    /\ crashes \in 0..MaxCrashes
    /\ outages \in 0..MaxOutages
    /\ botched \in BOOLEAN
    /\ \A p \in Procs : pc[p] # "idle" => lock = p

\* Whoever dies and whatever call fails, the pointer and its predecessor name
\* generations that are on disk: no clean-up removes one that a rollback or a
\* restart returns to.  The exception is a publication that failed and could
\* not be undone either: run and renew_certificate_if_needed delete the
\* generation although the pointer still names it, or will after recovery.
PointerNeverDangles == ~botched => {current, previous} \subseteq disk \cup {None}

\* A reenrollment that replaced the old identity is carried through, whoever
\* dies on the way: as long as no living process loses a call, the device is
\* never left, with nothing unfinished, on an identity that was replaced by
\* one that is active (PointerPublication: "A crash is recoverable: the next
\* process reads the new current pointer, retries activation, and then calls
\* `commit`").
ReplacementIsAdopted ==
    outages = 0 /\ lock = None /\ previous = None /\ current # None /\ status[current] = "replaced" =>
        status[heir[current]] # "active"

\* As long as no living process loses a call, a generation that the device
\* has thrown away, key and all, is not active on the server and never was
\* (enrollment.rs: "local publication was rolled back and the pending server
\* identity will expire").
DiscardedIsInactive ==
    outages = 0 => \A g \in Gens \ disk :
        (\A p \in Procs : gen[p] # g) => status[g] \notin {"active", "retiring", "retired"}

\* An unfinished publication does not stay: the daemon commits it or rolls it
\* back, also when the old identity is gone already; unless its generation was
\* deleted under the pointer, from where no daemon starts.
PublicationEnds == previous # None ~> previous = None \/ botched
=============================================================================
