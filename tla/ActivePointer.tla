---------------------------- MODULE ActivePointer ----------------------------
(***************************************************************************)
(* The crash-recoverable pointer to the active credential generation       *)
(* (crates/centrald-common/src/active_pointer.rs): the files               *)
(* current.pointer, .current.pointer.next and .current.pointer.previous,   *)
(* changed one file operation at a time by the process that holds          *)
(* .current.pointer.lock.  That process can die between any two of them;   *)
(* the kernel then releases the lock.                                      *)
(*                                                                         *)
(* Every operation begins with recover_locked, which makes at most one     *)
(* change.  Every file operation after it may fail; a publication is then  *)
(* undone, by file operations that may fail in their turn.                 *)
(***************************************************************************)
EXTENDS FiniteSets

CONSTANTS
    Values,       \* names of generations' configuration files
    None,         \* the file does not exist
    Torn          \* it exists, its contents were not written

ASSUME PointerValues ==
    /\ None \notin Values
    /\ Torn \notin Values
    /\ Torn # None

VARIABLES
    current, next, previous,  \* the three files
    pc,                       \* next step of the holder of the lock
    value,                    \* what it publishes
    publication,              \* a process holds a PointerPublication
    outcome,                  \* what the last operation on it returns
    cut                       \* history: the write of a first pointer was cut short

activeVars == <<current, next, previous, pc, value, publication, outcome, cut>>

Contents == Values \cup {None, Torn}

Exists(f) == f # None

\* The steps of publish, of commit_recovered, and of the two rollbacks.
Steps == {"free", "publish", "create", "write", "set_aside", "install", "sync",
          "undo_next", "undo_current", "restore", "commit", "drop_next",
          "rollback", "rollback_previous", "reinstate"}

\* An error is "stuck" when the generation that was to be withdrawn is still
\* the one a reader finds.
Outcomes == {"ok", "failed", "stuck"}

----------------------------------------------------------------------------
\* A device that has a pointer, or one that was never enrolled.
Init ==
    /\ current \in Values \cup {None}
    /\ next = None
    /\ previous = None
    /\ pc = "free"
    /\ value = current
    /\ publication = FALSE
    /\ outcome = "ok"
    /\ cut = FALSE

\* recover_locked.
Recovered ==
    CASE Exists(current) ->
             [current |-> current, next |-> None, previous |-> previous]
      [] ~Exists(current) /\ Exists(next) ->
             [current |-> next, next |-> None, previous |-> previous]
      [] ~Exists(current) /\ ~Exists(next) ->
             [current |-> previous, next |-> None, previous |-> None]

\* Take the lock, recover, go to the first step of the operation.
Begin(step) ==
    /\ pc = "free"
    /\ current' = Recovered.current
    /\ next' = Recovered.next
    /\ previous' = Recovered.previous
    /\ pc' = step
    /\ UNCHANGED cut

\* publish(v); a process publishes only while no other holds a publication,
\* which its callers' own lock sees to.
BeginPublish(v) ==
    /\ ~publication
    /\ Begin("publish")
    /\ value' = v
    /\ outcome' = "ok"
    /\ UNCHANGED publication

\* commit, or commit_recovered.
BeginCommit ==
    /\ Begin("commit")
    /\ outcome' = "ok"
    /\ UNCHANGED <<value, publication>>

\* PointerPublication::rollback.
BeginRollback ==
    /\ publication
    /\ Begin("rollback")
    /\ outcome' = "ok"
    /\ UNCHANGED <<value, publication>>

\* rollback_recovered_if_previous.
BeginRollbackIfPrevious ==
    /\ ~publication
    /\ Begin("rollback_previous")
    /\ outcome' = "ok"
    /\ UNCHANGED <<value, publication>>

\* read, previous: nothing but the recovery.
ReadPointer ==
    /\ Begin("free")
    /\ UNCHANGED <<value, publication, outcome>>

----------------------------------------------------------------------------
(***************************************************************************)
(* publish.                                                                *)
(***************************************************************************)
Goto(step) == pc' = step

\* The operation goes on, or returns an error.
GoesOn(step) == Goto(step) /\ UNCHANGED outcome
Fails == Goto("free") /\ outcome' = "failed"

RefusePending == Exists(previous) \/ Exists(next)

CheckPending ==
    /\ pc = "publish"
    /\ IF RefusePending THEN Fails ELSE GoesOn("create")
    /\ UNCHANGED <<current, next, previous, value, publication, cut>>

\* write_new_pointer creates the file.
CreateNext ==
    /\ pc = "create"
    /\ \/ next' = Torn /\ GoesOn("write")
       \/ UNCHANGED next /\ Fails
    /\ UNCHANGED <<current, previous, value, publication, cut>>

\* It writes and syncs it, or fails and leaves what it has written: recovery
\* drops that if there is a pointer in place, and installs it if not.
WriteNext ==
    /\ pc = "write"
    /\ \/ /\ next' = value
          /\ GoesOn(IF Exists(current) THEN "set_aside" ELSE "install")
          /\ UNCHANGED cut
       \/ /\ next' = value
          /\ Goto("free")
          /\ outcome' = IF Exists(current) THEN "failed" ELSE "stuck"
          /\ UNCHANGED cut
       \/ /\ UNCHANGED next
          /\ Fails
          /\ cut' = (cut \/ ~Exists(current))
    /\ UNCHANGED <<current, previous, value, publication>>

\* rename current.pointer to .previous, or fail and leave next behind.
SetAside ==
    /\ pc = "set_aside"
    /\ \/ /\ previous' = current
          /\ current' = None
          /\ GoesOn("install")
       \/ UNCHANGED <<current, previous>> /\ Fails
    /\ UNCHANGED <<next, value, publication, cut>>

\* rename .next to current.pointer.
Install ==
    /\ pc = "install"
    /\ \/ /\ current' = next
          /\ next' = None
          /\ GoesOn("sync")
       \/ /\ Goto("undo_next")
          /\ outcome' = "failed"
          /\ UNCHANGED <<current, next>>
    /\ UNCHANGED <<previous, value, publication, cut>>

SyncDirectory ==
    /\ pc = "sync"
    /\ \/ GoesOn("free") /\ publication' = TRUE
       \/ Goto("undo_current") /\ outcome' = "failed" /\ UNCHANGED publication
    /\ UNCHANGED <<current, next, previous, value, cut>>

\* The errors of the undoing are ignored.
UndoNext ==
    /\ pc = "undo_next"
    /\ \/ next' = None /\ UNCHANGED outcome
       \/ UNCHANGED next /\ outcome' = "stuck"
    /\ Goto(IF Exists(previous) THEN "restore" ELSE "free")
    /\ UNCHANGED <<current, previous, value, publication, cut>>

UndoCurrent ==
    /\ pc = "undo_current"
    /\ \/ current' = None /\ UNCHANGED outcome
       \/ UNCHANGED current /\ outcome' = "stuck"
    /\ Goto(IF Exists(previous) THEN "restore" ELSE "free")
    /\ UNCHANGED <<next, previous, value, publication, cut>>

\* This rename replaces a current.pointer that could not be removed.
Restore ==
    /\ pc = "restore"
    /\ \/ /\ current' = previous
          /\ previous' = None
          /\ outcome' = "failed"
       \/ UNCHANGED <<current, previous, outcome>>
    /\ Goto("free")
    /\ UNCHANGED <<next, value, publication, cut>>

(***************************************************************************)
(* commit_recovered.                                                       *)
(***************************************************************************)
Commit ==
    /\ pc = "commit"
    /\ \/ previous' = None /\ GoesOn("drop_next")
       \/ UNCHANGED previous /\ Fails
    /\ publication' = FALSE
    /\ UNCHANGED <<current, next, value, cut>>

\* .next goes and the directory is synced.
DropNext ==
    /\ pc = "drop_next"
    /\ next' = None
    /\ GoesOn("free") \/ Fails
    /\ UNCHANGED <<current, previous, value, publication, cut>>

(***************************************************************************)
(* The rollbacks.                                                          *)
(***************************************************************************)
CheckPrevious ==
    /\ pc = "rollback_previous"
    /\ GoesOn(IF Exists(previous) THEN "rollback" ELSE "free")
    /\ UNCHANGED <<current, next, previous, value, publication, cut>>

\* Mutant: the previous pointer goes first.
RemoveCurrentAndPrevious ==
    /\ pc = "rollback"
    /\ current' = None
    /\ previous' = None
    /\ publication' = FALSE
    /\ GoesOn("drop_next")
    /\ UNCHANGED <<next, value, cut>>

RemoveCurrent ==
    /\ pc = "rollback"
    /\ \/ /\ current' = None
          /\ GoesOn(IF Exists(previous) THEN "reinstate" ELSE "drop_next")
       \/ UNCHANGED current /\ Goto("free") /\ outcome' = "stuck"
    /\ publication' = FALSE
    /\ UNCHANGED <<next, previous, value, cut>>

Reinstate ==
    /\ pc = "reinstate"
    /\ \/ /\ current' = previous
          /\ previous' = None
          /\ GoesOn("drop_next")
       \/ UNCHANGED <<current, previous>> /\ Fails
    /\ UNCHANGED <<next, value, publication, cut>>

(***************************************************************************)
(* The process dies, with the lock and any publication it held.            *)
(***************************************************************************)
Crash ==
    /\ pc # "free" \/ publication
    /\ Goto("free")
    /\ publication' = FALSE
    /\ outcome' = "ok"
    /\ cut' = (cut \/ (pc = "write" /\ ~Exists(current)))
    /\ UNCHANGED <<current, next, previous, value>>

Next ==
    \/ \E v \in Values : BeginPublish(v)
    \/ BeginCommit \/ BeginRollback \/ BeginRollbackIfPrevious \/ ReadPointer
    \/ CheckPending \/ CreateNext \/ WriteNext \/ SetAside \/ Install
    \/ SyncDirectory \/ UndoNext \/ UndoCurrent \/ Restore
    \/ Commit \/ DropNext \/ CheckPrevious \/ RemoveCurrent \/ Reinstate
    \/ Crash

Spec == Init /\ [][Next]_activeVars

----------------------------------------------------------------------------
(***************************************************************************)
(* Properties.                                                             *)
(***************************************************************************)
TypeOK ==
    /\ current \in Contents
    /\ next \in Contents
    /\ previous \in Contents
    /\ pc \in Steps
    /\ value \in Values \cup {None}
    /\ publication \in BOOLEAN
    /\ outcome \in Outcomes
    /\ cut \in BOOLEAN

\* What a reader finds after recovery: a file whose write was cut short is no
\* pointer (validate_value refuses it).
Legible(file) == IF file = Torn THEN None ELSE file

Staged == Legible(next)

ViewCurrent ==
    IF Exists(current) THEN Legible(current)
    ELSE IF Exists(Staged) THEN Staged ELSE Legible(previous)

ViewPrevious ==
    IF Exists(current) \/ Exists(Staged) THEN Legible(previous) ELSE None

Pointer == INSTANCE AtomicPointer WITH current <- ViewCurrent, previous <- ViewPrevious

\* Whatever step a process dies in or fails at, and whichever operation comes
\* next, the three files are one pointer that is published, committed and
\* rolled back atomically ("A fixed, crash-recoverable pointer").
ImplementsAtomicPointer == Pointer!Spec

\* Every rename has a source and no file at its destination
\* ("Each rename has a non-existing destination, which keeps the protocol
\* portable to Windows"), after any crash, failure and recovery; but for the
\* rename that puts the old pointer back over one that could not be removed.
RenameTargetsFree ==
    /\ pc = "set_aside" => Exists(current) /\ ~Exists(previous)
    /\ pc = "install" => Exists(next) /\ ~Exists(current)
    /\ pc \in {"restore", "reinstate"} =>
           Exists(previous) /\ (~Exists(current) \/ outcome = "stuck")

\* The pointer can be read after every crash and failure ("crash-recoverable"),
\* unless the write of a first pointer was ever cut short: write_new_pointer
\* makes the file under the name that recovery installs when there is no other.
\* A write that is cut short later never comes to be installed.
RecoveredIsReadable == pc = "free" /\ ~cut => Recovered.current # Torn
=============================================================================
