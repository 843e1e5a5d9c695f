------------------------- MODULE AdminProfilesProofs -------------------------
(***************************************************************************)
(* The three pointer files implement an atomic pointer, for every set of   *)
(* generations and every sequence of operations, failures and crashes; and *)
(* a profile of the Admin application, which uses it, never points to a    *)
(* generation that is not there, and is never locked out by a crash.       *)
(*                                                                         *)
(* Every file operation may fail or be the last one before the process     *)
(* dies.  What the code gets wrong then is recorded by two history         *)
(* variables: cut, and for a profile botched.                              *)
(***************************************************************************)
EXTENDS AdminProfiles, TLAPS

\* Steps before which recover_locked has run and no file has been created.
Clean == {"publish", "create", "commit", "drop_next", "rollback",
          "rollback_previous", "reinstate", "sync", "undo_current"}

\* What is known of the files at each step of the holder of the lock.
FilesAtStep ==
    /\ pc \in Clean => next = None
    /\ pc \in {"create", "write", "set_aside"} => previous = None
    /\ pc \in {"publish", "create", "write"} => value \in Values
    /\ pc = "write" => next = Torn
    /\ pc \in {"set_aside", "install", "undo_next"} => next \in Values
    /\ pc = "set_aside" => current # None
    /\ pc \in {"install", "undo_next", "reinstate"} => current = None
    /\ pc = "restore" =>
           IF outcome = "stuck" THEN current # None \/ next \in Values
           ELSE current = None /\ next = None
    /\ pc \in {"undo_next", "undo_current"} => outcome = "failed"
    /\ pc \notin {"free", "undo_next", "undo_current", "restore"} => outcome = "ok"
    /\ pc \in {"sync", "undo_current"} => current # None
    /\ pc \in {"restore", "reinstate"} => previous # None
    /\ pc \in {"publish", "commit", "rollback", "rollback_previous"} /\ previous # None =>
           current # None

\* An incomplete file is dropped by recovery, or it was to be the first one.
TornIsFirst ==
    /\ next = Torn /\ current = None => previous = None
    /\ current = Torn => previous = None
    /\ current = Torn \/ previous = Torn => cut
    /\ next = Torn /\ pc # "write" /\ current = None => cut

PublicationIsInstalled ==
    publication => pc \in {"free", "commit", "rollback"} /\ current # None

IInv == TypeOK /\ FilesAtStep /\ TornIsFirst /\ PublicationIsInstalled

----------------------------------------------------------------------------
USE PointerValues

\* The slot starts in order.
LEMMA InitHolds == Init => IInv
  BY DEF Init, IInv, TypeOK, FilesAtStep, TornIsFirst,
         PublicationIsInstalled, Clean, Steps, Outcomes, Contents, ViewCurrent, Staged, Legible, Exists

\* What recover_locked leaves.
LEMMA RecoveryFacts ==
  ASSUME IInv, pc = "free"
  PROVE  /\ Legible(Recovered.current) = ViewCurrent
         /\ Legible(Recovered.previous) = ViewPrevious
         /\ Recovered.next = None
         /\ Recovered.current \in Contents
         /\ Recovered.previous \in Contents
         /\ Recovered.current = Torn \/ Recovered.previous = Torn => cut
         /\ Recovered.previous # None => Recovered.current \notin {None, Torn}
  BY DEF IInv, TypeOK, TornIsFirst, Recovered, ViewCurrent, ViewPrevious, Staged, Legible, Exists,
         Contents
----------------------------------------------------------------------------
\* Every step keeps the invariant.
LEMMA StepHolds ==
  ASSUME IInv, [Next]_activeVars
  PROVE  IInv'
<1> USE DEF IInv, TypeOK, FilesAtStep, TornIsFirst, PublicationIsInstalled,
            Clean, Steps, Outcomes, Contents, ViewCurrent, Staged, Legible, Exists
<1>0. ASSUME NEW step \in {"publish", "commit", "rollback", "rollback_previous", "free"},
             Begin(step), value' \in Values \cup {None}, step = "publish" => value' \in Values,
             publication' = publication, publication => step \in {"free", "commit", "rollback"},
             outcome' \in Outcomes, step # "free" => outcome' = "ok"
      PROVE  IInv'
  <2>1. /\ current' \in Contents /\ previous' \in Contents /\ next' = None /\ pc = "free" /\ pc' = step
        /\ current' = Torn \/ previous' = Torn => cut
        /\ previous' # None => current' \notin {None, Torn}
        /\ cut' = cut
    BY <1>0, RecoveryFacts DEF Begin
  <2>2. TypeOK'
    BY <1>0, <2>1
  <2>3. FilesAtStep' /\ TornIsFirst'
    BY ONLY <1>0, <2>1, PointerValues DEF FilesAtStep, TornIsFirst, Clean
  <2>4. publication => current' # None
    BY ONLY IInv, <1>0, PointerValues DEF IInv, PublicationIsInstalled, Begin, Recovered, Exists
  <2>5. PublicationIsInstalled'
    BY ONLY <1>0, <2>1, <2>4 DEF PublicationIsInstalled
  <2> QED BY <2>2, <2>3, <2>5
<1>1. ASSUME NEW v \in Values, BeginPublish(v) PROVE IInv'
  BY <1>0, <1>1 DEF BeginPublish
<1>2. CASE BeginCommit
  BY <1>0, <1>2 DEF BeginCommit
<1>3. CASE BeginRollback
  BY <1>0, <1>3 DEF BeginRollback
<1>4. CASE BeginRollbackIfPrevious
  BY <1>0, <1>4 DEF BeginRollbackIfPrevious
<1>5. CASE ReadPointer
  BY <1>0, <1>5 DEF ReadPointer
<1>6. CASE CheckPending
  BY <1>6 DEF CheckPending, Goto, GoesOn, Fails, RefusePending
<1>7. CASE CreateNext
  BY <1>7 DEF CreateNext, Goto, GoesOn, Fails
<1>8. CASE WriteNext
  BY <1>8 DEF WriteNext, Goto, GoesOn, Fails
<1>9. CASE SetAside
  BY <1>9 DEF SetAside, Goto, GoesOn, Fails
<1>10. CASE Install
  BY <1>10 DEF Install, Goto, GoesOn, Fails
<1>11. CASE SyncDirectory
  <2>1. CASE pc' = "free" /\ publication' = TRUE
    BY <1>11, <2>1 DEF SyncDirectory, Goto, GoesOn, Fails
  <2>2. CASE pc' = "undo_current" /\ UNCHANGED publication
    BY <1>11, <2>2 DEF SyncDirectory, Goto, GoesOn, Fails
  <2> QED
    BY <1>11, <2>1, <2>2 DEF SyncDirectory, Goto, GoesOn, Fails
<1>12. CASE UndoNext
  BY <1>12 DEF UndoNext, Goto, GoesOn, Fails
<1>13. CASE UndoCurrent
  BY <1>13 DEF UndoCurrent, Goto, GoesOn, Fails
<1>14. CASE Restore
  BY <1>14 DEF Restore, Goto, GoesOn, Fails
<1>15. CASE Commit
  <2>1. /\ pc = "commit" /\ UNCHANGED <<current, next, value, cut>> /\ publication' = FALSE
        /\ \/ previous' = None /\ pc' = "drop_next" /\ outcome' = outcome
           \/ previous' = previous /\ pc' = "free" /\ outcome' = "failed"
    BY ONLY <1>15 DEF Commit, Goto, GoesOn, Fails
  <2>2. TypeOK'
    BY <2>1
  <2>3. FilesAtStep'
    BY <2>1
  <2>4. TornIsFirst'
    BY <2>1
  <2> QED BY <2>1, <2>2, <2>3, <2>4
<1>16. CASE DropNext
  BY <1>16 DEF DropNext, Goto, GoesOn, Fails
<1>17. CASE CheckPrevious
  BY <1>17 DEF CheckPrevious, Goto, GoesOn, Fails
<1>18. CASE RemoveCurrent
  <2>1. /\ pc = "rollback" /\ UNCHANGED <<previous, next, value, cut>> /\ publication' = FALSE
        /\ \/ /\ current' = None /\ outcome' = outcome
              /\ pc' = IF previous # None THEN "reinstate" ELSE "drop_next"
           \/ current' = current /\ pc' = "free" /\ outcome' = "stuck"
    BY ONLY <1>18 DEF RemoveCurrent, Goto, GoesOn, Fails, Exists
  <2>2. TypeOK'
    BY <2>1
  <2>3. FilesAtStep'
    BY <2>1
  <2>4. TornIsFirst'
    BY <2>1
  <2> QED BY <2>1, <2>2, <2>3, <2>4
<1>19. CASE Reinstate
  BY <1>19 DEF Reinstate, Goto, GoesOn, Fails
<1>20. CASE Crash
  BY <1>20 DEF Crash, Goto, GoesOn, Fails
<1>21. CASE UNCHANGED activeVars
  BY <1>21 DEF activeVars
<1> QED
  BY <1>1, <1>2, <1>3, <1>4, <1>5, <1>6, <1>7, <1>8, <1>9, <1>10, <1>11, <1>12, <1>13,
     <1>14, <1>15, <1>16, <1>17, <1>18, <1>19, <1>20, <1>21 DEF Next
----------------------------------------------------------------------------
Same == ViewCurrent' = ViewCurrent /\ ViewPrevious' = ViewPrevious
Back == ViewCurrent' = ViewPrevious /\ ViewPrevious' = None

\* What an operation begins with.
LEMMA BeginFacts ==
  ASSUME IInv, NEW step, Begin(step)
  PROVE  pc = "free" /\ pc' = step /\ next' = None /\ Same
<1>1. /\ Legible(Recovered.current) = ViewCurrent /\ Legible(Recovered.previous) = ViewPrevious
      /\ Recovered.next = None
      /\ Recovered.previous # None => Recovered.current # None
  BY RecoveryFacts DEF Begin
<1>2. /\ Legible(current') = ViewCurrent /\ next' = None /\ Legible(previous') = ViewPrevious
      /\ previous' # None => current' # None
  BY <1>1 DEF Begin
<1>3. Same
  BY ONLY <1>2, PointerValues DEF ViewCurrent, ViewPrevious, Staged, Legible, Exists, Same
<1> QED BY <1>2, <1>3 DEF Begin

\* How each step of an operation moves the pointer: a publication takes effect
\* when the old pointer is set aside (or, for the first one, when the staged
\* file is complete), a rollback when the new pointer is removed.
LEMMA PointerViews ==
  ASSUME IInv
  PROVE  /\ CheckPending \/ CreateNext \/ Install \/ SyncDirectory \/ DropNext \/ CheckPrevious
              \/ Reinstate \/ Crash => Same
         /\ UndoNext \/ UndoCurrent => IF outcome' = "stuck" THEN Same ELSE Back
         /\ Restore => IF outcome = "stuck" /\ outcome' # "stuck" THEN Back ELSE Same
         /\ RemoveCurrent => \/ pc' = "free" /\ outcome' = "stuck" /\ Same
                             \/ /\ pc' \in {"reinstate", "drop_next"}
                                /\ outcome' = outcome /\ Back
         /\ Commit => \/ pc' = "free" /\ outcome' = "failed" /\ Same
                      \/ /\ pc' = "drop_next" /\ outcome' = outcome
                         /\ ViewCurrent' = ViewCurrent /\ ViewPrevious' = None
         /\ WriteNext => \/ pc' = "set_aside" /\ next' = value /\ outcome' = outcome /\ Same
                         \/ pc' = "free" /\ outcome' = "failed" /\ Same
                         \/ /\ \/ pc' = "install" /\ next' = value /\ outcome' = outcome
                               \/ pc' = "free" /\ outcome' = "stuck"
                            /\ ViewCurrent = None /\ ViewPrevious = None
                            /\ ViewCurrent' = value /\ ViewPrevious' = None
         /\ SetAside => \/ pc' = "free" /\ outcome' = "failed" /\ Same
                        \/ /\ pc' = "install" /\ outcome' = outcome /\ ViewPrevious = None
                           /\ ViewCurrent' = next /\ ViewPrevious' = ViewCurrent
<1> USE DEF IInv, TypeOK, FilesAtStep, TornIsFirst, Clean, Contents, ViewCurrent,
            ViewPrevious, Staged, Legible, Exists, Same, Back, Goto, GoesOn, Fails
<1>1. CheckPending \/ CreateNext \/ Install \/ SyncDirectory \/ DropNext \/ CheckPrevious
        \/ Reinstate \/ Crash => Same
  BY DEF CheckPending, CreateNext, Install, SyncDirectory, DropNext, CheckPrevious, Reinstate, Crash
<1>2. UndoNext \/ UndoCurrent => IF outcome' = "stuck" THEN Same ELSE Back
  BY DEF UndoNext, UndoCurrent
<1>3. Restore => IF outcome = "stuck" /\ outcome' # "stuck" THEN Back ELSE Same
  BY DEF Restore
<1>4. RemoveCurrent => \/ pc' = "free" /\ outcome' = "stuck" /\ Same
                       \/ pc' \in {"reinstate", "drop_next"} /\ outcome' = outcome /\ Back
  BY DEF RemoveCurrent
<1>5. Commit => \/ pc' = "free" /\ outcome' = "failed" /\ Same
                \/ /\ pc' = "drop_next" /\ outcome' = outcome
                   /\ ViewCurrent' = ViewCurrent /\ ViewPrevious' = None
  BY DEF Commit
<1>6. WriteNext => \/ pc' = "set_aside" /\ next' = value /\ outcome' = outcome /\ Same
                   \/ pc' = "free" /\ outcome' = "failed" /\ Same
                   \/ /\ \/ pc' = "install" /\ next' = value /\ outcome' = outcome
                         \/ pc' = "free" /\ outcome' = "stuck"
                      /\ ViewCurrent = None /\ ViewPrevious = None
                      /\ ViewCurrent' = value /\ ViewPrevious' = None
  BY DEF WriteNext
<1>7. SetAside => \/ pc' = "free" /\ outcome' = "failed" /\ Same
                  \/ /\ pc' = "install" /\ outcome' = outcome /\ ViewPrevious = None
                     /\ ViewCurrent' = next /\ ViewPrevious' = ViewCurrent
  BY DEF SetAside
<1> QED BY <1>1, <1>2, <1>3, <1>4, <1>5, <1>6, <1>7

\* Every step is one of the atomic pointer, or invisible.
LEMMA StepRefines ==
  ASSUME IInv, [Next]_activeVars
  PROVE  [Pointer!Next]_<<ViewCurrent, ViewPrevious>>
<1>1. CASE Same
  BY <1>1 DEF Same
<1>2. CASE Back
  <2>1. CASE ViewPrevious = None
    BY <1>2, <2>1 DEF Back, Pointer!Next, Pointer!Unpublish
  <2>2. CASE ViewPrevious # None
    BY <1>2, <2>2 DEF Back, Pointer!Next, Pointer!Rollback
  <2> QED
    BY <2>1, <2>2
<1>3. ASSUME NEW step, Begin(step) PROVE Same
  BY <1>3, BeginFacts
<1>4. CASE \/ \E v \in Values : BeginPublish(v)
           \/ BeginCommit \/ BeginRollback \/ BeginRollbackIfPrevious \/ ReadPointer
  BY <1>1, <1>3, <1>4 DEF BeginPublish, BeginCommit, BeginRollback, BeginRollbackIfPrevious,
                          ReadPointer
<1>5. CASE CheckPending \/ CreateNext \/ Install \/ SyncDirectory \/ Restore \/ DropNext
           \/ CheckPrevious \/ Reinstate \/ Crash \/ UndoNext \/ UndoCurrent \/ RemoveCurrent
  BY <1>1, <1>2, <1>5, PointerViews
<1>6. CASE WriteNext
  <2>1. value \in Values
    BY <1>6 DEF WriteNext, IInv, FilesAtStep
  <2>2. ViewCurrent = None /\ ViewPrevious = None /\ ViewCurrent' = value /\ ViewPrevious' = None
        => Pointer!Next
    BY <2>1 DEF Pointer!Next, Pointer!Publish
  <2> QED
    BY <1>1, <1>6, <2>2, PointerViews
<1>7. CASE SetAside
  <2>1. next \in Values
    BY <1>7 DEF SetAside, IInv, FilesAtStep
  <2>2. ViewPrevious = None /\ ViewCurrent' = next /\ ViewPrevious' = ViewCurrent => Pointer!Next
    BY <2>1 DEF Pointer!Next, Pointer!Publish
  <2> QED
    BY <1>1, <1>7, <2>2, PointerViews
<1>8. CASE Commit
  <2>1. CASE ViewPrevious = None
    BY <1>1, <1>8, <2>1, PointerViews DEF Same
  <2>2. CASE ViewPrevious # None
    BY <1>1, <1>8, <2>2, PointerViews DEF Pointer!Next, Pointer!Commit
  <2> QED
    BY <2>1, <2>2
<1>9. CASE UNCHANGED activeVars
  <2>1. Same
    BY <1>9 DEF activeVars, Same, ViewCurrent, ViewPrevious, Staged, Legible
  <2> QED BY <1>1, <2>1
<1> QED
  BY <1>4, <1>5, <1>6, <1>7, <1>8, <1>9 DEF Next

\* The file starts as the atomic pointer does.
LEMMA InitRefines == Init => Pointer!Init
  BY DEF Init, Pointer!Init, ViewCurrent, ViewPrevious, Staged, Legible, Exists

\* The invariant holds in every reachable state.
THEOREM ActivePointerInvariant ==
  Spec => []IInv
<1>1. Init => IInv
  BY InitHolds
<1>2. IInv /\ [Next]_activeVars => IInv'
  BY StepHolds
<1> QED
  BY <1>1, <1>2, PTL DEF Spec

\* Whatever step a process dies in or fails at, and whichever operation comes
\* next, current.pointer, .next and .previous are one pointer that is published,
\* committed and rolled back atomically (active_pointer.rs: "A fixed,
\* crash-recoverable pointer to the active credential metadata file").
THEOREM ActivePointerIsAtomic ==
  Spec => ImplementsAtomicPointer
<1>1. Init => Pointer!Init
  BY InitRefines
<1>2. IInv /\ [Next]_activeVars => [Pointer!Next]_<<ViewCurrent, ViewPrevious>>
  BY StepRefines
<1>3. Spec => []IInv
  BY ActivePointerInvariant
<1> QED
  BY <1>1, <1>2, <1>3, PTL DEF Spec, ImplementsAtomicPointer, Pointer!Spec, Pointer!pointerVars

\* Every rename has a source and, but for the one that replaces a pointer that
\* could not be removed, a free destination, after any crash and failure ("Each
\* rename has a non-existing destination").
THEOREM ActivePointerRenames ==
  Spec => []RenameTargetsFree
<1>1. IInv => RenameTargetsFree
  BY DEF IInv, TypeOK, FilesAtStep, RenameTargetsFree, Exists
<1> QED
  BY <1>1, ActivePointerInvariant, PTL

\* After every crash and failure the pointer can be read, unless the write of a
\* first pointer was cut short: recovery installs no other incomplete file.
THEOREM ActivePointerReadable ==
  Spec => []RecoveredIsReadable
<1>1. IInv => RecoveredIsReadable
  BY DEF IInv, TypeOK, TornIsFirst, FilesAtStep, RecoveredIsReadable, Recovered, Exists, Contents
<1> QED
  BY <1>1, ActivePointerInvariant, PTL
----------------------------------------------------------------------------
(***************************************************************************)
(* A profile of the Admin application uses the pointer.                    *)
(***************************************************************************)
Before == ViewCurrent = loaded /\ ViewPrevious = None
After == ViewCurrent = fresh /\ ViewPrevious = loaded

\* States of a call in which the pointer rests.
Resting == {"absent", "idle", "enrolling", "renewing", "activating", "confirming", "persisting",
            "publishing", "undoing", "unsecured", "cleaning", "removing", "committing",
            "finalizing", "restoring", "connecting"}
\* States of a call that has made a generation, before and after its files.
Requesting == {"enrolling", "renewing", "persisting"}
Holding == {"publishing", "published", "activating", "undoing", "unsecured", "undone", "cleaning",
            "committing", "done"}
\* Steps of a publication, before and after the pointer moves, and of a rollback.
Moving == {"publish", "create", "write", "set_aside", "restore"}
Moved == {"install", "sync", "undo_next", "undo_current"}
Rolling == {"rollback", "reinstate", "drop_next"}

\* Which operation on the pointer a call has begun.
CallSteps ==
    /\ app \in Resting \cup {"published", "undone", "done", "recovered", "restored"}
    /\ app \in Resting => pc = "free"
    /\ app = "published" =>
           /\ pc \in Moving \cup Moved \cup Rolling \cup {"free"}
           /\ pc \in Moving \cup Moved => value = fresh
    /\ pc \in {"set_aside", "install", "undo_next"} => next = value
    /\ app = "undone" => pc \in Rolling \cup {"free"}
    /\ app \in {"done", "recovered"} => pc \in {"free", "commit", "drop_next"}
    /\ app = "restored" => pc \in Rolling \cup {"free", "rollback_previous"}
    /\ publication =>
           \/ app \in {"activating", "undoing", "unsecured", "committing"}
           \/ app = "published" /\ pc \in {"free", "rollback"}
           \/ app = "undone" /\ pc = "rollback"
           \/ app = "done" /\ pc = "commit"
    /\ app \in {"activating", "undoing", "unsecured", "committing"} => publication
    /\ asked # NoRequest =>
           /\ app \in {"enrolling", "renewing", "activating", "confirming"}
           /\ asked = Request(Asks[app], Subject, loaded)

\* What it has done to the pointer by then.
ViewAtCall ==
    /\ app \in {"absent", "enrolling", "renewing", "persisting", "publishing"} => Before
    /\ app = "published" =>
           IF pc \in Moved \cup {"rollback"} \/ publication \/ outcome = "stuck" THEN After ELSE Before
    /\ app \in {"activating", "undoing", "unsecured", "committing"} => After
    /\ app = "undone" => IF pc = "rollback" \/ outcome = "stuck" THEN After ELSE Before
    /\ app = "cleaning" => IF outcome = "stuck" THEN After ELSE Before
    /\ app = "removing" => ViewCurrent \in {None, fresh} /\ ViewPrevious = None
    /\ app = "done" => ViewCurrent = fresh
    /\ app \in {"confirming", "finalizing", "restoring", "recovered"} => ViewCurrent = loaded
    /\ app = "recovered" /\ pc # "commit" /\ outcome = "ok" => ViewPrevious = None
    /\ app = "restored" /\ pc \in {"rollback_previous", "rollback"} => ViewCurrent = loaded

\* The generations in its hands and on the disk.
Generations ==
    /\ loaded \in Values \cup {None} /\ fresh \in Values \cup {None}
    /\ made \subseteq Values /\ disk \subseteq made
    /\ {ViewCurrent, ViewPrevious} \subseteq disk \cup {None}
    /\ app \in Requesting => fresh \in made \ disk /\ fresh # loaded
    /\ app \in Holding => fresh \in disk /\ fresh # loaded
    /\ app = "removing" => fresh \in made
    /\ app \in {"absent", "enrolling", "removing"} => loaded = None
    /\ app \in {"renewing", "connecting", "confirming", "finalizing", "recovered", "restoring",
                "restored"} => loaded # None

PInv == IInv /\ CallSteps /\ ViewAtCall /\ Generations /\ outages \in Nat

\* A profile whose generation was deleted under its pointer: no call gets past
\* load_profile_from_dir any more.
Dead ==
    /\ app \in {"connecting", "idle"}
    /\ asked = NoRequest
    /\ pc = "free"
    /\ ~publication
    /\ ViewCurrent \in Values \ disk

WInv == IF botched THEN IInv /\ Dead ELSE PInv

\* The server's view.
Confirmed == {"active", "retiring", "retired"}

Statuses ==
    /\ status \in [Values -> Confirmed \cup {"unused", "pending", "swept"}]
    /\ \A g \in disk : status[g] # "unused"
    /\ \A g \in Values \ made : status[g] = "unused"
    /\ app \in {"enrolling", "renewing", "removing"} => status[fresh] \in {"unused", "pending", "swept"}
    /\ app \in {"persisting", "publishing", "published", "activating", "undoing", "unsecured",
                "undone", "cleaning"} => status[fresh] \in {"pending", "swept"}
    /\ app \in {"committing", "done"} => status[fresh] \in Confirmed
    /\ /\ app \in Requesting \cup Holding \cup {"finalizing", "recovered", "connecting"}
       /\ loaded # None
       => status[loaded] \in Confirmed
    /\ app = "restoring" => status[loaded] = "swept"
    /\ app = "restored" /\ pc \in {"rollback_previous", "rollback"} => status[loaded] = "swept"

\* A request that outlived its call.
LateRequests ==
    /\ loaded = None /\ app # "idle" => late = {}
    /\ \A r \in late :
           /\ r.gen \in made /\ r.gen # fresh
           /\ r.op \in {"enroll", "renew"} =>
                  r.gen \notin disk /\ status[r.gen] \in {"unused", "pending", "swept"}
           /\ r.op \notin {"enroll", "renew"} =>
                  /\ r.op = "activate" /\ r.gen \in disk
                  /\ status[r.gen] = "pending" => ViewCurrent = r.gen

Reachable ==
    \A g \in Values : status[g] = "active" =>
        /\ g \in disk
        /\ \/ ViewCurrent = g
           \/ ViewPrevious = g /\ status[ViewCurrent] \in {"pending", "swept"}

RInv == WInv /\ (outages = 0 /\ ~botched => Statuses /\ LateRequests /\ Reachable)
----------------------------------------------------------------------------
\* The pointer is left alone.
LEMMA LeftAlone ==
  ASSUME UNCHANGED activeVars
  PROVE  Same /\ UNCHANGED <<pc, publication, value, next, outcome>>
  BY DEF activeVars, Same, ViewCurrent, ViewPrevious, Staged, Legible

\* So it stays in order.
LEMMA StepHoldsStill ==
  ASSUME IInv, UNCHANGED activeVars
  PROVE  IInv'
  BY DEF activeVars, IInv, TypeOK, FilesAtStep, TornIsFirst, PublicationIsInstalled

\* But for the removal of the whole directory, a profile changes its pointer
\* only by the operations of the pointer.
LEMMA PointerMoves ==
  ASSUME PInv, [ProfileNext]_profileVars
  PROVE  RemoveProfileDirectory \/ [Next]_activeVars
<1>1. CASE UNCHANGED profileVars
  BY <1>1 DEF profileVars
<1>2. ASSUME NEW g \in Values, Retire(g) \/ EnrollAdmin(g) PROVE UNCHANGED activeVars
  BY <1>2 DEF Retire, EnrollAdmin
<1>3. ASSUME NEW r \in late, LateRequest(r) PROVE UNCHANGED activeVars
  BY <1>3 DEF LateRequest
<1>4. CASE SendRequest \/ Answered \/ Lost \/ PersistProfileGeneration \/ Published \/ Undone
           \/ CleanupProfileGeneration \/ Replaced \/ Restored \/ RenewalDue \/ AdminClientForProfile
  BY <1>4 DEF SendRequest, Answered, Lost, PersistProfileGeneration, Published, Undone,
              CleanupProfileGeneration, Replaced, Restored, RenewalDue, AdminClientForProfile
<1>5. CASE PublishActiveProfile
  <2>1. BeginPublish(fresh) /\ fresh \in Values
    BY <1>5 DEF PublishActiveProfile, PInv, Generations, Holding
  <2> QED BY <2>1 DEF Next
<1>6. CASE RollbackPublication \/ CommitActiveProfile \/ LoadProfile \/ RestorePrevious
           \/ ListProfiles \/ PointerStep
  BY <1>6 DEF RollbackPublication, CommitActiveProfile, LoadProfile, RestorePrevious,
              ListProfiles, PointerStep, Next
<1>7. CASE AppDies
  BY <1>7 DEF AppDies, Next
<1> QED BY <1>1, <1>2, <1>3, <1>4, <1>5, <1>6, <1>7 DEF ProfileNext

\* Nothing of the call changes.
LEMMA Quiet ==
  ASSUME PInv, UNCHANGED <<activeVars, appVars, disk, asked, outages>>
  PROVE  PInv'
<1>1. Same /\ UNCHANGED <<pc, publication, value, next, outcome, app, loaded, fresh, made>> /\ IInv'
  BY LeftAlone, StepHoldsStill DEF PInv, appVars
<1> QED BY <1>1 DEF PInv, CallSteps, ViewAtCall, Generations, Before, After, Same, Subject

\* A call goes on without touching the pointer: what has to be shown.
LEMMA CallGoesOn ==
  ASSUME PInv, UNCHANGED <<activeVars, outages>>, CallSteps', ViewAtCall', Generations'
  PROVE  PInv'
  BY StepHoldsStill DEF PInv

\* The first generation is made.
LEMMA EnrollAdminHolds ==
  ASSUME PInv, NEW g \in Values, EnrollAdmin(g)
  PROVE  PInv'
<1>1. /\ app = "absent" /\ app' = "enrolling" /\ fresh' = g /\ loaded' = loaded /\ made = {}
      /\ made' = {g} /\ asked' = asked /\ disk' = disk /\ UNCHANGED <<activeVars, outages>>
  BY DEF EnrollAdmin, Make, serverVars, boundVars
<1>2. /\ Same /\ UNCHANGED <<publication, value, next, outcome>> /\ pc' = "free" /\ pc = "free"
      /\ Before /\ loaded = None /\ asked = NoRequest /\ ~publication /\ disk = {}
  BY <1>1, LeftAlone DEF PInv, CallSteps, ViewAtCall, Generations, Resting
<1>3. CallSteps'
  BY ONLY <1>1, <1>2 DEF CallSteps, Resting, Moved, Moving
<1>4. ViewAtCall'
  BY ONLY <1>1, <1>2 DEF ViewAtCall, Before, Same
<1>5. Generations'
  BY ONLY <1>1, <1>2, g \in Values, PointerValues DEF Generations, Before, Same, Requesting, Holding
<1> QED BY <1>1, <1>3, <1>4, <1>5, CallGoesOn

\* A request goes out.
LEMMA SendRequestHolds ==
  ASSUME PInv, SendRequest
  PROVE  PInv'
<1>1. /\ app \in DOMAIN Asks /\ asked' = Request(Asks[app], Subject, loaded)
      /\ UNCHANGED <<activeVars, app, loaded, fresh, made, disk, outages>>
  BY DEF SendRequest, appVars, boundVars
<1>2. /\ Same /\ UNCHANGED <<pc, publication, value, next, outcome>>
      /\ app \in {"enrolling", "renewing", "activating", "confirming"}
  BY <1>1, LeftAlone DEF Asks
<1>3. Subject' = Subject
  BY <1>1 DEF Subject
<1>4. CallSteps'
  BY <1>1, <1>2, <1>3 DEF PInv, CallSteps
<1>5. ViewAtCall' /\ Generations'
  BY <1>1, <1>2 DEF PInv, ViewAtCall, Generations, Before, After, Same
<1> QED BY <1>1, <1>4, <1>5, CallGoesOn

\* Where a call goes when its request is answered or lost.
LEMMA AnswerHolds ==
  ASSUME PInv, asked # NoRequest, asked' = NoRequest, UNCHANGED <<activeVars, disk>>,
         AppGoto(AfterSuccess) \/ AppGoto(AfterFailure), outages' \in Nat
  PROVE  PInv'
<1>1. /\ app \in {"enrolling", "renewing", "activating", "confirming"}
      /\ UNCHANGED <<loaded, fresh, made>>
  BY DEF PInv, CallSteps, AppGoto
<1>2. /\ Same /\ UNCHANGED <<pc, publication, value, next, outcome>> /\ pc = "free" /\ IInv'
  BY <1>1, LeftAlone, StepHoldsStill DEF PInv, CallSteps, Resting
<1>3. \/ app = "enrolling" /\ app' \in {"persisting", "removing"}
      \/ app = "renewing" /\ app' \in {"persisting", "connecting"}
      \/ app = "activating" /\ app' \in {"committing", "undoing"}
      \/ app = "confirming" /\ app' \in {"finalizing", "restoring"}
  BY <1>1 DEF AppGoto, AfterSuccess, AfterFailure
<1>4. CallSteps'
  BY <1>1, <1>2, <1>3 DEF PInv, CallSteps, Resting
<1>5. ViewAtCall'
  BY <1>1, <1>2, <1>3 DEF PInv, ViewAtCall, Generations, Before, After, Same
<1>6. Generations'
  BY <1>1, <1>2, <1>3 DEF PInv, Generations, Requesting, Holding, Same
<1> QED BY <1>2, <1>4, <1>5, <1>6 DEF PInv

\* The files of the generation are written, or nothing is left of them.
LEMMA PersistHolds ==
  ASSUME PInv, PersistProfileGeneration
  PROVE  PInv'
<1>1. /\ app = "persisting" /\ UNCHANGED <<activeVars, loaded, fresh, made, asked, outages>>
      /\ \/ disk' = disk \cup {fresh} /\ app' = "publishing"
         \/ disk' = disk /\ app' = IF loaded = None THEN "removing" ELSE "connecting"
  BY DEF PersistProfileGeneration, AppGoto, serverVars, boundVars
<1>2. /\ Same /\ UNCHANGED <<pc, publication, value, next, outcome>> /\ pc = "free" /\ Before
      /\ asked = NoRequest /\ ~publication /\ fresh \in made \ disk /\ fresh # loaded
      /\ loaded = None => ViewCurrent = None
  BY <1>1, LeftAlone DEF PInv, CallSteps, ViewAtCall, Generations, Resting, Requesting, Before
<1>3. CallSteps'
  BY ONLY <1>1, <1>2 DEF CallSteps, Resting
<1>4. ViewAtCall'
  BY ONLY <1>1, <1>2 DEF ViewAtCall, Before, Same
<1>5. Generations'
  BY <1>1, <1>2 DEF PInv, Generations, Requesting, Holding, Same
<1> QED BY <1>1, <1>3, <1>4, <1>5, CallGoesOn

\* A publication has ended.
LEMMA PublishedHolds ==
  ASSUME PInv, Published
  PROVE  PInv'
<1>1. /\ app = "published" /\ pc = "free"
      /\ UNCHANGED <<activeVars, loaded, fresh, made, disk, asked, outages>>
      /\ \/ publication /\ app' \in {"activating", "unsecured"}
         \/ ~publication /\ app' = "cleaning"
  BY DEF Published, AppGoto, serverVars, boundVars
<1>2. /\ Same /\ UNCHANGED <<pc, publication, value, next, outcome>> /\ asked = NoRequest
      /\ IF publication \/ outcome = "stuck" THEN After ELSE Before
  BY <1>1, LeftAlone DEF PInv, CallSteps, ViewAtCall, Moved
<1>3. CallSteps'
  BY ONLY <1>1, <1>2 DEF CallSteps, Resting
<1>4. ViewAtCall'
  BY ONLY <1>1, <1>2 DEF ViewAtCall, Before, After, Same
<1>5. Generations'
  BY <1>1, <1>2 DEF PInv, Generations, Requesting, Holding, Same
<1> QED BY <1>1, <1>3, <1>4, <1>5, CallGoesOn

\* The activation failed and the publication was rolled back, or not.
LEMMA UndoneHolds ==
  ASSUME PInv, Undone
  PROVE  PInv'
<1>1. /\ app = "undone" /\ pc = "free"
      /\ UNCHANGED <<activeVars, made, disk, asked, outages>>
      /\ \/ outcome = "ok" /\ app' = "cleaning" /\ UNCHANGED <<loaded, fresh>>
         \/ loaded = None /\ app' = "idle" /\ loaded' = None /\ fresh' = None
         \/ loaded # None /\ app' = "connecting" /\ UNCHANGED <<loaded, fresh>>
  BY DEF Undone, AppGoto, Returns, serverVars, boundVars
<1>2. /\ Same /\ UNCHANGED <<pc, publication, value, next, outcome>> /\ asked = NoRequest
      /\ ~publication /\ outcome = "ok" => Before
  BY <1>1, LeftAlone DEF PInv, CallSteps, ViewAtCall
<1>3. ~publication
  BY <1>1 DEF PInv, CallSteps
<1>4. CallSteps'
  BY ONLY <1>1, <1>2, <1>3 DEF CallSteps, Resting
<1>5. ViewAtCall'
  BY ONLY <1>1, <1>2, <1>3 DEF ViewAtCall, Before, Same
<1>6. Generations'
  BY <1>1, <1>2 DEF PInv, Generations, Requesting, Holding, Same
<1> QED BY <1>1, <1>4, <1>5, <1>6, CallGoesOn

\* The files go after the pointer was rolled back; or they go although it could
\* not be, and that is the end of the profile.
LEMMA CleanupHolds ==
  ASSUME PInv, ~botched, CleanupProfileGeneration
  PROVE  WInv'
<1>1. /\ app = "cleaning" /\ pc = "free"
      /\ UNCHANGED <<activeVars, loaded, fresh, made, asked, outages>>
      /\ \/ loaded = None /\ app' = "removing" /\ disk' = disk /\ ~botched'
         \/ /\ loaded # None /\ app' = "connecting" /\ disk' = disk \ {fresh}
            /\ botched' = (outcome = "stuck")
  BY DEF CleanupProfileGeneration, AppGoto, serverVars
<1>2. /\ Same /\ UNCHANGED <<pc, publication, value, next, outcome>> /\ asked = NoRequest
      /\ IF outcome = "stuck" THEN After ELSE Before
      /\ ~publication /\ fresh # loaded /\ fresh \in disk /\ disk \subseteq Values /\ disk \subseteq made
  BY <1>1, LeftAlone DEF PInv, CallSteps, ViewAtCall, Generations, Holding
<1>3. CallSteps'
  BY ONLY <1>1, <1>2 DEF CallSteps, Resting
<1>4. ViewAtCall'
  BY ONLY <1>1, <1>2 DEF ViewAtCall, Before, After, Same
<1>5. ASSUME ~botched' PROVE Generations'
  BY <1>1, <1>2, <1>5 DEF PInv, Generations, Requesting, Holding, Same, Before
<1>6. ASSUME botched' PROVE Dead'
  <2>1. app' = "connecting" /\ disk' = disk \ {fresh} /\ outcome = "stuck"
    BY <1>1, <1>6
  <2>2. ViewCurrent' = fresh /\ fresh \in Values
    BY <1>2, <2>1 DEF After, Same
  <2> QED BY ONLY <1>1, <1>2, <2>1, <2>2 DEF Dead
<1>7. IInv'
  BY <1>1, StepHoldsStill DEF PInv
<1> QED BY <1>1, <1>3, <1>4, <1>5, <1>6, <1>7 DEF PInv, WInv

\* The call goes on with what it has published, fails, or ends.
LEMMA CallEndsHolds ==
  ASSUME PInv, Replaced \/ Restored \/ AdminClientForProfile
  PROVE  PInv'
<1>1. /\ \/ app' = "idle" /\ loaded' = None /\ fresh' = None
         \/ app = "done" /\ app' = "connecting" /\ loaded' = fresh /\ fresh' = None
         \/ app = "done" /\ app' = "connecting" /\ loaded' = loaded /\ fresh' = fresh /\ loaded # None
      /\ UNCHANGED <<activeVars, made, disk, asked, outages>>
      /\ app \in {"done", "restored", "connecting"} /\ (app # "connecting" => pc = "free")
  BY DEF Replaced, Restored, AdminClientForProfile, Returns, AppGoto, serverVars, boundVars
<1>2. /\ Same /\ UNCHANGED <<pc, publication, value, next, outcome>> /\ asked = NoRequest
      /\ ~publication /\ pc = "free"
      /\ app = "done" => fresh \in Values
  BY <1>1, LeftAlone DEF PInv, CallSteps, Generations, Resting, Holding
<1>3. CallSteps'
  BY ONLY <1>1, <1>2 DEF CallSteps, Resting
<1>4. ViewAtCall'
  BY ONLY <1>1, <1>2 DEF ViewAtCall
<1>5. Generations'
  BY <1>1, <1>2 DEF PInv, Generations, Requesting, Holding, Same
<1> QED BY <1>1, <1>3, <1>4, <1>5, CallGoesOn

\* The call fails, needs no renewal, or makes the next generation.
LEMMA RenewalDueHolds ==
  ASSUME PInv, RenewalDue
  PROVE  PInv'
<1>1. /\ app = "recovered" /\ pc = "free"
      /\ UNCHANGED <<activeVars, disk, asked, outages>>
      /\ \/ app' = "idle" /\ loaded' = None /\ fresh' = None /\ made' = made
         \/ app' = "connecting" /\ UNCHANGED <<loaded, fresh, made>>
         \/ /\ loaded' = loaded /\ outcome = "ok"
            /\ \E g \in Values : g \notin made /\ made' = made \cup {g} /\ fresh' = g /\ app' = "renewing"
  BY DEF RenewalDue, AppGoto, Returns, Make, serverVars, boundVars
<1>2. /\ Same /\ UNCHANGED <<pc, publication, value, next, outcome>> /\ asked = NoRequest
      /\ ~publication /\ ViewCurrent = loaded /\ outcome = "ok" => Before
  BY <1>1, LeftAlone DEF PInv, CallSteps, ViewAtCall, Before
<1>3. ~publication /\ ViewCurrent = loaded /\ loaded # None
  BY <1>1 DEF PInv, CallSteps, ViewAtCall, Generations
<1>4. CallSteps'
  BY ONLY <1>1, <1>2, <1>3 DEF CallSteps, Resting
<1>5. ViewAtCall'
  BY ONLY <1>1, <1>2, <1>3 DEF ViewAtCall, Before, Same
<1>6. loaded \in made
  BY <1>3 DEF PInv, Generations
<1>7. Generations'
  BY <1>1, <1>2, <1>3, <1>6 DEF PInv, Generations, Requesting, Holding, Same
<1> QED BY <1>1, <1>4, <1>5, <1>7, CallGoesOn

\* An operation on the pointer begins.
LEMMA BeginHolds ==
  ASSUME PInv,
         \/ PublishActiveProfile \/ RollbackPublication \/ CommitActiveProfile
         \/ LoadProfile \/ RestorePrevious \/ ListProfiles
  PROVE  PInv'
<1>1. IInv' /\ outages' = outages
  <2>1. [ProfileNext]_profileVars /\ ~RemoveProfileDirectory
    BY DEF ProfileNext, PublishActiveProfile, RollbackPublication, CommitActiveProfile, LoadProfile,
           RestorePrevious, ListProfiles, RemoveProfileDirectory, AppGoto, appVars, BeginPublish,
           BeginRollback, BeginCommit, ReadPointer, BeginRollbackIfPrevious
  <2>2. outages' = outages
    BY DEF PublishActiveProfile, RollbackPublication, CommitActiveProfile, LoadProfile,
           RestorePrevious, ListProfiles, boundVars
  <2> QED BY <2>1, <2>2, PointerMoves, StepHolds DEF PInv
<1>2. CASE PublishActiveProfile
  <2>1. /\ app = "publishing" /\ app' = "published" /\ value' = fresh /\ Begin("publish")
        /\ outcome' = "ok"
        /\ UNCHANGED <<loaded, fresh, made, disk, asked, publication>>
    BY <1>2 DEF PublishActiveProfile, BeginPublish, AppGoto, serverVars
  <2>2. /\ pc' = "publish" /\ Same /\ asked = NoRequest /\ ~publication /\ Before
    BY <1>2, <2>1, BeginFacts DEF PInv, CallSteps, ViewAtCall, PublishActiveProfile, BeginPublish
  <2>3. CallSteps'
    BY ONLY <2>1, <2>2 DEF CallSteps, Resting, Moving
  <2>4. ViewAtCall'
    BY ONLY <2>1, <2>2 DEF ViewAtCall, Before, Same, Moved
  <2>5. Generations'
    BY <2>1, <2>2 DEF PInv, Generations, Requesting, Holding, Same
  <2> QED BY <1>1, <2>3, <2>4, <2>5 DEF PInv
<1>3. CASE RollbackPublication
  <2>1. /\ \/ app = "undoing" /\ app' = "undone"
           \/ app = "unsecured" /\ app' = "published"
        /\ Begin("rollback") /\ outcome' = "ok"
        /\ UNCHANGED <<loaded, fresh, made, disk, asked, value, publication>>
    BY <1>3 DEF RollbackPublication, BeginRollback, AppGoto, serverVars
  <2>2. /\ pc' = "rollback" /\ Same /\ asked = NoRequest /\ After
    BY <2>1, BeginFacts DEF PInv, CallSteps, ViewAtCall
  <2>3. CallSteps'
    BY ONLY <2>1, <2>2 DEF CallSteps, Resting, Moving, Moved, Rolling
  <2>4. ViewAtCall'
    BY ONLY <2>1, <2>2 DEF ViewAtCall, After, Same
  <2>5. Generations'
    BY <2>1, <2>2 DEF PInv, Generations, Requesting, Holding, Same
  <2> QED BY <1>1, <2>3, <2>4, <2>5 DEF PInv
<1>4. CASE CommitActiveProfile
  <2>1. /\ \/ app = "committing" /\ app' = "done"
           \/ app = "finalizing" /\ app' = "recovered"
        /\ Begin("commit") /\ outcome' = "ok" /\ UNCHANGED <<loaded, fresh, made, disk, asked, value, publication>>
    BY <1>4 DEF CommitActiveProfile, BeginCommit, AppGoto, serverVars
  <2>2. /\ pc' = "commit" /\ Same /\ asked = NoRequest
        /\ app = "committing" => After
        /\ app = "finalizing" => ViewCurrent = loaded /\ ~publication
    BY <2>1, BeginFacts DEF PInv, CallSteps, ViewAtCall
  <2>3. CallSteps'
    BY ONLY <2>1, <2>2 DEF CallSteps, Resting
  <2>4. ViewAtCall'
    BY ONLY <2>1, <2>2 DEF ViewAtCall, After, Same
  <2>5. Generations'
    BY <2>1, <2>2 DEF PInv, Generations, Requesting, Holding, Same
  <2> QED BY <1>1, <2>3, <2>4, <2>5 DEF PInv
<1>5. CASE LoadProfile
  <2>1. /\ app = "idle" /\ Begin("free") /\ UNCHANGED <<fresh, made, disk, asked, value, publication>>
        /\ outcome' = outcome
        /\ \/ app' = "confirming" /\ loaded' = Recovered.current /\ Recovered.current \in disk
           \/ UNCHANGED <<app, loaded>>
    BY <1>5 DEF LoadProfile, ReadPointer, serverVars
  <2>2. /\ pc' = "free" /\ Same /\ asked = NoRequest /\ ~publication /\ pc = "free"
        /\ Recovered.current \in Values => Recovered.current = ViewCurrent
    BY <2>1, BeginFacts, RecoveryFacts DEF PInv, CallSteps, Legible
  <2>6. disk \subseteq Values
    BY DEF PInv, Generations
  <2>3. CallSteps'
    BY ONLY <2>1, <2>2 DEF CallSteps, Resting
  <2>4. ViewAtCall'
    BY ONLY <2>1, <2>2, <2>6 DEF ViewAtCall, Same
  <2>5. Generations'
    BY <2>1, <2>2 DEF PInv, Generations, Requesting, Holding, Same
  <2> QED BY <1>1, <2>3, <2>4, <2>5 DEF PInv
<1>6. CASE RestorePrevious
  <2>1. /\ app = "restoring" /\ app' = "restored" /\ Begin("rollback_previous") /\ ~publication
        /\ UNCHANGED <<loaded, fresh, made, disk, asked, value, publication>>
    BY <1>6 DEF RestorePrevious, BeginRollbackIfPrevious, AppGoto, serverVars
  <2>2. /\ pc' = "rollback_previous" /\ Same /\ asked = NoRequest /\ ViewCurrent = loaded
    BY <2>1, BeginFacts DEF PInv, CallSteps, ViewAtCall
  <2>3. CallSteps'
    BY ONLY <2>1, <2>2 DEF CallSteps, Resting
  <2>4. ViewAtCall'
    BY ONLY <2>1, <2>2 DEF ViewAtCall, Same
  <2>5. Generations'
    BY <2>1, <2>2 DEF PInv, Generations, Requesting, Holding, Same
  <2> QED BY <1>1, <2>3, <2>4, <2>5 DEF PInv
<1>7. CASE ListProfiles
  <2>1. /\ Begin("free")
        /\ UNCHANGED <<app, loaded, fresh, made, disk, asked, value, publication, outcome>>
    BY <1>7 DEF ListProfiles, ReadPointer, appVars, serverVars
  <2>2. /\ pc' = "free" /\ Same /\ pc = "free" /\ Subject' = Subject
    BY <2>1, BeginFacts DEF PInv, Subject
  <2>3. CallSteps' /\ ViewAtCall' /\ Generations'
    BY <2>1, <2>2 DEF PInv, CallSteps, ViewAtCall, Generations, Before, After, Same
  <2> QED BY <1>1, <2>3 DEF PInv
<1> QED BY <1>2, <1>3, <1>4, <1>5, <1>6, <1>7

\* One step of such an operation.
LEMMA PointerStepHolds ==
  ASSUME PInv, PointerStep
  PROVE  PInv'
<1>1. /\ UNCHANGED <<app, loaded, fresh, made, disk, asked, outages>> /\ [Next]_activeVars
  BY DEF PointerStep, appVars, serverVars, boundVars, Next
<1>2. IInv' /\ Subject' = Subject /\ IInv
  BY <1>1, StepHolds DEF PInv, Subject
<1>3. ASSUME UNCHANGED <<publication, value>>, Same,
             CheckPending \/ CreateNext \/ Install \/ DropNext \/ CheckPrevious \/ Reinstate
      PROVE  CallSteps' /\ ViewAtCall' /\ Generations'
  <2>1. CallSteps'
    BY <1>1, <1>2, <1>3 DEF PInv, CallSteps, Resting, Moving, Moved, Rolling, CheckPending, CreateNext,
       Install, DropNext, CheckPrevious, Reinstate, Goto, GoesOn, Fails
  <2>2. ViewAtCall'
    <3>1. /\ app \in {"published", "undone", "done", "recovered", "restored"}
          /\ app # "published" => pc \notin Moving \cup Moved
          /\ app = "published" => pc \in Moving \cup Moved \cup Rolling
          /\ publication => pc \in {"free", "rollback", "commit"}
          /\ pc \in {"drop_next", "reinstate", "publish", "create", "install", "rollback_previous"}
      BY <1>1, <1>3 DEF PInv, CallSteps, Resting, Moving, Moved, Rolling, CheckPending,
         CreateNext, Install, DropNext, CheckPrevious, Reinstate
    <3>2. outcome = "ok" /\ outcome' \in {"ok", "failed"}
      BY <1>2, <1>3, <3>1 DEF IInv, FilesAtStep, CheckPending, CreateNext, Install, DropNext, CheckPrevious,
         Reinstate, GoesOn, Fails
    <3>3. /\ pc = "install" => pc' \in Moved
          /\ pc # "install" => pc' \notin Moved
          /\ pc' \notin {"rollback_previous", "commit"}
          /\ pc' = "rollback" => pc = "rollback_previous"
          /\ pc = "rollback_previous" => app = "restored"
      BY <1>3, <3>1 DEF PInv, CallSteps, Moving, Moved, Rolling, CheckPending, CreateNext, Install, DropNext, CheckPrevious,
         Reinstate, Goto, GoesOn, Fails
    <3>4. ViewAtCall
      BY DEF PInv
    <3> QED BY ONLY <1>1, <1>3, <3>1, <3>2, <3>3, <3>4 DEF ViewAtCall, Before, After, Same, Moved, Moving, Rolling
  <2>3. Generations'
    BY <1>1, <1>3 DEF PInv, Generations, Same
  <2> QED BY <2>1, <2>2, <2>3
<1>4. CASE CheckPending \/ CreateNext \/ Install \/ DropNext \/ CheckPrevious \/ Reinstate
  <2>1. UNCHANGED <<publication, value>> /\ Same
    BY <1>2, <1>4, PointerViews DEF CheckPending, CreateNext, Install, DropNext, CheckPrevious, Reinstate
  <2> QED BY <1>1, <1>2, <1>3, <1>4, <2>1 DEF PInv
<1>5. CASE SyncDirectory
  <2>1. /\ pc = "sync" /\ Same /\ UNCHANGED <<value, next>>
        /\ \/ pc' = "free" /\ publication' = TRUE
           \/ pc' = "undo_current" /\ UNCHANGED publication
    BY <1>2, <1>5, PointerViews DEF SyncDirectory, Goto, GoesOn, Fails
  <2>2. app = "published" /\ After /\ ~publication /\ asked = NoRequest /\ value = fresh
    BY <2>1 DEF PInv, CallSteps, ViewAtCall, Resting, Moved, Rolling
  <2>3. CallSteps'
    BY ONLY <1>1, <2>1, <2>2 DEF CallSteps, Resting, Moved
  <2>4. ViewAtCall'
    BY ONLY <1>1, <2>1, <2>2 DEF ViewAtCall, After, Same, Moved
  <2>5. Generations'
    BY <1>1, <2>1 DEF PInv, Generations, Same
  <2> QED BY <1>1, <1>2, <2>3, <2>4, <2>5 DEF PInv
<1>6. CASE WriteNext
  <2>1. /\ pc = "write" /\ UNCHANGED <<value, publication>> /\ outcome = "ok"
        /\ \/ pc' = "set_aside" /\ next' = value /\ outcome' = outcome /\ Same
           \/ pc' = "free" /\ outcome' = "failed" /\ Same
           \/ /\ \/ pc' = "install" /\ next' = value /\ outcome' = outcome
                 \/ pc' = "free" /\ outcome' = "stuck"
              /\ ViewCurrent = None
              /\ ViewCurrent' = value /\ ViewPrevious' = None
    BY <1>2, <1>6, PointerViews DEF WriteNext, IInv, FilesAtStep
  <2>2. app = "published" /\ Before /\ ~publication /\ asked = NoRequest /\ value = fresh
    BY <2>1 DEF PInv, CallSteps, ViewAtCall, Resting, Moved, Rolling
  <2>3. CallSteps'
    BY ONLY <1>1, <2>1, <2>2 DEF CallSteps, Resting, Moved, Moving
  <2>4. ViewAtCall'
    BY ONLY <1>1, <2>1, <2>2 DEF ViewAtCall, Before, After, Same, Moved
  <2>5. Generations'
    BY <1>1, <2>1, <2>2 DEF PInv, Generations, Same, Holding
  <2> QED BY <1>1, <1>2, <2>3, <2>4, <2>5 DEF PInv
<1>7. CASE SetAside
  <2>1. /\ pc = "set_aside" /\ UNCHANGED <<value, publication, next>>
        /\ outcome = "ok" /\ outcome' # "stuck"
        /\ \/ pc' = "free" /\ Same
           \/ /\ pc' = "install"
              /\ ViewCurrent' = next /\ ViewPrevious' = ViewCurrent
    BY <1>2, <1>7, PointerViews DEF SetAside, IInv, FilesAtStep
  <2>2. /\ app = "published" /\ Before /\ ~publication /\ asked = NoRequest /\ value = fresh
        /\ next = value
    BY <2>1 DEF PInv, CallSteps, ViewAtCall, Resting, Moved, Rolling
  <2>3. CallSteps'
    BY ONLY <1>1, <2>1, <2>2 DEF CallSteps, Resting, Moved, Moving
  <2>4. ViewAtCall'
    BY ONLY <1>1, <2>1, <2>2 DEF ViewAtCall, Before, After, Same, Moved
  <2>5. Generations'
    BY <1>1, <2>1, <2>2 DEF PInv, Generations, Same, Holding
  <2> QED BY <1>1, <1>2, <2>3, <2>4, <2>5 DEF PInv
<1>8. CASE UndoNext \/ UndoCurrent
  <2>1. /\ pc \in {"undo_next", "undo_current"} /\ pc' \in {"restore", "free"}
        /\ UNCHANGED <<value, publication>> /\ IF outcome' = "stuck" THEN Same ELSE Back
    BY <1>2, <1>8, PointerViews DEF UndoNext, UndoCurrent, Goto
  <2>2. app = "published" /\ After /\ ~publication /\ asked = NoRequest /\ value = fresh
    BY <2>1 DEF PInv, CallSteps, ViewAtCall, Resting, Moved, Rolling
  <2>3. CallSteps'
    BY ONLY <1>1, <2>1, <2>2 DEF CallSteps, Resting, Moved, Moving
  <2>4. ViewAtCall'
    BY ONLY <1>1, <2>1, <2>2 DEF ViewAtCall, Before, After, Back, Same, Moved
  <2>5. Generations'
    BY <1>1, <2>1, <2>2 DEF PInv, Generations, Back, Same
  <2> QED BY <1>1, <1>2, <2>3, <2>4, <2>5 DEF PInv
<1>9. CASE RemoveCurrent
  <2>1. /\ pc = "rollback" /\ publication' = FALSE /\ outcome = "ok"
        /\ \/ pc' = "free" /\ outcome' = "stuck" /\ Same
           \/ pc' \in {"reinstate", "drop_next"} /\ outcome' = outcome /\ Back
    BY <1>2, <1>9, PointerViews DEF RemoveCurrent, IInv, FilesAtStep
  <2>2. /\ app \in {"published", "undone", "restored"} /\ asked = NoRequest
        /\ app # "restored" => After
    BY <2>1 DEF PInv, CallSteps, ViewAtCall, Resting, Moved, Moving
  <2>3. CallSteps'
    BY ONLY <1>1, <2>1, <2>2 DEF CallSteps, Resting, Moving, Moved, Rolling
  <2>4. ViewAtCall'
    BY ONLY <1>1, <2>1, <2>2 DEF ViewAtCall, Before, After, Back, Same, Moved
  <2>5. Generations'
    BY <1>1, <2>1, <2>2 DEF PInv, Generations, Back, Same
  <2> QED BY <1>1, <1>2, <2>3, <2>4, <2>5 DEF PInv
<1>10. CASE Commit
  <2>1. /\ pc = "commit" /\ pc' \in {"free", "drop_next"} /\ publication' = FALSE
        /\ ViewCurrent' = ViewCurrent /\ ViewPrevious' \in {None, ViewPrevious}
        /\ outcome' = "ok" => ViewPrevious' = None
    BY <1>2, <1>10, PointerViews DEF Commit, Same
  <2>2. /\ app \in {"done", "recovered"} /\ asked = NoRequest
        /\ app = "done" => ViewCurrent = fresh
        /\ app = "recovered" => ViewCurrent = loaded
    BY <2>1 DEF PInv, CallSteps, ViewAtCall, Resting, Moved, Moving, Rolling, After
  <2>3. CallSteps'
    BY ONLY <1>1, <2>1, <2>2 DEF CallSteps, Resting
  <2>4. ViewAtCall'
    BY ONLY <1>1, <2>1, <2>2 DEF ViewAtCall
  <2>5. Generations'
    BY <1>1, <2>1, <2>2 DEF PInv, Generations
  <2> QED BY <1>1, <1>2, <2>3, <2>4, <2>5 DEF PInv
<1>11. CASE Restore
  <2>1. /\ pc = "restore" /\ pc' = "free" /\ UNCHANGED <<value, publication>>
        /\ IF outcome = "stuck" /\ outcome' # "stuck" THEN Back ELSE Same
        /\ outcome' = "stuck" => outcome = "stuck"
    BY <1>2, <1>11, PointerViews DEF Restore, Goto
  <2>2. /\ app = "published" /\ ~publication /\ asked = NoRequest /\ value = fresh
        /\ IF outcome = "stuck" THEN After ELSE Before
    BY <2>1 DEF PInv, CallSteps, ViewAtCall, Resting, Moved, Moving, Rolling
  <2>3. CallSteps'
    BY ONLY <1>1, <2>1, <2>2 DEF CallSteps, Resting, Moved, Moving
  <2>4. ViewAtCall'
    BY ONLY <1>1, <2>1, <2>2 DEF ViewAtCall, Before, After, Back, Same, Moved
  <2>5. Generations'
    BY <1>1, <2>1, <2>2 DEF PInv, Generations, Back, Same
  <2> QED BY <1>1, <1>2, <2>3, <2>4, <2>5 DEF PInv
<1> QED BY <1>4, <1>5, <1>6, <1>7, <1>8, <1>9, <1>10, <1>11 DEF PointerStep

\* The application dies, and the pointer is found as it was left.
LEMMA AppDiesHolds ==
  ASSUME PInv, AppDies
  PROVE  PInv'
<1>1. /\ app' = "idle" /\ loaded' = None /\ fresh' = None /\ asked' = NoRequest
      /\ UNCHANGED <<made, disk, outages>>
      /\ Crash \/ (UNCHANGED activeVars /\ pc = "free" /\ ~publication)
  BY DEF AppDies, Returns
<1>2. IInv' /\ Same /\ pc' = "free" /\ publication' = FALSE
  <2>1. CASE Crash
    BY <2>1, StepHolds, PointerViews DEF PInv, Next, Crash, Goto
  <2>2. CASE UNCHANGED activeVars /\ pc = "free" /\ ~publication
    <3>1. publication \in BOOLEAN
      BY DEF PInv, IInv, TypeOK
    <3> QED BY <2>2, <3>1, LeftAlone, StepHoldsStill DEF PInv
  <2> QED BY <1>1, <2>1, <2>2
<1>3. CallSteps'
  BY ONLY <1>1, <1>2 DEF CallSteps, Resting
<1>4. ViewAtCall'
  BY ONLY <1>1 DEF ViewAtCall
<1>5. Generations'
  BY <1>1, <1>2 DEF PInv, Generations, Same, Requesting, Holding
<1> QED BY <1>1, <1>2, <1>3, <1>4, <1>5 DEF PInv

\* A failed enrollment removes its directory, in which nothing is active.
LEMMA RemoveHolds ==
  ASSUME PInv, RemoveProfileDirectory
  PROVE  /\ PInv' /\ ViewPrevious = None
         /\ ViewCurrent' = None /\ ViewPrevious' = None
<1>1. /\ app = "removing" /\ app' = "absent" /\ disk' = {}
      /\ current' = None /\ next' = None /\ previous' = None
      /\ UNCHANGED <<loaded, fresh, made, asked, pc, value, publication, outcome, cut, outages>>
  BY DEF RemoveProfileDirectory, AppGoto, serverVars, boundVars
<1>2. /\ pc = "free" /\ asked = NoRequest /\ ~publication /\ ViewPrevious = None /\ loaded = None
  BY <1>1 DEF PInv, CallSteps, ViewAtCall, Generations, Resting
<1>3. ViewCurrent' = None /\ ViewPrevious' = None
  BY <1>1, PointerValues DEF ViewCurrent, ViewPrevious, Staged, Legible, Exists
<1>5. IInv'
  BY <1>1, <1>2 DEF PInv, IInv, TypeOK, FilesAtStep, TornIsFirst, PublicationIsInstalled, Contents,
                    Clean
<1>6. CallSteps'
  BY ONLY <1>1, <1>2 DEF CallSteps, Resting
<1>7. ViewAtCall'
  BY ONLY <1>1, <1>2, <1>3 DEF ViewAtCall, Before
<1>8. Generations'
  BY <1>1, <1>2, <1>3 DEF PInv, Generations, Requesting, Holding
<1> QED BY <1>1, <1>2, <1>3, <1>5, <1>6, <1>7, <1>8 DEF PInv

\* Once dead, a profile stays so.
LEMMA DeadHolds ==
  ASSUME IInv, Dead, botched, [ProfileNext]_profileVars
  PROVE  IInv' /\ Dead' /\ botched' /\ Same
<1>0. /\ app \in {"connecting", "idle"} /\ asked = NoRequest /\ pc = "free" /\ ~publication
      /\ ViewCurrent \in Values \ disk
  BY DEF Dead
<1>1. ASSUME UNCHANGED <<activeVars, disk, asked, botched>>, app' \in {"connecting", "idle"}
      PROVE  IInv' /\ Dead' /\ botched' /\ Same
  <2>1. Same /\ UNCHANGED <<pc, publication>> /\ IInv'
    BY <1>1, LeftAlone, StepHoldsStill
  <2> QED BY <1>0, <1>1, <2>1 DEF Dead, Same
<1>2. ASSUME ReadPointer, UNCHANGED <<disk, asked, botched>>, app' \in {"connecting", "idle"}
      PROVE  IInv' /\ Dead' /\ botched' /\ Same
  <2>1. Begin("free") /\ [Next]_activeVars /\ publication' = publication
    BY <1>2 DEF ReadPointer, Next
  <2>2. Same /\ pc' = "free" /\ IInv'
    BY <2>1, BeginFacts, StepHolds
  <2> QED BY <1>0, <1>2, <2>1, <2>2 DEF Dead, Same
<1>3. CASE UNCHANGED profileVars
  <2>1. UNCHANGED <<activeVars, disk, asked, botched>> /\ app' = app
    BY ONLY <1>3 DEF profileVars, appVars, serverVars, boundVars
  <2> QED BY <1>0, <1>1, <2>1
<1>4. ASSUME NEW g \in Values, Retire(g) PROVE IInv' /\ Dead' /\ botched' /\ Same
  BY <1>0, <1>1, <1>4 DEF Retire, appVars, boundVars
<1>5. ASSUME NEW r \in late, LateRequest(r) PROVE IInv' /\ Dead' /\ botched' /\ Same
  BY <1>0, <1>1, <1>5 DEF LateRequest, appVars, boundVars
<1>6. CASE AdminClientForProfile
  BY <1>1, <1>6 DEF AdminClientForProfile, Returns, serverVars, boundVars
<1>7. CASE LoadProfile
  <2>1. Legible(Recovered.current) = ViewCurrent /\ ViewCurrent # None
    BY <1>0, RecoveryFacts
  <2>2. Recovered.current = ViewCurrent
    BY ONLY <2>1 DEF Legible
  <2>3. UNCHANGED <<app, loaded>>
    BY <1>0, <1>7, <2>2 DEF LoadProfile
  <2> QED BY <1>0, <1>2, <1>7, <2>3 DEF LoadProfile, serverVars, boundVars
<1>8. CASE ListProfiles
  BY <1>0, <1>2, <1>8 DEF ListProfiles, appVars, serverVars, boundVars
<1>9. CASE AppDies
  <2>1. /\ UNCHANGED <<activeVars, disk, botched>> /\ app' = "idle" /\ asked' = NoRequest
    BY <1>0, <1>9 DEF AppDies, Crash, Returns
  <2> QED BY <1>0, <1>1, <2>1
<1>10. CASE PointerStep
  BY <1>0, <1>10 DEF PointerStep, CheckPending, CreateNext, WriteNext, SetAside, Install, SyncDirectory,
     UndoNext, UndoCurrent, Restore, Commit, DropNext, CheckPrevious, RemoveCurrent, Reinstate
<1>11. ~(\E g \in Values : EnrollAdmin(g)) /\ ~SendRequest /\ ~Answered /\ ~Lost
  BY <1>0 DEF EnrollAdmin, SendRequest, Answered, Lost, Asks
<1>12. /\ ~PersistProfileGeneration /\ ~PublishActiveProfile /\ ~Published /\ ~RollbackPublication
       /\ ~Undone /\ ~CleanupProfileGeneration /\ ~RemoveProfileDirectory /\ ~CommitActiveProfile
       /\ ~Replaced /\ ~RestorePrevious /\ ~Restored /\ ~RenewalDue
  BY <1>0 DEF PersistProfileGeneration, PublishActiveProfile, Published, RollbackPublication, Undone,
     CleanupProfileGeneration, RemoveProfileDirectory, CommitActiveProfile, Replaced, RestorePrevious,
     Restored, RenewalDue
<1> QED BY <1>3, <1>4, <1>5, <1>6, <1>7, <1>8, <1>9, <1>10, <1>11, <1>12 DEF ProfileNext

\* Only the clean-up can be what kills a profile.
LEMMA BotchedFrom ==
  ASSUME ~botched, [ProfileNext]_profileVars, ~CleanupProfileGeneration
  PROVE  ~botched'
  BY DEF ProfileNext, profileVars, Retire, EnrollAdmin, LateRequest, SendRequest, Answered, Lost,
         PersistProfileGeneration, PublishActiveProfile, Published, RollbackPublication, Undone,
         RemoveProfileDirectory, CommitActiveProfile, Replaced, LoadProfile, RestorePrevious, Restored,
         RenewalDue, AdminClientForProfile, ListProfiles, PointerStep, AppDies, boundVars

\* Every other step of a profile keeps its invariant.
LEMMA LivingStepHolds ==
  ASSUME PInv, [ProfileNext]_profileVars, ~CleanupProfileGeneration
  PROVE  PInv'
<1>1. CASE UNCHANGED profileVars
  BY <1>1, Quiet DEF profileVars, serverVars, boundVars
<1>2. ASSUME NEW g \in Values, Retire(g) PROVE PInv'
  BY <1>2, Quiet DEF Retire, boundVars
<1>3. ASSUME NEW r \in late, LateRequest(r) PROVE PInv'
  BY <1>3, Quiet DEF LateRequest, boundVars
<1>4. CASE Answered
  <2>1. /\ asked # NoRequest /\ asked' = NoRequest /\ UNCHANGED <<activeVars, disk>>
        /\ AppGoto(AfterSuccess) \/ AppGoto(AfterFailure)
        /\ outages' \in Nat
    BY <1>4 DEF Answered, PInv, boundVars
  <2> QED BY <2>1, AnswerHolds
<1>5. CASE Lost
  <2>1. /\ asked # NoRequest /\ asked' = NoRequest /\ UNCHANGED <<activeVars, disk>>
        /\ AppGoto(AfterFailure) /\ outages' \in Nat
    BY <1>5 DEF Lost, PInv
  <2> QED BY <2>1, AnswerHolds
<1> QED BY <1>1, <1>2, <1>3, <1>4, <1>5, EnrollAdminHolds, SendRequestHolds, PersistHolds, PublishedHolds,
           UndoneHolds, CallEndsHolds, RenewalDueHolds, BeginHolds, PointerStepHolds, AppDiesHolds,
           RemoveHolds DEF ProfileNext

\* Every step of a profile keeps its invariant.
LEMMA ProfileStepHolds ==
  ASSUME WInv, [ProfileNext]_profileVars
  PROVE  WInv'
<1>1. CASE botched
  BY <1>1, DeadHolds DEF WInv
<1>2. CASE ~botched /\ CleanupProfileGeneration
  BY <1>2, CleanupHolds DEF WInv
<1>3. CASE ~botched /\ ~CleanupProfileGeneration
  BY <1>3, LivingStepHolds, BotchedFrom DEF WInv
<1> QED BY <1>1, <1>2, <1>3

\* A profile starts without a pointer.
LEMMA ProfileInitHolds == ProfileInit => PInv /\ ~botched
<1> SUFFICES ASSUME ProfileInit PROVE PInv /\ ~botched
  OBVIOUS
<1>1. /\ current = None /\ next = None /\ previous = None /\ pc = "free" /\ publication = FALSE
      /\ app = "absent" /\ loaded = None /\ fresh = None /\ made = {} /\ disk = {}
      /\ asked = NoRequest /\ outages = 0 /\ ~botched /\ Init
  BY DEF ProfileInit, Init
<1>2. ViewCurrent = None /\ ViewPrevious = None
  BY ONLY <1>1, PointerValues DEF ViewCurrent, ViewPrevious, Staged, Legible, Exists
<1>3. CallSteps /\ ViewAtCall
  BY ONLY <1>1, <1>2 DEF CallSteps, ViewAtCall, Resting, Before
<1>4. Generations
  BY ONLY <1>1, <1>2 DEF Generations, Requesting, Holding
<1> QED BY <1>1, <1>3, <1>4, InitHolds DEF PInv

\* The invariant of a profile holds in every reachable state.
THEOREM ProfileInvariant ==
  ProfileSpec => []WInv
<1>1. ProfileInit => WInv
  BY ProfileInitHolds DEF WInv
<1>2. WInv /\ [ProfileNext]_profileVars => WInv'
  BY ProfileStepHolds
<1> QED BY <1>1, <1>2, PTL DEF ProfileSpec

\* The pointer of a profile, and what it falls back to, name generations whose
\* files are there, wherever an enrollment or a renewal is cut short or fails
\* (persist_profile_generation before publish, rollback before cleanup), until
\* a generation is deleted whose pointer could not be withdrawn.
THEOREM ProfilePointerIsSound ==
  ProfileSpec => []ProfileNeverDangles
<1>1. WInv => ProfileNeverDangles
  BY DEF WInv, PInv, Generations, ProfileNeverDangles
<1> QED BY <1>1, ProfileInvariant, PTL

\* As the application uses it, the pointer is atomic too: the directory of a
\* failed enrollment goes as a first generation that is unpublished.
THEOREM ProfilePointerIsAtomic ==
  ProfileSpec => ImplementsAtomicPointer
<1>1. ProfileInit => Pointer!Init
  BY InitRefines DEF ProfileInit
<1>2. WInv /\ [ProfileNext]_profileVars => [Pointer!Next]_<<ViewCurrent, ViewPrevious>>
  <2> SUFFICES ASSUME WInv, [ProfileNext]_profileVars
               PROVE  [Pointer!Next]_<<ViewCurrent, ViewPrevious>>
    OBVIOUS
  <2>1. CASE ~botched /\ RemoveProfileDirectory
    BY <2>1, RemoveHolds DEF WInv, Pointer!Next, Pointer!Unpublish
  <2>2. CASE ~botched /\ [Next]_activeVars
    BY <2>2, StepRefines DEF WInv, PInv
  <2>3. CASE botched
    BY <2>3, DeadHolds DEF WInv, Same
  <2> QED BY <2>1, <2>2, <2>3, PointerMoves DEF WInv
<1> QED BY <1>1, <1>2, ProfileInvariant, PTL
        DEF ProfileSpec, ImplementsAtomicPointer, Pointer!Spec, Pointer!pointerVars
----------------------------------------------------------------------------
(***************************************************************************)
(* The certificates of a profile, as long as no call of a living           *)
(* application is lost.                                                    *)
(***************************************************************************)
AllStatuses == Confirmed \cup {"unused", "pending", "swept"}
Unconfirmed == {"unused", "pending", "swept"}
SInv == Statuses /\ LateRequests /\ Reachable

\* What time does to a certificate.
Ages(h) ==
    /\ status[h] \in Confirmed => status'[h] \in Confirmed
    /\ status[h] = "swept" => status'[h] = "swept"
    /\ status[h] = "pending" => status'[h] \in {"pending", "swept"}
    /\ status[h] = "unused" => status'[h] = "unused"
    /\ status'[h] = "active" => status[h] = "active"

CallStays == UNCHANGED <<app, pc, loaded, fresh, made, disk>> /\ Same

\* The pointer falls back only from a generation.
LEMMA FallsBack ==
  ASSUME PInv
  PROVE  /\ ViewPrevious # None => ViewCurrent # None
         /\ ViewCurrent # None => ViewCurrent \in disk /\ ViewCurrent \in Values
         /\ ViewPrevious # None => ViewPrevious \in disk /\ ViewPrevious \in Values
<1>1. ViewPrevious # None => ViewCurrent # None
  BY DEF PInv, IInv, TornIsFirst, ViewPrevious, ViewCurrent, Staged, Legible, Exists
<1> QED BY <1>1 DEF PInv, Generations

\* Certificates age.
LEMMA AgeHolds ==
  ASSUME PInv, SInv, CallStays, status' \in [Values -> AllStatuses], \A h \in Values : Ages(h),
         late' \subseteq late
  PROVE  SInv'
<1>1. fresh \in Values \cup {None} /\ loaded \in Values \cup {None} /\ disk \subseteq Values /\ made \subseteq Values
      /\ (app \in Requesting \cup Holding \cup {"removing"} => fresh \in Values)
      /\ (app \in {"restoring", "restored"} => loaded \in Values)
  BY DEF PInv, Generations
<1>2. Statuses'
  BY <1>1 DEF SInv, Statuses, CallStays, AllStatuses, Confirmed, Ages, Requesting, Holding
<1>3. LateRequests'
  BY <1>1 DEF SInv, Statuses, LateRequests, CallStays, Same, AllStatuses, Confirmed, Ages
<1>4. Reachable'
  BY FallsBack DEF SInv, Statuses, Reachable, CallStays, Same, AllStatuses, Confirmed, Ages
<1> QED BY <1>2, <1>3, <1>4 DEF SInv

\* The server issues the certificate of a generation nobody waits for.
LEMMA IssueLateHolds ==
  ASSUME PInv, SInv, CallStays, NEW c \in made \ disk, c # fresh, status[c] \in Unconfirmed,
         status' = [status EXCEPT ![c] = "pending"], late' \subseteq late
  PROVE  SInv'
<1>1. fresh \in Values \cup {None} /\ loaded \in Values \cup {None} /\ disk \subseteq Values /\ made \subseteq Values
      /\ (app \in Requesting \cup Holding \cup {"removing"} => fresh \in Values)
      /\ (app \in {"restoring", "restored"} => loaded \in Values)
  BY DEF PInv, Generations
<1>2. status' \in [Values -> AllStatuses] /\ status'[c] = "pending"
      /\ \A h \in Values : h # c => status'[h] = status[h]
  BY <1>1 DEF SInv, Statuses, AllStatuses
<1>3. /\ app = "restoring" => loaded # c
      /\ app = "restored" /\ pc \in {"rollback_previous", "rollback"} => loaded # c
  BY <1>1, FallsBack DEF PInv, ViewAtCall
<1>4. Statuses'
  BY <1>1, <1>2, <1>3 DEF SInv, Statuses, CallStays, AllStatuses, Confirmed, Unconfirmed, Requesting, Holding
<1>5. LateRequests'
  BY <1>1, <1>2 DEF SInv, LateRequests, CallStays, Same
<1>6. Reachable'
  BY <1>2, FallsBack DEF SInv, Reachable, CallStays, Same
<1> QED BY <1>4, <1>5, <1>6 DEF SInv

\* What the activation of a pending certificate does.
Activates(c) ==
    status' = [g \in Values |-> CASE g = c -> "active"
                                  [] g # c /\ status[g] = "active" -> "retiring"
                                  [] OTHER -> status[g]]

\* It can only be the one the profile points to.
LEMMA ActivationFacts ==
  ASSUME PInv, SInv, NEW c \in disk, ViewCurrent = c, status[c] = "pending", Activates(c),
         UNCHANGED <<disk, made>>, Same
  PROVE  /\ status' \in [Values -> AllStatuses] /\ status'[c] = "active"
         /\ \A h \in Values : h # c => Ages(h)
         /\ Reachable'
         /\ (/\ late' \subseteq late /\ \A r \in late : r.gen # fresh'
             /\ loaded' = None /\ app' # "idle" => late' = {}) => LateRequests'
<1>1. disk \subseteq Values /\ made \subseteq Values /\ c \in Values
  BY DEF PInv, Generations
<1>2. /\ status' \in [Values -> AllStatuses] /\ status'[c] = "active"
      /\ \A h \in Values : h # c => status'[h] # "active"
      /\ \A h \in Values : h # c => status'[h] = IF status[h] = "active" THEN "retiring" ELSE status[h]
  BY <1>1 DEF Activates, SInv, Statuses, AllStatuses, Confirmed
<1>3. \A h \in Values : h # c => Ages(h)
  BY <1>2 DEF Ages, Confirmed, AllStatuses
<1>4. Reachable'
  BY <1>1, <1>2 DEF Reachable, Same
<1>5. ASSUME late' \subseteq late, \A r \in late : r.gen # fresh',
             loaded' = None /\ app' # "idle" => late' = {}
      PROVE  LateRequests'
  BY <1>1, <1>2, <1>5 DEF SInv, LateRequests, Same
<1> QED BY <1>2, <1>3, <1>4, <1>5

\* Time passes.
LEMMA RetireKeeps ==
  ASSUME PInv, SInv, NEW g \in Values, Retire(g)
  PROVE  SInv'
<1>1. /\ CallStays /\ late' = late
      /\ \/ status[g] = "retiring" /\ status' = [status EXCEPT ![g] = "retired"]
         \/ status[g] = "pending" /\ status' = [status EXCEPT ![g] = "swept"]
  BY LeftAlone DEF Retire, CallStays, appVars
<1>2. status' \in [Values -> AllStatuses] /\ \A h \in Values : Ages(h)
  BY <1>1 DEF SInv, Statuses, AllStatuses, Confirmed, Ages
<1> QED BY <1>1, <1>2, AgeHolds

\* A request arrives late.
LEMMA LateRequestKeeps ==
  ASSUME PInv, SInv, NEW r \in late, LateRequest(r)
  PROVE  SInv'
<1>1. /\ CallStays /\ late' \subseteq late
      /\ IF Accepts(r) THEN Effect(r) ELSE status' = status
  BY LeftAlone DEF LateRequest, CallStays, appVars
<1>2. /\ r.gen \in made /\ r.gen # fresh /\ made \subseteq Values
      /\ r.op \in {"enroll", "renew"} =>
             r.gen \notin disk /\ status[r.gen] \in Unconfirmed
      /\ r.op \notin {"enroll", "renew"} =>
             /\ r.op = "activate" /\ r.gen \in disk
             /\ status[r.gen] = "pending" => ViewCurrent = r.gen
  BY DEF SInv, LateRequests, Unconfirmed, PInv, Generations
<1>3. CASE status' = status
  <2>1. status' \in [Values -> AllStatuses] /\ \A h \in Values : Ages(h)
    BY <1>3 DEF SInv, Statuses, AllStatuses, Confirmed, Ages
  <2> QED BY <1>1, <2>1, AgeHolds
<1>4. CASE Effect(r) /\ r.op \in {"enroll", "renew"}
  BY <1>1, <1>2, <1>4, IssueLateHolds DEF Effect
<1>5. CASE Effect(r) /\ r.op = "activate" /\ status[r.gen] = "pending"
  <2> DEFINE c == r.gen
  <2>1. /\ Activates(c) /\ c \in disk /\ ViewCurrent = c /\ status[c] = "pending" /\ c # fresh
        /\ UNCHANGED <<disk, made>> /\ Same
    BY <1>1, <1>2, <1>5 DEF Effect, Activates, CallStays
  <2> HIDE DEF c
  <2>2. /\ late' \subseteq late /\ \A q \in late : q.gen # fresh'
        /\ loaded' = None /\ app' # "idle" => late' = {}
    BY <1>1 DEF SInv, LateRequests, CallStays
  <2>3. /\ status' \in [Values -> AllStatuses] /\ status'[c] = "active"
        /\ \A h \in Values : h # c => Ages(h)
        /\ Reachable' /\ LateRequests'
    BY <2>1, <2>2, ActivationFacts
  <2>4. Statuses'
    <3>1. fresh \in Values \cup {None} /\ loaded \in Values \cup {None} /\ disk \subseteq Values
          /\ (app \in Requesting \cup Holding \cup {"removing"} => fresh \in Values)
          /\ (app \in {"restoring", "restored"} => loaded \in Values)
      BY DEF PInv, Generations
    <3> QED BY <1>1, <2>1, <2>3, <3>1
            DEF SInv, Statuses, CallStays, AllStatuses, Confirmed, Ages, Requesting, Holding
  <2> QED BY <2>3, <2>4 DEF SInv
<1> QED BY <1>1, <1>2, <1>3, <1>4, <1>5 DEF Effect

\* The call gets its answer.
LEMMA AnsweredKeeps ==
  ASSUME PInv, SInv, Answered
  PROVE  SInv'
<1>1. /\ asked # NoRequest /\ Same /\ UNCHANGED <<pc, loaded, fresh, made, disk, late>>
      /\ \/ Accepts(asked) /\ Effect(asked) /\ app' = AfterSuccess
         \/ ~Accepts(asked) /\ status' = status /\ app' = AfterFailure
  BY LeftAlone DEF Answered, AppGoto
<1>2. /\ app \in {"enrolling", "renewing", "activating", "confirming"}
      /\ asked = Request(Asks[app], Subject, loaded) /\ pc = "free"
  BY <1>1 DEF PInv, CallSteps, Resting
<1>3. /\ fresh \in Values \cup {None} /\ loaded \in Values \cup {None} /\ disk \subseteq Values
      /\ made \subseteq Values /\ \A r \in late : r.gen # fresh'
  BY <1>1 DEF PInv, Generations, SInv, LateRequests
<1>4. CASE app \in {"enrolling", "renewing"}
  <2>1. /\ asked.op \in {"enroll", "renew"} /\ asked.gen = fresh /\ fresh \in made \ disk /\ fresh # loaded
        /\ app = "renewing" => loaded # None
    BY <1>2, <1>4 DEF Request, Asks, Subject, PInv, Generations, Requesting
  <2>2. CASE Effect(asked) /\ app' = AfterSuccess
    <3>1. app' = "persisting" /\ status' = [status EXCEPT ![fresh] = "pending"]
      BY <1>4, <2>1, <2>2 DEF Effect, AfterSuccess
    <3>2. /\ status' \in [Values -> AllStatuses] /\ status'[fresh] = "pending"
          /\ \A h \in Values : h # fresh => status'[h] = status[h]
      BY <1>3, <2>1, <3>1 DEF SInv, Statuses, AllStatuses
    <3>3. Statuses'
      BY <1>1, <1>3, <1>4, <2>1, <3>1, <3>2 DEF SInv, Statuses, AllStatuses, Requesting, Holding
    <3>4. LateRequests'
      BY <1>1, <1>3, <1>4, <2>1, <3>1, <3>2 DEF SInv, LateRequests, Same
    <3>5. Reachable'
      BY <1>1, <2>1, <3>2, FallsBack DEF SInv, Reachable, Same
    <3> QED BY <3>3, <3>4, <3>5 DEF SInv
  <2>3. CASE status' = status /\ app' = AfterFailure
    <3>1. \/ app = "enrolling" /\ app' = "removing"
          \/ app = "renewing" /\ app' = "connecting"
      BY <1>4, <2>3 DEF AfterFailure
    <3>2. Statuses'
      BY <1>1, <2>1, <2>3, <3>1 DEF SInv, Statuses, Requesting, Holding
    <3>3. LateRequests' /\ Reachable'
      BY <1>1, <2>3, <3>1 DEF SInv, LateRequests, Reachable, Same
    <3> QED BY <3>2, <3>3 DEF SInv
  <2> QED BY <1>1, <2>2, <2>3
<1>5. CASE app \in {"activating", "confirming"}
  <2> DEFINE c == ViewCurrent
  <2>1. /\ asked.op = "activate" /\ asked.gen = c /\ c \in disk /\ c \in Values /\ c # None
        /\ app = "activating" => c = fresh /\ status[c] \in {"pending", "swept"} /\ fresh # loaded
        /\ app = "confirming" => c = loaded /\ loaded # None
    <3>1. CASE app = "activating"
      <4>1. asked.op = "activate" /\ asked.gen = fresh
        BY <1>2, <3>1 DEF Request, Asks, Subject
      <4>2. After /\ fresh \in disk /\ fresh # loaded
        BY <3>1 DEF PInv, ViewAtCall, Generations, Holding
      <4>3. status[fresh] \in {"pending", "swept"}
        BY <3>1 DEF SInv, Statuses
      <4> QED BY <1>3, <3>1, <4>1, <4>2, <4>3, PointerValues DEF After
    <3>2. CASE app = "confirming"
      <4>1. asked.op = "activate" /\ asked.gen = loaded
        BY <1>2, <3>2 DEF Request, Asks, Subject
      <4>2. ViewCurrent = loaded /\ loaded # None
        BY <3>2 DEF PInv, ViewAtCall, Generations
      <4> QED BY <3>2, <4>1, <4>2, FallsBack
    <3> QED BY <1>5, <3>1, <3>2
  <2>2. loaded' = None /\ app' # "idle" => late' = {}
    BY <1>1, <1>5 DEF SInv, LateRequests
  <2> HIDE DEF c
  <2>3. CASE Accepts(asked) /\ Effect(asked) /\ app' = AfterSuccess /\ status[c] = "pending"
    <3>1. /\ \/ app = "activating" /\ app' = "committing"
             \/ app = "confirming" /\ app' = "finalizing"
          /\ Activates(c)
      BY <1>5, <2>1, <2>3 DEF AfterSuccess, Effect, Activates
    <3>2. /\ status' \in [Values -> AllStatuses] /\ status'[c] = "active"
          /\ \A h \in Values : h # c => Ages(h)
          /\ Reachable' /\ LateRequests'
      BY <1>1, <1>3, <2>1, <2>2, <2>3, <3>1, ActivationFacts DEF c
    <3>3. Statuses'
      BY <1>1, <1>3, <2>1, <3>1, <3>2 DEF SInv, Statuses, AllStatuses, Confirmed, Ages, Requesting, Holding
    <3> QED BY <3>2, <3>3 DEF SInv
  <2>4. CASE Accepts(asked) /\ Effect(asked) /\ app' = AfterSuccess /\ status[c] # "pending"
    <3>1. status[c] \in Confirmed /\ status' = status /\ app = "confirming" /\ app' = "finalizing"
      BY <1>5, <2>1, <2>4 DEF AfterSuccess, Accepts, Effect, Confirmed
    <3>2. Statuses'
      BY <1>1, <2>1, <3>1 DEF SInv, Statuses, Requesting, Holding
    <3>3. LateRequests' /\ Reachable'
      BY <1>1, <2>2, <3>1 DEF SInv, LateRequests, Reachable, Same
    <3> QED BY <3>2, <3>3 DEF SInv
  <2>5. CASE ~Accepts(asked) /\ status' = status /\ app' = AfterFailure
    <3>1. /\ \/ app = "activating" /\ app' = "undoing"
             \/ app = "confirming" /\ app' = "restoring"
          /\ status[c] \notin {"pending", "active", "retiring", "retired"}
      BY <1>5, <2>1, <2>5 DEF AfterFailure, Accepts
    <3>2. status[c] = "swept"
      BY <2>1, <3>1 DEF SInv, Statuses, Confirmed
    <3>3. Statuses'
      BY <1>1, <2>1, <2>5, <3>1, <3>2 DEF SInv, Statuses, Requesting, Holding
    <3>4. LateRequests' /\ Reachable'
      BY <1>1, <2>2, <2>5 DEF SInv, LateRequests, Reachable, Same
    <3> QED BY <3>3, <3>4 DEF SInv
  <2> QED BY <1>1, <2>3, <2>4, <2>5
<1> QED BY <1>2, <1>4, <1>5

\* The call goes on; the pointer and the server stay as they are.
LEMMA CarriesOn ==
  ASSUME PInv, SInv, Same, UNCHANGED <<status, late>>, Statuses',
         made \subseteq made', fresh' = fresh \/ fresh' \notin made,
         loaded' = None /\ app' # "idle" => loaded = None /\ app # "idle",
         \/ disk' = disk
         \/ disk' \in {disk \cup {fresh}, disk \ {fresh}} /\ status[fresh] \in {"pending", "swept"}
  PROVE  SInv'
<1>1. \A r \in late : r.gen # fresh /\ r.gen \in made
  BY DEF SInv, LateRequests
<1>2. LateRequests'
  BY <1>1 DEF SInv, LateRequests, Same
<1>3. Reachable'
  BY DEF SInv, Reachable, Same
<1> QED BY <1>2, <1>3 DEF SInv

\* Steps of a call between its operations on the pointer.
LEMMA CallKeeps ==
  ASSUME PInv, SInv,
         \/ \E g \in Values : EnrollAdmin(g)
         \/ SendRequest \/ PersistProfileGeneration \/ Published \/ Undone \/ CleanupProfileGeneration
         \/ Replaced \/ Restored \/ RenewalDue \/ AdminClientForProfile
  PROVE  SInv'
<1>0. /\ None \notin made /\ loaded \in Values \cup {None}
      /\ app \in {"absent", "enrolling", "removing"} => loaded = None
      /\ app \in {"renewing", "connecting", "recovered", "restored"} => loaded # None
      /\ app \in Holding => fresh # None /\ fresh # loaded
  BY PointerValues DEF PInv, Generations
<1>1. UNCHANGED <<status, late, activeVars>>
  BY DEF EnrollAdmin, SendRequest, PersistProfileGeneration, Published, Undone, CleanupProfileGeneration,
         Replaced, Restored, RenewalDue, AdminClientForProfile, serverVars
<1>2. Same /\ pc' = pc
  BY <1>1, LeftAlone
<1> USE DEF Requesting, Holding
<1>3. ASSUME NEW g \in Values, EnrollAdmin(g) PROVE SInv'
  <2>1. /\ app = "absent" /\ app' = "enrolling" /\ fresh' = g /\ loaded' = loaded /\ made = {}
        /\ made' = {g} /\ disk' = disk
    BY <1>3 DEF EnrollAdmin, Make
  <2>2. Statuses'
    BY <1>0, <1>1, <2>1 DEF SInv, Statuses
  <2> QED BY <1>0, <1>1, <1>2, <2>1, <2>2, CarriesOn
<1>4. CASE SendRequest
  <2>1. UNCHANGED <<app, loaded, fresh, made, disk>>
    BY <1>4 DEF SendRequest, appVars
  <2>2. Statuses'
    BY <1>1, <1>2, <2>1 DEF SInv, Statuses
  <2> QED BY <1>1, <1>2, <2>1, <2>2, CarriesOn
<1>5. CASE PersistProfileGeneration
  <2>1. /\ app = "persisting" /\ UNCHANGED <<loaded, fresh, made>>
        /\ \/ disk' = disk \cup {fresh} /\ app' = "publishing"
           \/ disk' = disk /\ app' = IF loaded = None THEN "removing" ELSE "connecting"
    BY <1>5 DEF PersistProfileGeneration, AppGoto
  <2>2. status[fresh] \in {"pending", "swept"}
    BY <2>1 DEF SInv, Statuses
  <2>3. Statuses'
    BY <1>1, <2>1, <2>2 DEF SInv, Statuses
  <2> QED BY <1>1, <1>2, <2>1, <2>2, <2>3, CarriesOn
<1>6. CASE Published
  <2>1. /\ app = "published" /\ UNCHANGED <<loaded, fresh, made, disk>>
        /\ app' \in {"activating", "unsecured", "cleaning"}
    BY <1>6 DEF Published, AppGoto
  <2>2. Statuses'
    BY <1>1, <2>1 DEF SInv, Statuses
  <2> QED BY <1>1, <1>2, <2>1, <2>2, CarriesOn
<1>7. CASE CleanupProfileGeneration
  <2>1. /\ app = "cleaning" /\ UNCHANGED <<loaded, fresh, made>>
        /\ \/ loaded = None /\ app' = "removing" /\ disk' = disk
           \/ loaded # None /\ app' = "connecting" /\ disk' = disk \ {fresh}
    BY <1>7 DEF CleanupProfileGeneration, AppGoto
  <2>2. status[fresh] \in {"pending", "swept"}
    BY <2>1 DEF SInv, Statuses
  <2>3. Statuses'
    BY <1>1, <2>1 DEF SInv, Statuses
  <2> QED BY <1>1, <1>2, <2>1, <2>2, <2>3, CarriesOn
<1>8. CASE Replaced \/ Undone
  <2>1. /\ UNCHANGED <<made, disk>>
        /\ \/ app' = "idle" /\ loaded' = None /\ fresh' = None
           \/ app = "done" /\ app' = "connecting" /\ loaded' = fresh /\ fresh' = None
           \/ /\ app \in {"done", "undone"} /\ app' = "connecting" /\ loaded' = loaded /\ fresh' = fresh
              /\ loaded # None
           \/ app = "undone" /\ app' = "cleaning" /\ loaded' = loaded /\ fresh' = fresh
    BY <1>8 DEF Replaced, Undone, Returns, AppGoto
  <2>2. Statuses'
    BY <1>0, <1>1, <2>1 DEF SInv, Statuses
  <2> QED BY <1>0, <1>1, <1>2, <2>1, <2>2, CarriesOn
<1>9. CASE Restored \/ AdminClientForProfile
  <2>1. /\ app' = "idle" /\ loaded' = None /\ fresh' \in {fresh, None} /\ UNCHANGED <<made, disk>>
    BY <1>9 DEF Restored, AdminClientForProfile, Returns
  <2>2. Statuses'
    BY <1>0, <1>1, <2>1 DEF SInv, Statuses
  <2> QED BY <1>0, <1>1, <1>2, <2>1, <2>2, CarriesOn
<1>10. CASE RenewalDue
  <2>1. /\ app = "recovered" /\ disk' = disk
        /\ \/ app' = "idle" /\ loaded' = None /\ fresh' = None /\ made' = made
           \/ app' = "connecting" /\ UNCHANGED <<loaded, fresh, made>>
           \/ /\ loaded' = loaded
              /\ \E g \in Values : g \notin made /\ made' = made \cup {g} /\ fresh' = g /\ app' = "renewing"
    BY <1>10 DEF RenewalDue, AppGoto, Returns, Make
  <2>2. Statuses'
    BY <1>0, <1>1, <2>1 DEF SInv, Statuses
  <2> QED BY <1>0, <1>1, <1>2, <2>1, <2>2, CarriesOn
<1> QED BY <1>3, <1>4, <1>5, <1>6, <1>7, <1>8, <1>9, <1>10


\* An operation on the pointer begins.
LEMMA BeginKeeps ==
  ASSUME PInv, SInv,
         \/ PublishActiveProfile \/ RollbackPublication \/ CommitActiveProfile
         \/ LoadProfile \/ RestorePrevious \/ ListProfiles
  PROVE  SInv'
<1>1. UNCHANGED <<status, late, disk, made, fresh>>
  BY DEF PublishActiveProfile, RollbackPublication, CommitActiveProfile, LoadProfile,
         RestorePrevious, ListProfiles, serverVars, AppGoto, appVars
<1>2. ASSUME NEW s, Begin(s), Statuses',
             loaded' = None /\ app' # "idle" => loaded = None /\ app # "idle"
      PROVE  SInv'
  BY <1>1, <1>2, BeginFacts, CarriesOn DEF PInv
<1> USE DEF Requesting, Holding
<1>3. CASE PublishActiveProfile
  <2>1. app = "publishing" /\ app' = "published" /\ loaded' = loaded /\ Begin("publish")
    BY <1>3 DEF PublishActiveProfile, AppGoto, BeginPublish
  <2>2. Statuses'
    BY <1>1, <2>1 DEF SInv, Statuses
  <2> QED BY <1>2, <2>1, <2>2
<1>4. CASE RollbackPublication
  <2>1. /\ \/ app = "undoing" /\ app' = "undone"
           \/ app = "unsecured" /\ app' = "published"
        /\ loaded' = loaded /\ Begin("rollback")
    BY <1>4 DEF RollbackPublication, AppGoto, BeginRollback
  <2>2. Statuses'
    BY <1>1, <2>1 DEF SInv, Statuses
  <2> QED BY <1>2, <2>1, <2>2
<1>5. CASE CommitActiveProfile
  <2>1. /\ \/ app = "committing" /\ app' = "done"
           \/ app = "finalizing" /\ app' = "recovered"
        /\ loaded' = loaded /\ Begin("commit")
    BY <1>5 DEF CommitActiveProfile, AppGoto, BeginCommit
  <2>2. Statuses'
    BY <1>1, <2>1 DEF SInv, Statuses
  <2> QED BY <1>2, <2>1, <2>2
<1>6. CASE LoadProfile
  <2>1. /\ app = "idle" /\ Begin("free")
        /\ \/ app' = "confirming" /\ loaded' = Recovered.current /\ Recovered.current \in disk
           \/ UNCHANGED <<app, loaded>>
    BY <1>6 DEF LoadProfile, ReadPointer
  <2>2. None \notin disk
    BY PointerValues DEF PInv, Generations
  <2>3. Statuses'
    BY <1>1, <2>1 DEF SInv, Statuses
  <2> QED BY <1>2, <2>1, <2>2, <2>3
<1>7. CASE RestorePrevious
  <2>1. app = "restoring" /\ app' = "restored" /\ loaded' = loaded /\ Begin("rollback_previous")
    BY <1>7 DEF RestorePrevious, AppGoto, BeginRollbackIfPrevious
  <2>2. Statuses'
    BY <1>1, <2>1 DEF SInv, Statuses
  <2> QED BY <1>2, <2>1, <2>2
<1>8. CASE ListProfiles
  <2>1. UNCHANGED <<app, loaded>> /\ Begin("free") /\ pc' = "free"
    BY <1>8 DEF ListProfiles, ReadPointer, appVars, Begin
  <2>2. Statuses'
    BY <1>1, <2>1 DEF SInv, Statuses
  <2> QED BY <1>2, <2>1, <2>2
<1> QED BY <1>3, <1>4, <1>5, <1>6, <1>7, <1>8

\* The pointer moves, and names or falls back to the active certificate still.
LEMMA PointerStepKeeps ==
  ASSUME PInv, SInv, PointerStep
  PROVE  SInv'
<1>1. /\ UNCHANGED <<app, loaded, fresh, made, disk, status, late>> /\ IInv
  BY DEF PointerStep, appVars, serverVars, PInv
<1>2. pc' \in {"rollback_previous", "rollback"} => pc \in {"rollback_previous", "rollback"}
  BY DEF PointerStep, CheckPending, CreateNext, WriteNext, SetAside, Install, SyncDirectory, UndoNext,
         UndoCurrent, Restore, Commit, DropNext, CheckPrevious, RemoveCurrent, Reinstate, Goto, GoesOn, Fails
<1>3. Statuses'
  BY <1>1, <1>2 DEF SInv, Statuses
<1>4. CASE Same
  BY <1>1, <1>3, <1>4, CarriesOn
<1>5. ASSUME Back, ViewCurrent = fresh \/ status[ViewCurrent] = "swept",
             status[ViewCurrent] \in {"pending", "swept"}
      PROVE  SInv'
  <2>1. LateRequests'
    BY <1>1, <1>5 DEF SInv, LateRequests, Back
  <2>2. Reachable'
    BY <1>1, <1>5 DEF SInv, Reachable, Back
  <2> QED BY <1>3, <2>1, <2>2 DEF SInv
<1>6. ASSUME Before, After', app = "published" PROVE SInv'
  <2>1. /\ status[fresh] \in {"pending", "swept"}
        /\ loaded # None => status[loaded] \in Confirmed
    BY <1>6 DEF SInv, Statuses, Holding
  <2>2. loaded = None => late = {}
    BY <1>6 DEF SInv, LateRequests
  <2>3. LateRequests'
    BY <1>1, <1>6, <2>1, <2>2 DEF SInv, LateRequests, Before, After, Confirmed
  <2>4. Reachable'
    BY <1>1, <1>6, <2>1, PointerValues DEF SInv, Reachable, Before, After
  <2> QED BY <1>3, <2>3, <2>4 DEF SInv
<1>7. CASE CheckPending \/ CreateNext \/ Install \/ SyncDirectory \/ DropNext
           \/ CheckPrevious \/ Reinstate
  BY <1>1, <1>4, <1>7, PointerViews
<1>8. CASE UndoNext \/ UndoCurrent \/ Restore
  <2>1. pc \in {"undo_next", "undo_current", "restore"} /\ (Restore => pc = "restore")
        /\ (UndoNext \/ UndoCurrent => pc # "restore")
    BY <1>8 DEF UndoNext, UndoCurrent, Restore
  <2>2. app = "published" /\ (pc # "restore" \/ outcome = "stuck" => After)
    BY <2>1 DEF PInv, CallSteps, ViewAtCall, Resting, Moved, Moving, Rolling
  <2>3. status[fresh] \in {"pending", "swept"}
    BY <2>2 DEF SInv, Statuses
  <2>4. Same \/ (Back /\ After)
    BY <1>1, <1>8, <2>1, <2>2, PointerViews
  <2> QED BY <1>4, <1>5, <2>3, <2>4 DEF After
<1>9. CASE RemoveCurrent
  <2>1. pc = "rollback"
    BY <1>9 DEF RemoveCurrent
  <2>2. \/ app \in {"published", "undone"} /\ After
        \/ app = "restored" /\ ViewCurrent = loaded
    BY <2>1 DEF PInv, CallSteps, ViewAtCall, Resting, Moved, Moving
  <2>3. /\ app \in {"published", "undone"} => status[fresh] \in {"pending", "swept"}
        /\ app = "restored" => status[loaded] = "swept"
    BY <2>1 DEF SInv, Statuses
  <2>4. Same \/ Back
    BY <1>1, <1>9, PointerViews
  <2> QED BY <1>4, <1>5, <2>2, <2>3, <2>4 DEF After
<1>10. CASE Commit
  <2>0. \/ Same
        \/ ViewCurrent' = ViewCurrent /\ ViewPrevious' = None
    BY <1>1, <1>10, PointerViews
  <2> SUFFICES ASSUME ViewCurrent' = ViewCurrent, ViewPrevious' = None PROVE SInv'
    BY <1>4, <2>0
  <2>1. pc = "commit" /\ ViewCurrent' = ViewCurrent /\ ViewPrevious' = None
    BY <1>10 DEF Commit
  <2>2. \/ app = "done" /\ ViewCurrent = fresh
        \/ app = "recovered" /\ ViewCurrent = loaded /\ loaded # None
    BY <2>1 DEF PInv, CallSteps, ViewAtCall, Generations, Resting, Moved, Moving, Rolling
  <2>3. status[ViewCurrent] \in Confirmed
    BY <2>2 DEF SInv, Statuses
  <2>4. LateRequests'
    BY <1>1, <2>1 DEF SInv, LateRequests
  <2>5. Reachable'
    BY <1>1, <2>1, <2>3 DEF SInv, Reachable, Confirmed
  <2> QED BY <1>3, <2>4, <2>5 DEF SInv
<1>11. CASE WriteNext
  <2>1. pc = "write"
    BY <1>11 DEF WriteNext
  <2>2. app = "published" /\ Before /\ value = fresh
    <3>1. outcome = "ok"
      BY <1>1, <2>1 DEF IInv, FilesAtStep
    <3> QED BY <2>1, <3>1 DEF PInv, CallSteps, ViewAtCall, Resting, Moved, Moving, Rolling
  <2>3. \/ Same
        \/ ViewCurrent = None /\ ViewCurrent' = value /\ ViewPrevious' = None
    BY <1>1, <1>11, PointerViews
  <2> QED BY <1>1, <1>4, <1>6, <2>2, <2>3 DEF Before, After
<1>12. CASE SetAside
  <2>1. pc = "set_aside"
    BY <1>12 DEF SetAside
  <2>2. app = "published" /\ Before /\ value = fresh /\ next = value
    <3>1. outcome = "ok"
      BY <1>1, <2>1 DEF IInv, FilesAtStep
    <3> QED BY <2>1, <3>1 DEF PInv, CallSteps, ViewAtCall, Resting, Moved, Moving, Rolling
  <2>3. \/ Same
        \/ ViewCurrent' = next /\ ViewPrevious' = ViewCurrent
    BY <1>1, <1>12, PointerViews
  <2> QED BY <1>1, <1>4, <1>6, <2>2, <2>3 DEF Before, After
<1> QED BY <1>7, <1>8, <1>9, <1>10, <1>11, <1>12 DEF PointerStep

\* What the application asked for when it died is still good.
LEMMA AppDiesKeeps ==
  ASSUME PInv, SInv, AppDies
  PROVE  SInv'
<1>1. /\ app' = "idle" /\ loaded' = None /\ fresh' = None
      /\ late' = late \cup ({asked} \ {NoRequest}) /\ UNCHANGED <<made, disk, status>>
      /\ Crash \/ UNCHANGED activeVars
  BY DEF AppDies, Returns
<1>2. Same
  BY <1>1, PointerViews, LeftAlone DEF PInv
<1>3. Statuses'
  BY <1>1 DEF SInv, Statuses, Requesting, Holding
<1>4. Reachable'
  BY <1>1, <1>2 DEF SInv, Reachable, Same
<1>5. ASSUME asked # NoRequest
      PROVE  /\ asked.gen \in made
             /\ asked.op \in {"enroll", "renew"} =>
                    asked.gen \notin disk /\ status[asked.gen] \in {"unused", "pending", "swept"}
             /\ asked.op \notin {"enroll", "renew"} =>
                    asked.op = "activate" /\ asked.gen \in disk /\ ViewCurrent = asked.gen
  <2>1. /\ app \in {"enrolling", "renewing", "activating", "confirming"}
        /\ asked = Request(Asks[app], Subject, loaded)
    BY <1>5 DEF PInv, CallSteps
  <2>2. CASE app \in {"enrolling", "renewing"}
    <3>1. asked.op \in {"enroll", "renew"} /\ asked.gen = fresh
      BY <2>1, <2>2 DEF Request, Asks, Subject
    <3>2. fresh \in made \ disk /\ status[fresh] \in {"unused", "pending", "swept"}
      BY <2>2 DEF PInv, Generations, Requesting, SInv, Statuses
    <3> QED BY <3>1, <3>2
  <2>3. CASE app = "activating"
    <3>1. asked.op = "activate" /\ asked.gen = fresh
      BY <2>1, <2>3 DEF Request, Asks, Subject
    <3>2. fresh \in disk /\ disk \subseteq made /\ ViewCurrent = fresh
      BY <2>3 DEF PInv, Generations, Holding, ViewAtCall, After
    <3> QED BY <3>1, <3>2
  <2>4. CASE app = "confirming"
    <3>1. asked.op = "activate" /\ asked.gen = loaded
      BY <2>1, <2>4 DEF Request, Asks, Subject
    <3>2. ViewCurrent = loaded /\ loaded # None /\ disk \subseteq made
      BY <2>4 DEF PInv, Generations, ViewAtCall
    <3> QED BY <3>1, <3>2, FallsBack
  <2> QED BY <2>1, <2>2, <2>3, <2>4
<1>6. LateRequests'
  <2>1. None \notin made
    BY PointerValues DEF PInv, Generations
  <2> QED BY <1>1, <1>2, <1>5, <2>1 DEF SInv, LateRequests, Same
<1> QED BY <1>3, <1>4, <1>6 DEF SInv

\* The directory of a failed enrollment holds no active certificate.
LEMMA RemoveKeeps ==
  ASSUME PInv, SInv, RemoveProfileDirectory
  PROVE  SInv'
<1>1. /\ app = "removing" /\ app' = "absent" /\ disk' = {} /\ UNCHANGED <<loaded, fresh, made, status, late>>
  BY DEF RemoveProfileDirectory, AppGoto, serverVars
<1>2. loaded = None /\ ViewCurrent \in {None, fresh} /\ ViewPrevious = None
  BY <1>1, RemoveHolds DEF PInv, Generations, ViewAtCall
<1>3. late = {} /\ \A g \in Values : status[g] # "active"
  BY <1>1, <1>2, PointerValues DEF SInv, Statuses, LateRequests, Reachable
<1>4. Statuses'
  BY <1>1 DEF SInv, Statuses, Requesting, Holding
<1> QED BY <1>1, <1>3, <1>4 DEF SInv, LateRequests, Reachable

\* Every step keeps the active certificate within reach.
LEMMA ReachStepHolds ==
  ASSUME RInv, [ProfileNext]_profileVars
  PROVE  RInv'
<1>1. WInv /\ WInv'
  BY ProfileStepHolds DEF RInv
<1>0. ASSUME ~botched' PROVE ~botched
  BY <1>0, <1>1, DeadHolds DEF WInv
<1>2. ASSUME outages' = 0, ~botched PROVE outages = 0 /\ ~Lost
  <2>1. outages \in Nat
    BY <1>1, <1>2 DEF WInv, PInv
  <2>2. ~Lost
    BY <1>2, <2>1 DEF Lost
  <2>3. outages' = outages \/ Lost
    BY DEF ProfileNext, profileVars, Retire, EnrollAdmin, LateRequest, SendRequest, Answered,
           PersistProfileGeneration, PublishActiveProfile, Published, RollbackPublication, Undone,
           CleanupProfileGeneration, RemoveProfileDirectory, CommitActiveProfile, Replaced, LoadProfile,
           RestorePrevious, Restored, RenewalDue, AdminClientForProfile, ListProfiles, PointerStep, AppDies, boundVars
  <2> QED BY <1>2, <2>2, <2>3
<1>3. ASSUME SInv, ~Lost, ~botched PROVE SInv'
  <2>0. PInv
    BY <1>1, <1>3 DEF WInv
  <2>1. CASE UNCHANGED profileVars
    <3>1. CallStays /\ late' = late /\ status' = status
      BY <2>1, LeftAlone DEF profileVars, appVars, serverVars, CallStays
    <3>2. status' \in [Values -> AllStatuses] /\ \A h \in Values : Ages(h)
      BY <1>3, <3>1 DEF SInv, Statuses, AllStatuses, Confirmed, Ages
    <3> QED BY <2>0, <1>3, <3>1, <3>2, AgeHolds
  <2>2. CASE ProfileNext
    BY <2>0, <1>3, <2>2, RetireKeeps, LateRequestKeeps, AnsweredKeeps, CallKeeps, BeginKeeps, PointerStepKeeps,
       AppDiesKeeps, RemoveKeeps DEF ProfileNext
  <2> QED BY <2>1, <2>2
<1> QED BY <1>0, <1>1, <1>2, <1>3 DEF RInv, SInv

\* As long as no call of the living application is lost, and no generation was
\* deleted whose pointer could not be withdrawn, the certificate the server
\* calls active is one the profile holds and points to, or falls back to:
\* neither a crash nor a failing commit or rollback locks the Admin out.
THEOREM ProfileIsNeverLockedOut ==
  ProfileSpec => []ActiveIsReachable
<1>1. ProfileInit => RInv
  <2> SUFFICES ASSUME ProfileInit PROVE RInv
    OBVIOUS
  <2>1. /\ app = "absent" /\ disk = {} /\ late = {} /\ status = [g \in Values |-> "unused"]
    BY DEF ProfileInit
  <2>2. Statuses
    BY ONLY <2>1 DEF Statuses, Confirmed, Requesting, Holding
  <2> QED BY <2>1, <2>2, ProfileInitHolds DEF RInv, WInv, LateRequests, Reachable
<1>2. RInv /\ [ProfileNext]_profileVars => RInv'
  BY ReachStepHolds
<1>3. RInv => ActiveIsReachable
  BY FallsBack, PointerValues DEF RInv, WInv, Reachable, ActiveIsReachable
<1> QED BY <1>1, <1>2, <1>3, PTL DEF ProfileSpec
=============================================================================
