---------------------------- MODULE AtomicPointer ----------------------------
(***************************************************************************)
(* What crates/centrald-common/src/active_pointer.rs promises its callers: *)
(* one pointer to the active credential generation whose updates are       *)
(* atomic.  A publication keeps the previous generation until it is        *)
(* committed or rolled back, and a second one waits for that.              *)
(***************************************************************************)
CONSTANTS Values, None

VARIABLES current, previous

pointerVars == <<current, previous>>

Init == current \in Values \cup {None} /\ previous = None

Publish(v) ==
    /\ previous = None
    /\ current' = v
    /\ previous' = current

Commit ==
    /\ previous # None
    /\ previous' = None
    /\ UNCHANGED current

Rollback ==
    /\ previous # None
    /\ current' = previous
    /\ previous' = None

\* Rolling back the first generation of all.
Unpublish ==
    /\ current # None
    /\ previous = None
    /\ current' = None
    /\ UNCHANGED previous

Next == (\E v \in Values : Publish(v)) \/ Commit \/ Rollback \/ Unpublish

Spec == Init /\ [][Next]_pointerVars
=============================================================================
