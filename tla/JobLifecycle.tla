---------------------------- MODULE JobLifecycle ----------------------------
(***************************************************************************)
(* What the server promises an Admin about a job, without deliveries,      *)
(* leases or clients: the status start_job returns and the event log       *)
(* stream_job reads with a cursor.  The log only grows at its end and has  *)
(* no gaps; the first event is the dispatch marker; a terminal event is    *)
(* the last one and agrees with the status; a job is over exactly once.    *)
(***************************************************************************)
EXTENDS Sequences, Naturals

CONSTANTS Jobs

VARIABLES status, log

lifecycleVars == <<status, log>>

Outcomes == {"succeeded", "failed", "timed_out"}
Open     == {"waiting", "running"}

Init ==
    /\ status = [j \in Jobs |-> "absent"]
    /\ log = [j \in Jobs |-> << >>]

Accept(j) ==
    /\ status[j] = "absent"
    /\ status' = [status EXCEPT ![j] = "waiting"]
    /\ UNCHANGED log

\* The first delivery; later ones are invisible.
Dispatch(j) ==
    /\ status[j] = "waiting"
    /\ log[j] = << >>
    /\ log' = [log EXCEPT ![j] = << "dispatched" >>]
    /\ UNCHANGED status

\* The client reports progress or an outcome.
Report(j, s) ==
    /\ status[j] \in Open
    /\ log[j] # << >>
    /\ log' = [log EXCEPT ![j] = Append(@, s)]
    /\ status' = [status EXCEPT ![j] = s]

\* Any number of jobs may be timed out together.
TimeOut(S) ==
    /\ \A j \in S : status[j] \in Open
    /\ log' = [j \in Jobs |-> IF j \in S THEN Append(log[j], "timed_out") ELSE log[j]]
    /\ status' = [j \in Jobs |-> IF j \in S THEN "timed_out" ELSE status[j]]

Next ==
    \/ \E j \in Jobs : Accept(j) \/ Dispatch(j)
    \/ \E j \in Jobs, s \in {"running", "succeeded", "failed"} : Report(j, s)
    \/ \E S \in SUBSET Jobs : TimeOut(S)

Spec == Init /\ [][Next]_lifecycleVars

\* An accepted job is over eventually, whatever clients do.
EventuallyOver == \A j \in Jobs : status[j] = "waiting" ~> status[j] \in Outcomes
=============================================================================
