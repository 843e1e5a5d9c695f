---------------------- MODULE ClientCredentialsProofs ----------------------
(***************************************************************************)
(* Proofs about ClientCredentials.  Base says what each process may rely   *)
(* on at each of its steps, and that a request for a certificate has its   *)
(* effect at most once.  As long as no living process lost a call,         *)
(* Discarded says that a generation is thrown away only when its           *)
(* certificate is dead or nobody will activate it, and Replaced that a     *)
(* replacement hits only an identity that the device is leaving.           *)
(***************************************************************************)
EXTENDS ClientCredentials, TLAPS

\* Requests that may still have an effect.
Waiting == {p \in Procs : call[p] # None /\ reply[p] = "none"}
Pending == late \cup {call[p] : p \in Waiting}
IssueOps == {"enroll", "renew"}

Issued(g) == status[g] \notin {"unused", "keyed"}
Live(g) == status[g] \in {"active", "retiring", "retired"}
Dead(g) == status[g] \in {"replaced", "revoked", "swept"}

\* Steps of a process with a generation that is not published yet, and steps
\* with the one that is.
Fresh == {"asking", "persisting", "publishing"}
AtCurrent == {"activating", "undoing", "replacing", "committing",
              "finalizing", "finishing", "adopting", "deciding"}
Waits == {"asking", "activating", "replacing", "finalizing", "finishing"}

ProcTypes ==
    /\ lock \in Procs \cup {None}
    /\ pc \in [Procs -> Steps]
    /\ gen \in [Procs -> Gens \cup {None}]
    /\ call \in [Procs -> Requests \cup {None}]
    /\ reply \in [Procs -> {"none", "ok", "rejected", "unknown", "failed"}]
    /\ \A p \in Procs : pc[p] # "idle" => lock = p
    /\ pc["cli"] \notin {"finalizing", "finishing", "adopting", "deciding"}
    /\ pc["daemon"] # "replacing"

StateTypes ==
    /\ {current, previous} \subseteq Gens \cup {None}
    /\ disk \subseteq Gens
    /\ late \subseteq Requests
    /\ crashes \in 0..MaxCrashes
    /\ outages \in 0..MaxOutages
    /\ botched \in BOOLEAN

ServerTypes ==
    /\ status \in [Gens -> Statuses]
    /\ owner \in [Gens -> Ids \cup {None}]
    /\ heir \in [Gens -> Gens \cup {None}]

\* A generation was deleted under the pointer, and nobody can go on.
Stranded ==
    /\ current \in Gens \ disk
    /\ Issued(current)
    /\ previous \in disk \cup {None}
    /\ \A p \in Procs : pc[p] = "idle"

\* Pointer and disk.
PointerOK ==
    /\ botched => Stranded
    /\ PointerNeverDangles
    /\ previous # None => current # None /\ current # previous

DiskOK == \A g \in disk : Issued(g)

\* An identity is given with the certificate.
OwnerOK == \A g \in Gens : owner[g] = None <=> ~Issued(g)

\* What process p may rely on.
ProcOK(p) ==
    /\ pc[p] = "idle" => gen[p] = None /\ call[p] = None /\ reply[p] = "none"
    /\ pc[p] # "idle" => gen[p] \in Gens
    /\ pc[p] \in Fresh =>
         /\ previous = None /\ gen[p] # current
         /\ call[p] \in Requests /\ call[p].gen = gen[p] /\ call[p].op \in IssueOps
         /\ call[p].op = "renew" => call[p].old = current /\ current # None
         /\ p = "cli" => call[p].op = "enroll"
    /\ pc[p] \in {"asking", "persisting"} => gen[p] \notin disk
    /\ pc[p] = "asking" /\ reply[p] = "ok" => Issued(gen[p])
    /\ pc[p] \in {"persisting", "publishing"} => Issued(gen[p])
    /\ pc[p] = "publishing" => gen[p] \in disk
    /\ pc[p] \in AtCurrent => gen[p] = current
    /\ pc[p] \in {"activating", "finalizing"} => call[p] = Request("activate", gen[p], None)
    /\ pc[p] \in {"replacing", "finishing"} =>
         call[p] = Request("replace", gen[p], previous) /\ previous # None
    /\ pc[p] = "cleaning" => gen[p] \notin {current, previous}
    /\ pc[p] = "deciding" => previous = None
    /\ pc[p] \notin Waits \cup {"idle"} => reply[p] # "none"

\* What a request may rely on.
RequestOK(r) ==
    /\ r.op \in IssueOps => status[r.gen] = "keyed"
    /\ r.op \in {"activate", "replace"} => Issued(r.gen)
    /\ r.op \in {"renew", "replace"} => r.old \in Gens /\ Issued(r.old)

\* No two requests ask for a certificate for the same key.
AskedOnce ==
    /\ \A r, s \in late : r.op \in IssueOps /\ s.op \in IssueOps /\ r.gen = s.gen => r = s
    /\ \A p \in Waiting, r \in late : r.op \in IssueOps => r.gen # gen[p]

Base ==
    /\ StateTypes /\ ServerTypes /\ ProcTypes
    /\ PointerOK /\ DiskOK /\ OwnerOK /\ AskedOnce
    /\ \A p \in Procs : ProcOK(p)
    /\ \A r \in Pending : RequestOK(r)

-----------------------------------------------------------------------------
\* Processes.

\* Only one process is at work.
LEMMA Alone ==
  ASSUME Base, NEW p \in Procs, pc[p] # "idle" \/ lock = None, NEW q \in Procs, q # p
  PROVE  pc[q] = "idle" /\ gen[q] = None /\ call[q] = None /\ reply[q] = "none" /\ lock # q
<1>1. pc[q] = "idle"
  BY NoneIsNothing DEF Base, ProcTypes, Procs
<1>2. lock # q
  BY NoneIsNothing DEF Base, ProcTypes, Procs
<1> QED BY <1>1, <1>2 DEF Base, ProcOK

\* Whoever is at work, or finds the current generation, has a pointer that
\* does not dangle.
LEMMA Healthy ==
  ASSUME Base, (\E p \in Procs : pc[p] # "idle") \/ current \in disk \cup {None}
  PROVE  botched = FALSE /\ {current, previous} \subseteq disk \cup {None}
<1>1. ~Stranded
  BY CredentialConstants DEF Stranded
<1> QED BY <1>1 DEF Base, PointerOK, PointerNeverDangles, StateTypes

\* An idle process has nothing to rely on.
LEMMA IdleOK ==
  ASSUME NEW p \in Procs, pc[p] = "idle", gen[p] = None, call[p] = None, reply[p] = "none"
  PROVE  ProcOK(p)
  BY DEF ProcOK, Fresh, AtCurrent, Waits

\* A return.
LEMMA Returns ==
  ASSUME Base, NEW p \in Procs, pc[p] # "idle", Release(p)
  PROVE  /\ ProcTypes' /\ \A q \in Procs : ProcOK(q)'
         /\ \A q \in Procs : pc'[q] = "idle" /\ gen'[q] = None
         /\ Waiting' = {} /\ lock' = None
<1>1. \A q \in Procs : pc'[q] = "idle" /\ gen'[q] = None /\ call'[q] = None /\ reply'[q] = "none"
  BY Alone DEF Release, Goto, Base, ProcTypes
<1>2. lock' = None
  BY NoneIsNothing DEF Release, Base, ProcTypes
<1>3. ProcTypes'
  BY <1>1, <1>2 DEF Release, Goto, Base, ProcTypes, Steps, Procs
<1>4. Waiting' = {}
  BY <1>1 DEF Waiting
<1>5. \A q \in Procs : ProcOK(q)'
  BY <1>1 DEF ProcOK, Fresh, AtCurrent, Waits
<1> QED BY <1>1, <1>2, <1>3, <1>4, <1>5

\* Step s is one of process p.
StepOf(p, s) ==
    /\ s \in Steps \ {"idle"}
    /\ p = "cli" => s \notin {"finalizing", "finishing", "adopting", "deciding"}
    /\ p = "daemon" => s # "replacing"

\* A step without a call.
LEMMA GoesOn ==
  ASSUME Base, NEW p \in Procs, pc[p] # "idle", reply[p] # "none",
         NEW s, StepOf(p, s), Goto(p, s), UNCHANGED <<lock, gen, call, reply>>, ProcOK(p)'
  PROVE  /\ ProcTypes' /\ \A q \in Procs : ProcOK(q)'
         /\ pc'[p] = s /\ \A q \in Procs : q # p => pc'[q] = "idle" /\ gen'[q] = None
         /\ Waiting' = {}
<1>1. \A q \in Procs : q # p => /\ pc'[q] = "idle" /\ gen'[q] = None /\ call'[q] = None
                               /\ reply'[q] = "none"
  BY Alone DEF Goto, Base, ProcTypes
<1>2. pc'[p] = s /\ lock = p
  BY DEF Goto, Base, ProcTypes
<1>3. ProcTypes'
  <2>1. pc' \in [Procs -> Steps]
    BY DEF Goto, Base, ProcTypes, StepOf
  <2>2. \A q \in Procs : pc'[q] # "idle" => lock' = q
    BY <1>1, <1>2
  <2>3. pc'["cli"] \notin {"finalizing", "finishing", "adopting", "deciding"} /\ pc'["daemon"] # "replacing"
    BY <1>1, <1>2 DEF StepOf, Procs
  <2> QED BY <2>1, <2>2, <2>3 DEF Base, ProcTypes
<1>4. Waiting' = {}
  BY <1>1 DEF Waiting
<1>5. \A q \in Procs : ProcOK(q)'
  <2>1. ASSUME NEW q \in Procs, q # p PROVE ProcOK(q)'
    BY <1>1, <2>1 DEF ProcOK, Fresh, AtCurrent, Waits
  <2> QED BY <2>1
<1> QED BY <1>1, <1>2, <1>3, <1>4, <1>5

\* A step that sends a request.
LEMMA Calls ==
  ASSUME Base, NEW p \in Procs, pc[p] # "idle" \/ lock = None,
         NEW s, StepOf(p, s), NEW r \in Requests, Call(p, s, r), lock' = p,
         NEW g \in Gens, gen' = [gen EXCEPT ![p] = g], ProcOK(p)'
  PROVE  /\ ProcTypes' /\ \A q \in Procs : ProcOK(q)'
         /\ pc'[p] = s /\ \A q \in Procs : q # p => pc'[q] = "idle" /\ gen'[q] = None
         /\ Waiting' = {p} /\ call'[p] = r /\ gen'[p] = g /\ reply'[p] = "none"
<1>1. \A q \in Procs : q # p => /\ pc'[q] = "idle" /\ gen'[q] = None /\ call'[q] = None
                               /\ reply'[q] = "none"
  BY Alone DEF Call, Goto, Base, ProcTypes
<1>2. pc'[p] = s /\ call'[p] = r /\ gen'[p] = g /\ reply'[p] = "none"
  BY DEF Call, Goto, Base, ProcTypes
<1>3. ProcTypes'
  <2>1. pc' \in [Procs -> Steps] /\ gen' \in [Procs -> Gens \cup {None}]
    BY DEF Call, Goto, Base, ProcTypes, StepOf
  <2>2. /\ call' \in [Procs -> Requests \cup {None}]
        /\ reply' \in [Procs -> {"none", "ok", "rejected", "unknown", "failed"}]
    BY DEF Call, Base, ProcTypes
  <2>3. \A q \in Procs : pc'[q] # "idle" => lock' = q
    BY <1>1, <1>2
  <2>4. pc'["cli"] \notin {"finalizing", "finishing", "adopting", "deciding"} /\ pc'["daemon"] # "replacing"
    BY <1>1, <1>2 DEF StepOf, Procs
  <2> QED BY <2>1, <2>2, <2>3, <2>4 DEF ProcTypes
<1>4. Waiting' = {p}
  BY <1>1, <1>2, NoneIsNothing DEF Waiting
<1>5. \A q \in Procs : ProcOK(q)'
  <2>1. ASSUME NEW q \in Procs, q # p PROVE ProcOK(q)'
    BY <1>1, <2>1 DEF ProcOK, Fresh, AtCurrent, Waits
  <2> QED BY <2>1
<1> QED BY <1>1, <1>2, <1>3, <1>4, <1>5

\* The same requests, or some of them, are pending.
Fewer == late' = late /\ Waiting' = {}

\* One more request is pending.
Adds(p, r) == late' = late /\ Waiting' = {p} /\ call'[p] = r

\* What is pending after that.
LEMMA PendingAfter ==
  /\ Fewer => Pending' \subseteq Pending
  /\ \A p \in Procs : \A r : Adds(p, r) => Pending' \subseteq Pending \cup {r}
<1>1. Fewer => Pending' \subseteq Pending
  BY DEF Fewer, Pending
<1>2. ASSUME NEW p \in Procs, NEW r, Adds(p, r) PROVE Pending' \subseteq Pending \cup {r}
  BY <1>2 DEF Adds, Pending
<1> QED BY <1>1, <1>2

\* A step of a process on the server's unchanged view.
LEMMA StepBase ==
  ASSUME Base, UNCHANGED serverVars, StateTypes', ProcTypes', PointerOK', DiskOK',
         \A p \in Procs : ProcOK(p)',
         \/ Fewer
         \/ \E p \in Procs, r \in Requests : Adds(p, r) /\ RequestOK(r) /\ r.op \notin IssueOps
                                              /\ gen'[p] = r.gen
  PROVE  Base'
<1>1. ServerTypes' /\ OwnerOK'
  BY DEF Base, ServerTypes, OwnerOK, Issued, serverVars
<1>2. \A r : RequestOK(r) => RequestOK(r)'
  BY DEF RequestOK, Issued, serverVars
<1>3. \A r \in Pending' : RequestOK(r)'
  <2>1. \A r \in Pending : RequestOK(r)
    BY DEF Base
  <2> QED BY <1>2, <2>1, PendingAfter
<1>4. AskedOnce'
  <2>1. CASE Fewer
    BY <2>1 DEF Fewer, AskedOnce, Base
  <2>2. ASSUME NEW p \in Procs, NEW r \in Requests, Adds(p, r), RequestOK(r), r.op \notin IssueOps,
               gen'[p] = r.gen
        PROVE  AskedOnce'
    <3>1. \A s \in late : s.op \in IssueOps => status[s.gen] = "keyed"
      BY DEF Base, Pending, RequestOK
    <3>2. status[r.gen] # "keyed"
      BY <2>2 DEF RequestOK, Issued, Requests, IssueOps
    <3> QED BY <2>2, <3>1, <3>2 DEF Adds, AskedOnce, Base
  <2> QED BY <2>1, <2>2
<1> QED BY <1>1, <1>3, <1>4 DEF Base

-----------------------------------------------------------------------------
\* The steps of a process keep Base.

\* Steps that leave pointer, disk and late requests alone.
Still == UNCHANGED <<current, previous, disk, late, failures>>

\* Such a step keeps what Base says of pointer and disk.
LEMMA StillOK ==
  ASSUME Base, (\E p \in Procs : pc[p] # "idle") \/ current \in disk, Still, UNCHANGED serverVars
  PROVE  StateTypes' /\ PointerOK' /\ DiskOK' /\ late' = late
<1>1. botched = FALSE /\ botched' = FALSE
  BY Healthy DEF Still, failures
<1> QED BY <1>1 DEF Still, failures, serverVars, Base, StateTypes, PointerOK, PointerNeverDangles, DiskOK,
         Issued

\* Receive.
LEMMA BaseReceive ==
  ASSUME Base, NEW p \in Procs, Receive(p)
  PROVE  Base'
<1>1. pc[p] = "asking" /\ reply[p] # "none" /\ Still /\ UNCHANGED serverVars
  BY DEF Receive, Answered, Still, serverVars
<1>2. ProcOK(p)
  BY DEF Base
<1>3. CASE reply[p] = "ok"
  <2>1. Goto(p, "persisting") /\ UNCHANGED <<lock, gen, call, reply>>
    BY <1>3 DEF Receive
  <2>2. StepOf(p, "persisting")
    BY DEF StepOf, Steps
  <2>3. pc'[p] = "persisting"
    BY <2>1 DEF Goto, Base, ProcTypes
  <2>4. ProcOK(p)'
    BY <1>1, <1>2, <1>3, <2>1, <2>3
    DEF ProcOK, Fresh, AtCurrent, Waits, Still, serverVars, Issued
  <2> QED BY <1>1, <2>1, <2>2, <2>4, GoesOn, StillOK, StepBase DEF Fewer
<1>4. CASE reply[p] # "ok"
  BY <1>1, <1>4, Returns, StillOK, StepBase DEF Receive, Fewer
<1> QED BY <1>3, <1>4

\* persist_identity_generation.
LEMMA BasePersist ==
  ASSUME Base, NEW p \in Procs, Persist(p)
  PROVE  Base'
<1>1. pc[p] = "persisting" /\ UNCHANGED serverVars /\ UNCHANGED <<current, previous, late, failures>>
  BY DEF Persist, serverVars
<1>2. ProcOK(p)
  BY DEF Base
<1>3. gen[p] \in Gens /\ Issued(gen[p]) /\ reply[p] # "none"
  BY <1>1, <1>2 DEF ProcOK, Waits
<1>4. CASE disk' = disk \cup {gen[p]} /\ Goto(p, "publishing") /\ UNCHANGED <<lock, gen, call, reply>>
  <2>1. StepOf(p, "publishing")
    BY DEF StepOf, Steps
  <2>2. pc'[p] = "publishing"
    BY <1>4 DEF Goto, Base, ProcTypes
  <2>3. ProcOK(p)'
    BY <1>1, <1>2, <1>3, <1>4, <2>2 DEF ProcOK, Fresh, AtCurrent, Waits, serverVars, Issued
  <2>4. StateTypes' /\ PointerOK' /\ DiskOK'
    <3>1. botched = FALSE /\ botched' = FALSE
      BY <1>1, Healthy DEF failures
    <3> QED BY <1>1, <1>3, <1>4, <3>1 DEF Base, StateTypes, PointerOK, PointerNeverDangles, DiskOK, Issued,
                          serverVars, failures
  <2> QED BY <1>1, <1>3, <1>4, <2>1, <2>3, <2>4, GoesOn, StepBase DEF Fewer
<1>5. CASE Release(p) /\ UNCHANGED disk
  BY <1>1, <1>5, Returns, StillOK, StepBase DEF Still, Fewer
<1> QED BY <1>4, <1>5 DEF Persist

\* publish_active_config.
LEMMA BasePublish ==
  ASSUME Base, NEW p \in Procs, Publish(p)
  PROVE  Base'
<1>1. /\ pc[p] = "publishing" /\ UNCHANGED serverVars /\ UNCHANGED <<late, crashes, outages>>
      /\ botched = FALSE /\ {current, previous} \subseteq disk \cup {None}
  BY Healthy DEF Publish, serverVars
<1>2. ProcOK(p)
  BY DEF Base
<1>3. gen[p] \in Gens /\ Issued(gen[p]) /\ gen[p] \in disk /\ gen[p] # current /\ previous = None
  BY <1>1, <1>2 DEF ProcOK, Fresh
<1>4. CASE /\ Pointer!Publish(gen[p]) /\ Call(p, "activating", Request("activate", gen[p], None))
           /\ UNCHANGED <<disk, lock, gen, botched>>
  <2> DEFINE r == Request("activate", gen[p], None)
  <2>1. StepOf(p, "activating")
    BY DEF StepOf, Steps
  <2>2. current' = gen[p] /\ previous' = current
    BY <1>4 DEF Pointer!Publish
  <2>3. pc'[p] = "activating" /\ call'[p] = r
    BY <1>4 DEF Call, Goto, Base, ProcTypes
  <2>4. ProcOK(p)'
    BY <1>3, <1>4, <2>2, <2>3 DEF ProcOK, Fresh, AtCurrent, Waits
  <2>5. StateTypes' /\ PointerOK' /\ DiskOK'
    BY <1>1, <1>3, <1>4, <2>2, CredentialConstants
    DEF Base, StateTypes, PointerOK, PointerNeverDangles, DiskOK, Issued, serverVars
  <2>6. r \in Requests /\ r.op = "activate" /\ r.gen = gen[p]
    BY <1>3 DEF Request, Requests
  <2>7. lock' = p /\ gen' = [gen EXCEPT ![p] = gen[p]]
    BY <1>1, <1>4 DEF Base, ProcTypes
  <2>8. RequestOK(r)
    BY <1>3, <2>6 DEF RequestOK, IssueOps
  <2>9. Call(p, "activating", r)
    BY <1>4
  <2> HIDE DEF r
  <2>10. /\ ProcTypes' /\ \A q \in Procs : ProcOK(q)'
         /\ Waiting' = {p} /\ call'[p] = r /\ gen'[p] = gen[p]
    BY <1>1, <1>3, <2>1, <2>4, <2>6, <2>7, <2>9, Calls, ZenonT(60)
  <2> QED BY <1>1, <2>5, <2>6, <2>8, <2>10, StepBase DEF Adds, IssueOps
<1>5. CASE disk' = disk \ {gen[p]} /\ Release(p) /\ UNCHANGED <<current, previous, botched>>
  <2>1. StateTypes' /\ PointerOK' /\ DiskOK'
    BY <1>1, <1>3, <1>5, CredentialConstants
    DEF Base, StateTypes, PointerOK, PointerNeverDangles, DiskOK, Issued, serverVars
  <2> QED BY <1>1, <1>5, <2>1, Returns, StepBase DEF Fewer
<1>6. CASE disk' = disk \ {gen[p]} /\ Release(p) /\ Pointer!Publish(gen[p]) /\ botched' = TRUE
  <2>1. current' = gen[p] /\ previous' = current
    BY <1>6 DEF Pointer!Publish
  <2>2. \A q \in Procs : pc'[q] = "idle"
    BY <1>1, <1>6, Returns
  <2>3. Stranded'
    BY <1>1, <1>3, <1>6, <2>1, <2>2 DEF Stranded, Issued, serverVars
  <2>4. StateTypes' /\ DiskOK'
    BY <1>1, <1>3, <1>6, <2>1 DEF Base, StateTypes, DiskOK, Issued, serverVars
  <2>5. PointerOK'
    BY <1>3, <1>6, <2>1, <2>3, CredentialConstants DEF PointerOK, PointerNeverDangles
  <2> QED BY <1>1, <1>6, <2>4, <2>5, Returns, StepBase DEF Fewer
<1> QED BY <1>4, <1>5, <1>6 DEF Publish

\* The answer to ActivateIdentity.
LEMMA BaseActivationAnswered ==
  ASSUME Base, NEW p \in Procs, ActivationAnswered(p)
  PROVE  Base'
<1>1. /\ pc[p] = "activating" /\ reply[p] # "none" /\ Still /\ UNCHANGED serverVars
      /\ UNCHANGED <<lock, gen>>
  BY DEF ActivationAnswered, Answered, Still, serverVars
<1>2. ProcOK(p)
  BY DEF Base
<1>3. gen[p] = current /\ gen[p] \in Gens
  BY <1>1, <1>2 DEF ProcOK, AtCurrent
<1>4. ASSUME NEW s \in {"undoing", "committing"}, Goto(p, s), UNCHANGED <<call, reply>>
      PROVE  Base'
  <2>1. StepOf(p, s)
    BY <1>4 DEF StepOf, Steps
  <2>2. pc'[p] = s
    BY <1>4 DEF Goto, Base, ProcTypes
  <2>3. ProcOK(p)'
    BY <1>1, <1>2, <1>3, <1>4, <2>2 DEF ProcOK, Fresh, AtCurrent, Waits, Still
  <2> QED BY <1>1, <1>4, <2>1, <2>3, GoesOn, StillOK, StepBase DEF Fewer
<1>5. ASSUME p = "cli", previous # None, Call(p, "replacing", Request("replace", gen[p], previous))
      PROVE  Base'
  <2> DEFINE r == Request("replace", gen[p], previous)
  <2>1. StepOf(p, "replacing")
    BY <1>5 DEF StepOf, Steps
  <2>2. pc'[p] = "replacing" /\ call'[p] = r
    BY <1>5 DEF Call, Goto, Base, ProcTypes
  <2>3. ProcOK(p)'
    BY <1>1, <1>3, <1>5, <2>2 DEF ProcOK, Fresh, AtCurrent, Waits, Still
  <2>4. r \in Requests /\ r.op = "replace" /\ r.gen = gen[p] /\ r.old = previous /\ previous \in Gens
    BY <1>3, <1>5 DEF Request, Requests, Base, StateTypes
  <2>5. lock' = p /\ gen' = [gen EXCEPT ![p] = gen[p]]
    BY <1>1 DEF Base, ProcTypes
  <2>6. RequestOK(r)
    <3>1. current \in disk /\ previous \in disk
      BY <1>1, <1>3, <1>5, Healthy, CredentialConstants
    <3> QED BY <1>3, <2>4, <3>1 DEF RequestOK, IssueOps, Base, DiskOK
  <2>7. Call(p, "replacing", r) /\ pc[p] # "idle"
    BY <1>1, <1>5
  <2> HIDE DEF r
  <2>8. /\ ProcTypes' /\ \A q \in Procs : ProcOK(q)'
        /\ Waiting' = {p} /\ call'[p] = r /\ gen'[p] = gen[p]
    BY ONLY Base, p \in Procs, <1>3, <2>1, <2>3, <2>4, <2>5, <2>7, Calls, ZenonT(60)
  <2>9. Adds(p, r)
    BY <1>1, <2>8, StillOK DEF Adds
  <2> QED BY <1>1, <2>4, <2>6, <2>8, <2>9, StillOK, StepBase DEF IssueOps
<1> QED BY <1>4, <1>5 DEF ActivationAnswered

\* A rolled back pointer.
LEMMA RolledBack ==
  ASSUME Base, \E p \in Procs : pc[p] # "idle", Pointer!Rollback \/ Pointer!Unpublish
  PROVE  /\ current' = previous /\ previous' = None
         /\ current' \in disk \cup {None} /\ current' # current
  BY Healthy, CredentialConstants DEF Pointer!Rollback, Pointer!Unpublish, Base, PointerOK

\* A pointer that is committed or rolled back does not dangle.
LEMMA PointerMoves ==
  ASSUME Base, \E p \in Procs : pc[p] # "idle", UNCHANGED <<disk, late, failures>>, UNCHANGED serverVars,
         current' \in disk \cup {None}, previous' = None
  PROVE  StateTypes' /\ PointerOK' /\ DiskOK' /\ late' = late
<1>1. botched = FALSE /\ botched' = FALSE
  BY Healthy DEF failures
<1> QED BY <1>1, CredentialConstants
  DEF Base, StateTypes, PointerOK, PointerNeverDangles, DiskOK, Issued, serverVars, failures

\* publication.rollback.
LEMMA BaseUndo ==
  ASSUME Base, NEW p \in Procs, Undo(p)
  PROVE  Base'
<1>1. pc[p] = "undoing" /\ UNCHANGED serverVars /\ UNCHANGED <<disk, late, failures>>
  BY DEF Undo, serverVars
<1>2. ProcOK(p)
  BY DEF Base
<1>3. gen[p] = current /\ gen[p] \in Gens /\ reply[p] # "none"
  BY <1>1, <1>2 DEF ProcOK, AtCurrent, Waits
<1>4. CASE /\ Pointer!Rollback \/ Pointer!Unpublish
           /\ Goto(p, "cleaning") /\ UNCHANGED <<lock, gen, call, reply>>
  <2>1. /\ current' = previous /\ previous' = None
        /\ current' \in disk \cup {None} /\ current' # current
    BY <1>1, <1>4, RolledBack
  <2>2. StepOf(p, "cleaning")
    BY DEF StepOf, Steps
  <2>3. pc'[p] = "cleaning"
    BY <1>4 DEF Goto, Base, ProcTypes
  <2>4. ProcOK(p)'
    BY <1>2, <1>3, <1>4, <2>1, <2>3, CredentialConstants DEF ProcOK, Fresh, AtCurrent, Waits
  <2> QED BY <1>1, <1>3, <1>4, <2>1, <2>2, <2>4, GoesOn, PointerMoves, StepBase DEF Fewer
<1>5. CASE Release(p) /\ UNCHANGED pointerVars
  BY <1>1, <1>5, Returns, StillOK, StepBase DEF Still, Fewer, pointerVars
<1> QED BY <1>4, <1>5 DEF Undo

\* cleanup_failed_enrollment_generation.
LEMMA BaseCleanUp ==
  ASSUME Base, NEW p \in Procs, CleanUp(p)
  PROVE  Base'
<1>1. /\ pc[p] = "cleaning" /\ UNCHANGED serverVars /\ UNCHANGED <<current, previous, late, failures>>
      /\ disk' = disk \ {gen[p]} /\ Release(p)
  BY DEF CleanUp, serverVars
<1>2. gen[p] \notin {current, previous}
  BY <1>1 DEF Base, ProcOK
<1>3. StateTypes' /\ PointerOK' /\ DiskOK'
  <2>1. botched = FALSE /\ botched' = FALSE
    BY <1>1, Healthy DEF failures
  <2> QED BY <1>1, <1>2, <2>1 DEF Base, StateTypes, PointerOK, PointerNeverDangles, DiskOK, Issued, serverVars,
                    failures
<1> QED BY <1>1, <1>3, Returns, StepBase DEF Fewer

\* The pointer after a commit.
LEMMA Committed ==
  ASSUME Base, \E p \in Procs : pc[p] # "idle", CommitPointer
  PROVE  current' = current /\ previous' = None /\ current' \in disk \cup {None}
  BY Healthy DEF CommitPointer, Pointer!Commit, pointerVars

\* publication.commit.
LEMMA BaseCommit ==
  ASSUME Base, NEW p \in Procs, Commit(p)
  PROVE  Base'
<1>1. /\ pc[p] = "committing" /\ UNCHANGED serverVars /\ UNCHANGED <<disk, late, failures>>
      /\ CommitPointer /\ Release(p)
  BY DEF Commit, serverVars
<1> QED BY <1>1, Committed, PointerMoves, Returns, StepBase DEF Fewer

\* The answer to ReplaceIdentity, for reenroll.
LEMMA BaseReplacementAnswered ==
  ASSUME Base, ReplacementAnswered
  PROVE  Base'
<1>1. /\ pc["cli"] = "replacing" /\ reply["cli"] # "none" /\ Still /\ UNCHANGED serverVars
      /\ "cli" \in Procs
  BY DEF ReplacementAnswered, Answered, Still, serverVars, Procs
<1>2. ProcOK("cli")
  BY <1>1 DEF Base
<1>3. CASE Goto("cli", "committing") /\ UNCHANGED <<lock, gen, call, reply>>
  <2>1. StepOf("cli", "committing")
    BY DEF StepOf, Steps
  <2>2. pc'["cli"] = "committing"
    BY <1>1, <1>3 DEF Goto, Base, ProcTypes
  <2>3. ProcOK("cli")'
    BY <1>1, <1>2, <1>3, <2>2 DEF ProcOK, Fresh, AtCurrent, Waits, Still
  <2> QED BY <1>1, <1>3, <2>1, <2>3, GoesOn, StillOK, StepBase DEF Fewer
<1>4. CASE Release("cli")
  BY <1>1, <1>4, Returns, StillOK, StepBase DEF Fewer
<1> QED BY <1>3, <1>4 DEF ReplacementAnswered

\* load_latest_config, and the activation that follows.
LEMMA BaseLoad ==
  ASSUME Base, LoadLatestConfig
  PROVE  Base'
<1> DEFINE p == "daemon"
           r == Request("activate", current, None)
<1>1. /\ lock = None /\ current \in disk /\ lock' = p /\ gen' = [gen EXCEPT ![p] = current]
      /\ Call(p, "finalizing", r) /\ Still /\ UNCHANGED serverVars /\ p \in Procs
  BY DEF LoadLatestConfig, LockFree, Still, serverVars, Procs
<1>2. current \in Gens /\ Issued(current)
  BY <1>1 DEF Base, StateTypes, DiskOK
<1>3. StepOf(p, "finalizing")
  BY DEF StepOf, Steps
<1>4. pc'[p] = "finalizing" /\ call'[p] = r /\ gen'[p] = current
  BY <1>1 DEF Call, Goto, Base, ProcTypes
<1>5. current' = current
  BY <1>1 DEF Still
<1>6. ProcOK(p)'
  BY <1>2, <1>4, <1>5 DEF ProcOK, Fresh, AtCurrent, Waits
<1>7. r \in Requests /\ r.op = "activate" /\ r.gen = current
  BY <1>2 DEF Request, Requests
<1>8. RequestOK(r)
  BY <1>2, <1>7 DEF RequestOK, IssueOps
<1> HIDE DEF p, r
<1>9. /\ ProcTypes' /\ \A q \in Procs : ProcOK(q)'
      /\ Waiting' = {p} /\ call'[p] = r /\ gen'[p] = current
  BY <1>1, <1>2, <1>3, <1>6, <1>7, Calls
<1>10. Adds(p, r)
  BY <1>1, <1>9, StillOK DEF Adds
<1> QED BY <1>1, <1>7, <1>8, <1>9, <1>10, StillOK, StepBase DEF IssueOps

\* finalize_active_publication, when the activation is answered.
LEMMA BaseFinalize ==
  ASSUME Base, FinalizeAnswered
  PROVE  Base'
<1> DEFINE p == "daemon"
<1>1. /\ pc[p] = "finalizing" /\ reply[p] # "none" /\ UNCHANGED serverVars
      /\ UNCHANGED <<disk, late, failures>> /\ p \in Procs
  BY DEF FinalizeAnswered, Answered, serverVars, Procs
<1>2. ProcOK(p)
  BY <1>1 DEF Base
<1>3. gen[p] = current /\ gen[p] \in Gens
  BY <1>1, <1>2 DEF ProcOK, AtCurrent
<1>4. ASSUME IF previous = None THEN UNCHANGED pointerVars ELSE Pointer!Rollback, Release(p)
      PROVE  Base'
  <2>1. CASE previous = None
    BY <1>1, <1>4, <2>1, Returns, StillOK, StepBase DEF Still, Fewer, pointerVars
  <2>2. CASE previous # None
    BY <1>1, <1>4, <2>2, RolledBack, PointerMoves, Returns, StepBase DEF Fewer
  <2> QED BY <2>1, <2>2
<1>5. ASSUME previous # None, Call(p, "finishing", Request("replace", gen[p], previous)),
             UNCHANGED <<current, previous, lock, gen>>
      PROVE  Base'
  <2> DEFINE r == Request("replace", gen[p], previous)
  <2>0. Still
    BY <1>1, <1>5 DEF Still
  <2>1. StepOf(p, "finishing")
    BY DEF StepOf, Steps
  <2>2. pc'[p] = "finishing" /\ call'[p] = r
    BY <1>1, <1>5 DEF Call, Goto, Base, ProcTypes
  <2>3. ProcOK(p)'
    BY <1>3, <1>5, <2>2 DEF ProcOK, Fresh, AtCurrent, Waits
  <2>4. r \in Requests /\ r.op = "replace" /\ r.gen = gen[p] /\ r.old = previous /\ previous \in Gens
    BY <1>3, <1>5 DEF Request, Requests, Base, StateTypes
  <2>5. lock' = p /\ gen' = [gen EXCEPT ![p] = gen[p]]
    BY <1>1, <1>5 DEF Base, ProcTypes
  <2>6. RequestOK(r)
    <3>1. current \in disk /\ previous \in disk
      BY <1>1, <1>3, <1>5, Healthy, CredentialConstants
    <3> QED BY <1>3, <2>4, <3>1 DEF RequestOK, IssueOps, Base, DiskOK
  <2>7. Call(p, "finishing", r) /\ pc[p] # "idle" /\ p \in Procs
    BY <1>1, <1>5
  <2> HIDE DEF r, p
  <2>8. /\ ProcTypes' /\ \A q \in Procs : ProcOK(q)'
        /\ Waiting' = {p} /\ call'[p] = r /\ gen'[p] = gen[p]
    BY ONLY Base, <1>3, <2>1, <2>3, <2>4, <2>5, <2>7, Calls, ZenonT(60)
  <2>9. Adds(p, r)
    BY <1>1, <2>8 DEF Adds
  <2> QED BY <1>1, <2>0, <2>4, <2>6, <2>7, <2>8, <2>9, StillOK, StepBase DEF IssueOps
<1>6. ASSUME Goto(p, "adopting"), UNCHANGED <<current, previous, lock, gen, call, reply>>
      PROVE  Base'
  <2>0. Still
    BY <1>1, <1>6 DEF Still
  <2>1. StepOf(p, "adopting")
    BY DEF StepOf, Steps
  <2>2. pc'[p] = "adopting"
    BY <1>1, <1>6 DEF Goto, Base, ProcTypes
  <2>3. ProcOK(p)'
    BY <1>1, <1>2, <1>6, <2>2 DEF ProcOK, Fresh, AtCurrent, Waits
  <2> QED BY <1>1, <1>6, <2>0, <2>1, <2>3, GoesOn, StillOK, StepBase DEF Fewer
<1> QED BY <1>4, <1>5, <1>6 DEF FinalizeAnswered

\* finalize_active_publication, when the replacement is answered.
LEMMA BaseFinish ==
  ASSUME Base, FinishAnswered
  PROVE  Base'
<1> DEFINE p == "daemon"
<1>1. /\ pc[p] = "finishing" /\ reply[p] # "none" /\ Still /\ UNCHANGED serverVars
      /\ p \in Procs
  BY DEF FinishAnswered, Answered, Still, serverVars, Procs
<1>2. ProcOK(p)
  BY <1>1 DEF Base
<1>3. CASE Goto(p, "adopting") /\ UNCHANGED <<lock, gen, call, reply>>
  <2>1. StepOf(p, "adopting")
    BY DEF StepOf, Steps
  <2>2. pc'[p] = "adopting"
    BY <1>1, <1>3 DEF Goto, Base, ProcTypes
  <2>3. ProcOK(p)'
    BY <1>1, <1>2, <1>3, <2>2 DEF ProcOK, Fresh, AtCurrent, Waits, Still
  <2> QED BY <1>1, <1>3, <2>1, <2>3, GoesOn, StillOK, StepBase DEF Fewer
<1>4. CASE Release(p)
  BY <1>1, <1>4, Returns, StillOK, StepBase DEF Fewer
<1> QED BY <1>3, <1>4 DEF FinishAnswered

\* The publication is committed, if there is one.
LEMMA BaseAdopt ==
  ASSUME Base, Adopt
  PROVE  Base'
<1> DEFINE p == "daemon"
<1>1. /\ pc[p] = "adopting" /\ UNCHANGED serverVars /\ UNCHANGED <<disk, late, failures>>
      /\ CommitPointer /\ Goto(p, "deciding") /\ UNCHANGED <<lock, gen, call, reply>> /\ p \in Procs
  BY DEF Adopt, serverVars, Procs
<1>2. ProcOK(p)
  BY <1>1 DEF Base
<1>3. StepOf(p, "deciding")
  BY DEF StepOf, Steps
<1>4. pc'[p] = "deciding"
  BY <1>1 DEF Goto, Base, ProcTypes
<1>5. current' = current /\ previous' = None /\ current' \in disk \cup {None}
  BY <1>1, Committed
<1>6. ProcOK(p)' /\ reply[p] # "none"
  BY <1>1, <1>2, <1>4, <1>5 DEF ProcOK, Fresh, AtCurrent, Waits
<1> QED BY <1>1, <1>3, <1>5, <1>6, GoesOn, PointerMoves, StepBase DEF Fewer

\* renew_certificate_if_needed finds nothing due.
LEMMA BaseNotDue ==
  ASSUME Base, NotDue
  PROVE  Base'
<1>1. pc["daemon"] = "deciding" /\ Release("daemon") /\ Still /\ UNCHANGED serverVars /\ "daemon" \in Procs
  BY DEF NotDue, Still, serverVars, Procs
<1> QED BY <1>1, Returns, StillOK, StepBase DEF Fewer

-----------------------------------------------------------------------------
\* A request for a certificate, a lost call and a crash keep Base.

\* A key pair is generated and a certificate asked for it.
LEMMA BaseAsk ==
  ASSUME Base, NEW p \in Procs, pc[p] # "idle" \/ lock = None, lock' = p, NEW g \in Gens,
         NEW o \in IssueOps, Ask(p, o, g), previous = None, p = "cli" => o = "enroll",
         current \in disk \cup {None}, o = "renew" => current # None,
         UNCHANGED <<current, previous, disk, late, owner, heir, failures>>
  PROVE  Base'
<1> DEFINE r == Request(o, g, IF o = "renew" THEN current ELSE None)
<1>1. /\ status[g] = "unused" /\ status' = [status EXCEPT ![g] = "keyed"]
      /\ gen' = [gen EXCEPT ![p] = g] /\ Call(p, "asking", r)
  BY DEF Ask
<1>2. /\ ServerTypes' /\ OwnerOK' /\ \A h \in Gens : Issued(h) <=> Issued(h)'
      /\ \A h \in Gens : status[h] = "keyed" => status'[h] = "keyed"
  <2>1. ServerTypes'
    BY <1>1 DEF Base, ServerTypes, Statuses
  <2>2. \A h \in Gens : h # g => status'[h] = status[h]
    BY <1>1 DEF Base, ServerTypes
  <2>3. status'[g] = "keyed"
    BY <1>1 DEF Base, ServerTypes
  <2>4. \A h \in Gens : Issued(h) <=> Issued(h)'
    BY <1>1, <2>2, <2>3 DEF Issued
  <2> QED BY <1>1, <2>1, <2>2, <2>3, <2>4 DEF Base, OwnerOK
<1>3. ~Issued(g) /\ g \notin disk /\ status'[g] = "keyed"
  BY <1>1 DEF Issued, Base, DiskOK, ServerTypes
<1>4. g # current
  BY <1>3, CredentialConstants
<1>5. /\ r \in Requests /\ r.op = o /\ r.gen = g /\ r.old = (IF o = "renew" THEN current ELSE None)
  BY DEF Request, Requests, IssueOps, Base, StateTypes
<1>6. pc'[p] = "asking" /\ call'[p] = r /\ gen'[p] = g /\ reply'[p] = "none"
  BY <1>1 DEF Call, Goto, Base, ProcTypes
<1>7. StepOf(p, "asking")
  BY DEF StepOf, Steps
<1> HIDE DEF r
<1>8. ProcOK(p)'
  BY <1>3, <1>4, <1>5, <1>6 DEF ProcOK, Fresh, AtCurrent, Waits
<1>9. /\ ProcTypes' /\ \A q \in Procs : ProcOK(q)'
      /\ Waiting' = {p} /\ call'[p] = r
  BY ONLY Base, p \in Procs, pc[p] # "idle" \/ lock = None, lock' = p, g \in Gens,
          <1>1, <1>5, <1>7, <1>8, Calls, ZenonT(60)
<1>10. Pending' \subseteq Pending \cup {r}
  BY <1>9, PendingAfter DEF Adds
<1>11. \A s \in Pending : RequestOK(s) /\ s \in Requests
  BY DEF Base, Pending, Waiting, ProcTypes, StateTypes
<1>12. ASSUME NEW s \in Pending' PROVE RequestOK(s)'
  <2>1. CASE s = r
    <3>1. ASSUME o = "renew" PROVE current \in Gens /\ Issued(current)
      BY <3>1 DEF Base, DiskOK, StateTypes
    <3> QED BY <1>2, <1>3, <1>5, <2>1, <3>1 DEF RequestOK, IssueOps
  <2>2. CASE s \in Pending
    <3>1. RequestOK(s) /\ s \in Requests /\ s.gen \in Gens
      BY <1>11, <2>2 DEF Requests
    <3> QED BY <1>2, <3>1 DEF RequestOK, IssueOps
  <2> QED BY <1>10, <2>1, <2>2
<1>13. AskedOnce'
  <2>1. \A s \in late : s.op \in IssueOps => s.gen # g
    BY <1>1, <1>11 DEF Pending, RequestOK
  <2> QED BY <1>6, <1>9, <2>1 DEF AskedOnce, Base
<1>14. StateTypes' /\ PointerOK'
  <2>1. botched = FALSE /\ botched' = FALSE
    BY Healthy DEF failures
  <2> QED BY <2>1 DEF Base, StateTypes, PointerOK, PointerNeverDangles, failures
<1>15. DiskOK'
  BY <1>2 DEF Base, DiskOK, StateTypes
<1> QED BY <1>2, <1>9, <1>12, <1>13, <1>14, <1>15 DEF Base

\* enroll and reenroll.
LEMMA BaseStartEnrollment ==
  ASSUME Base, NEW g \in Gens, StartEnrollment(g)
  PROVE  Base'
<1>1. /\ "cli" \in Procs /\ "enroll" \in IssueOps /\ lock = None /\ lock' = "cli"
      /\ previous = None /\ Ask("cli", "enroll", g) /\ current \in disk \cup {None}
      /\ UNCHANGED <<current, previous, disk, late, owner, heir, failures>>
  BY DEF StartEnrollment, Procs, IssueOps, LockFree
<1> QED BY <1>1, BaseAsk

\* A renewal.
LEMMA BaseRenew ==
  ASSUME Base, NEW g \in Gens, Renew(g)
  PROVE  Base'
<1>1. /\ "daemon" \in Procs /\ "renew" \in IssueOps /\ pc["daemon"] = "deciding"
      /\ Ask("daemon", "renew", g) /\ lock' = lock
      /\ UNCHANGED <<current, previous, disk, late, owner, heir, failures>>
  BY DEF Renew, Procs, IssueOps
<1>2. lock' = "daemon" /\ previous = None /\ gen["daemon"] = current /\ gen["daemon"] \in Gens
  BY <1>1 DEF Base, ProcTypes, ProcOK, AtCurrent
<1>3. current \in disk \cup {None}
  BY <1>1, Healthy
<1> QED BY <1>1, <1>2, <1>3, BaseAsk, CredentialConstants

\* A process that waits for a certificate is asking.
LEMMA AsksFor ==
  ASSUME Base, NEW p \in Waiting
  PROVE  /\ p \in Procs /\ pc[p] # "idle" /\ pc[p] \in Waits
         /\ call[p].op \in IssueOps => pc[p] = "asking" /\ call[p].gen = gen[p]
<1>1. p \in Procs /\ pc[p] # "idle" /\ ProcOK(p) /\ pc[p] \in Waits
  BY DEF Waiting, Base, ProcOK
<1>2. CASE pc[p] = "asking"
  BY <1>1, <1>2 DEF ProcOK, Fresh
<1>3. CASE pc[p] \in {"activating", "finalizing"}
  <2>1. call[p] = Request("activate", gen[p], None)
    BY <1>1, <1>3 DEF ProcOK
  <2> QED BY <1>1, <2>1 DEF Request, IssueOps
<1>4. CASE pc[p] \in {"replacing", "finishing"}
  <2>1. call[p] = Request("replace", gen[p], previous)
    BY <1>1, <1>4 DEF ProcOK
  <2> QED BY <1>1, <2>1 DEF Request, IssueOps
<1> QED BY <1>1, <1>2, <1>3, <1>4 DEF Waits

\* A process gives up a request: it stays pending.
LEMMA Abandons ==
  ASSUME Base, NEW p \in Procs, pc[p] # "idle", Abandoned(p), Waiting' = {}
  PROVE  Pending' \subseteq Pending /\ AskedOnce' /\ late' \subseteq Requests
<1>1. CASE call[p] # None /\ reply[p] = "none"
  <2>1. late' = late \cup {call[p]} /\ p \in Waiting /\ call[p] \in Requests
    BY <1>1 DEF Abandoned, Waiting, Base, ProcTypes
  <2>3. call[p].op \in IssueOps => call[p].gen = gen[p]
    BY <2>1, AsksFor
  <2>4. Pending' \subseteq Pending
    BY <2>1 DEF Pending
  <2>5. AskedOnce'
    BY <2>1, <2>3 DEF Base, AskedOnce
  <2> QED BY <2>1, <2>4, <2>5 DEF Base, StateTypes
<1>2. CASE ~(call[p] # None /\ reply[p] = "none")
  BY <1>2 DEF Abandoned, Pending, Base, AskedOnce, StateTypes
<1> QED BY <1>1, <1>2

\* What the server and the pending requests need when neither changes.
LEMMA ServerStays ==
  ASSUME Base, UNCHANGED serverVars, Pending' \subseteq Pending
  PROVE  ServerTypes' /\ OwnerOK' /\ \A r \in Pending' : RequestOK(r)'
<1>1. ServerTypes' /\ OwnerOK'
  BY DEF Base, ServerTypes, OwnerOK, Issued, serverVars
<1>2. \A r : RequestOK(r) => RequestOK(r)'
  BY DEF RequestOK, Issued, serverVars
<1> QED BY <1>1, <1>2 DEF Base

\* A call fails.
LEMMA BaseFail ==
  ASSUME Base, NEW p \in Procs, Fail(p)
  PROVE  Base'
<1>1. /\ pc[p] \in Waits /\ Abandoned(p) /\ reply' = [reply EXCEPT ![p] = "failed"]
      /\ UNCHANGED <<current, previous, disk, lock, pc, gen, call, crashes, botched>> /\ UNCHANGED serverVars
      /\ outages < MaxOutages /\ outages' = outages + 1 /\ pc[p] # "idle" /\ botched = FALSE
  BY Healthy DEF Fail, Waits, serverVars
<1>2. reply'[p] = "failed" /\ \A q \in Procs : q # p => reply'[q] = reply[q]
  BY <1>1 DEF Base, ProcTypes
<1>3. Waiting' = {}
  BY <1>1, <1>2, Alone DEF Waiting
<1>4. Pending' \subseteq Pending /\ AskedOnce' /\ late' \subseteq Requests
  BY <1>1, <1>3, Abandons
<1>5. ProcTypes'
  BY <1>1 DEF Base, ProcTypes
<1>6. ASSUME NEW q \in Procs PROVE ProcOK(q)'
  <2>1. CASE q = p
    <3>1. ProcOK(p)
      BY DEF Base
    <3> QED BY <1>1, <1>2, <2>1, <3>1 DEF ProcOK, Waits, Issued, serverVars
  <2>2. CASE q # p
    <3>1. pc'[q] = "idle" /\ gen'[q] = None /\ call'[q] = None /\ reply'[q] = "none"
      BY <1>1, <1>2, <2>2, Alone
    <3> QED BY <3>1 DEF ProcOK, Fresh, AtCurrent, Waits
  <2> QED BY <2>1, <2>2
<1>7. StateTypes' /\ PointerOK' /\ DiskOK'
  BY <1>1, <1>4, CredentialConstants DEF Base, StateTypes, PointerOK, PointerNeverDangles, DiskOK, Issued, serverVars
<1> QED BY <1>1, <1>4, <1>5, <1>6, <1>7, ServerStays DEF Base

\* A process dies.
LEMMA BaseCrash ==
  ASSUME Base, NEW p \in Procs, Crash(p)
  PROVE  Base'
<1>1. /\ pc[p] # "idle" /\ Abandoned(p) /\ Release(p)
      /\ UNCHANGED <<current, previous, disk, outages, botched>> /\ UNCHANGED serverVars
      /\ crashes < MaxCrashes /\ crashes' = crashes + 1 /\ botched = FALSE
  BY Healthy DEF Crash, serverVars
<1>2. ProcTypes' /\ (\A q \in Procs : ProcOK(q)') /\ Waiting' = {}
  BY <1>1, Returns
<1>3. Pending' \subseteq Pending /\ AskedOnce' /\ late' \subseteq Requests
  BY <1>1, <1>2, Abandons
<1>4. StateTypes' /\ PointerOK' /\ DiskOK'
  BY <1>1, <1>3, CredentialConstants DEF Base, StateTypes, PointerOK, PointerNeverDangles, DiskOK, Issued, serverVars
<1> QED BY <1>1, <1>2, <1>3, <1>4, ServerStays DEF Base

-----------------------------------------------------------------------------
\* The server keeps Base.

\* Pending requests are requests, and what they rely on holds.
LEMMA PendingRequests ==
  ASSUME Base, NEW r \in Pending
  PROVE  r \in Requests /\ r.gen \in Gens /\ RequestOK(r)
<1>1. r \in Requests /\ RequestOK(r)
  BY DEF Base, Pending, Waiting, ProcTypes, StateTypes
<1> QED BY <1>1 DEF Requests

\* What request r, answered, does to the server.
Outcome(r) ==
    \/ UNCHANGED serverVars
    \/ /\ r.op \in IssueOps /\ status[r.gen] = "keyed"
       /\ \E i \in Ids : /\ Issue(r.gen, i)
                         /\ r.op = "enroll" => \A g \in Gens : owner[g] # i
                         /\ r.op = "renew" => i = owner[r.old] /\ r.old \in Gens /\ Usable(r.old)
    \/ r.op = "activate" /\ Activate(r.gen) /\ Issued(r.gen) /\ ~Dead(r.gen)
    \/ /\ r.op = "replace" /\ Replace(r.old, r.gen) /\ Issued(r.gen)
       /\ r.old \in Gens /\ Usable(r.old) /\ Standing(owner[r.gen])

\* An issued certificate has an identity.
LEMMA HasOwner ==
  ASSUME Base, NEW g \in Gens, Issued(g)
  PROVE  owner[g] \in Ids
  BY DEF Base, ServerTypes, OwnerOK

\* An answer and its effect.
LEMMA EffectOutcome ==
  ASSUME Base, NEW r \in Pending, NEW a \in Answers(r), Effect(r, a)
  PROVE  /\ Outcome(r) /\ a \in {"ok", "rejected", "unknown"}
         /\ a # "ok" => UNCHANGED serverVars
         /\ r.op \in IssueOps /\ a = "ok" => status'[r.gen] = "pending"
         /\ r.op = "activate" /\ a # "ok" => status[r.gen] \notin {"pending", "active", "retiring", "retired"}
<1>1. r \in Requests /\ r.gen \in Gens /\ RequestOK(r)
  BY PendingRequests
<1>2. r.op \in {"enroll", "renew", "activate", "replace"}
  BY <1>1 DEF Requests
<1>3. CASE r.op = "enroll"
  <2>1. a \in {"ok", "rejected"} /\ status[r.gen] = "keyed"
    BY <1>1, <1>3 DEF Answers, RequestOK, IssueOps
  <2>2. \/ a # "ok" /\ UNCHANGED serverVars
        \/ a = "ok" /\ \E i \in Ids : (\A g \in Gens : owner[g] # i) /\ Issue(r.gen, i)
    BY <1>3 DEF Effect
  <2>3. a = "ok" => status'[r.gen] = "pending"
    BY <1>1, <2>2 DEF Issue, Base, ServerTypes
  <2> QED BY <1>3, <2>1, <2>2, <2>3 DEF Outcome, IssueOps
<1>4. CASE r.op = "renew"
  <2>1. a \in {"ok", "unknown"} /\ (a = "ok" => Usable(r.old)) /\ status[r.gen] = "keyed"
        /\ r.old \in Gens /\ Issued(r.old)
    BY <1>1, <1>4 DEF Answers, RequestOK, IssueOps
  <2>2. \/ a # "ok" /\ UNCHANGED serverVars
        \/ a = "ok" /\ Issue(r.gen, owner[r.old])
    BY <1>4 DEF Effect
  <2>3. a = "ok" => status'[r.gen] = "pending"
    BY <1>1, <2>2 DEF Issue, Base, ServerTypes
  <2>4. owner[r.old] \in Ids
    BY <2>1, HasOwner
  <2> QED BY <1>4, <2>1, <2>2, <2>3, <2>4 DEF Outcome, IssueOps
<1>5. CASE r.op = "activate"
  <2>1. a \in {"ok", "rejected"} /\ (a = "ok" <=> status[r.gen] \in {"pending", "active", "retiring", "retired"})
        /\ Issued(r.gen)
    BY <1>1, <1>5 DEF Answers, RequestOK, IssueOps
  <2>2. \/ a # "ok" /\ UNCHANGED serverVars
        \/ a = "ok" /\ Activate(r.gen)
    BY <1>5 DEF Effect
  <2> QED BY <1>5, <2>1, <2>2 DEF Outcome, IssueOps, Dead
<1>6. CASE r.op = "replace"
  <2>1. a \in {"ok", "rejected", "unknown"} /\ (a = "ok" => Usable(r.old) /\ Standing(owner[r.gen]))
        /\ Issued(r.gen) /\ r.old \in Gens
    BY <1>1, <1>6 DEF Answers, RequestOK, IssueOps
  <2>2. \/ a # "ok" /\ UNCHANGED serverVars
        \/ a = "ok" /\ Replace(r.old, r.gen)
    BY <1>6 DEF Effect
  <2> QED BY <1>6, <2>1, <2>2 DEF Outcome, IssueOps
<1> QED BY <1>2, <1>3, <1>4, <1>5, <1>6

\* Certificates only move on, and only generation k is given one.
Ages(k) ==
    /\ ServerTypes' /\ OwnerOK'
    /\ \A g \in Gens :
         /\ Issued(g) => Issued(g)' /\ owner'[g] = owner[g]
         /\ Dead(g) => status'[g] = status[g]
         /\ g # k => (Issued(g)' <=> Issued(g)) /\ owner'[g] = owner[g]
         /\ ~Issued(g) /\ g # k => status'[g] = status[g]

\* A revocation.
LEMMA RevokeAges ==
  ASSUME Base, NEW i \in Ids, NEW as \in {"replaced", "revoked"}, Revoke(i, as),
         heir' \in [Gens -> Gens \cup {None}]
  PROVE  Ages(None)
<1>1. \A g \in Gens : status'[g] = status[g] \/ (owner[g] = i /\ ~Dead(g) /\ Issued(g) /\ status'[g] = as)
  BY DEF Revoke, Dead, Issued
<1>2. ServerTypes'
  BY DEF Revoke, Base, ServerTypes, Statuses
<1>3. \A g \in Gens : Issued(g)' <=> Issued(g)
  BY <1>1 DEF Issued
<1>4. OwnerOK' /\ owner' = owner
  BY <1>3 DEF Base, OwnerOK, Revoke
<1> QED BY <1>1, <1>2, <1>3, <1>4 DEF Ages

\* A request.
LEMMA OutcomeAges ==
  ASSUME Base, NEW r \in Pending, Outcome(r)
  PROVE  (r.op \in IssueOps /\ Ages(r.gen)) \/ Ages(None)
<1>1. r \in Requests /\ r.gen \in Gens /\ RequestOK(r)
  BY PendingRequests
<1>2. CASE UNCHANGED serverVars
  BY <1>2 DEF Ages, Base, ServerTypes, OwnerOK, Issued, Dead, serverVars
<1>3. ASSUME r.op \in IssueOps, status[r.gen] = "keyed", NEW i \in Ids, Issue(r.gen, i)
      PROVE  Ages(r.gen)
  <2>1. \A g \in Gens : g # r.gen => status'[g] = status[g] /\ owner'[g] = owner[g]
    BY <1>3 DEF Issue, Base, ServerTypes
  <2>2. status'[r.gen] = "pending" /\ owner'[r.gen] = i
    BY <1>1, <1>3 DEF Issue, Base, ServerTypes
  <2>3. ServerTypes'
    BY <1>1, <1>3 DEF Issue, Base, ServerTypes, Statuses
  <2>4. OwnerOK'
    BY <2>1, <2>2, CredentialConstants DEF Base, OwnerOK, Issued
  <2> QED BY <1>3, <2>1, <2>2, <2>3, <2>4 DEF Ages, Issued, Dead
<1>4. ASSUME Activate(r.gen), Issued(r.gen) PROVE Ages(None)
  <2>1. \A g \in Gens : \/ status'[g] = status[g]
                        \/ status[g] \in {"pending", "active"} /\ status'[g] \in {"active", "retiring"}
    BY <1>1, <1>4 DEF Activate
  <2>2. ServerTypes'
    BY <1>1, <1>4 DEF Activate, Base, ServerTypes, Statuses
  <2>3. \A g \in Gens : Issued(g)' <=> Issued(g)
    BY <2>1 DEF Issued
  <2>4. OwnerOK' /\ owner' = owner
    BY <1>4, <2>3 DEF Base, OwnerOK, Activate
  <2> QED BY <2>1, <2>2, <2>3, <2>4 DEF Ages, Dead, Issued
<1>5. ASSUME Replace(r.old, r.gen), r.old \in Gens, Usable(r.old) PROVE Ages(None)
  <2>1. owner[r.old] \in Ids
    BY <1>5, HasOwner DEF Usable, Issued
  <2>2. heir' \in [Gens -> Gens \cup {None}]
    BY <1>1, <1>5 DEF Replace, Base, ServerTypes
  <2> QED BY <1>5, <2>1, <2>2, RevokeAges DEF Replace
<1> QED BY <1>2, <1>3, <1>4, <1>5 DEF Outcome

\* A step of the server.
LEMMA ServerBase ==
  ASSUME Base, NEW k, Ages(k), Pending' \subseteq Pending, late' \subseteq late, Waiting' \subseteq Waiting,
         \A r \in Pending' : r.op \in IssueOps => r.gen # k,
         UNCHANGED <<current, previous, disk, lock, pc, gen, call, failures>>,
         ProcTypes', \A p \in Procs : ProcOK(p)'
  PROVE  Base'
<1>1. StateTypes' /\ PointerOK'
  <2>1. Stranded => Stranded'
    BY DEF Stranded, Ages
  <2> QED BY <2>1 DEF Base, StateTypes, PointerOK, PointerNeverDangles, failures
<1>2. DiskOK'
  BY DEF Base, DiskOK, StateTypes, Ages
<1>3. AskedOnce'
  BY DEF Base, AskedOnce
<1>4. ASSUME NEW r \in Pending' PROVE RequestOK(r)'
  <2>1. r \in Requests /\ r.gen \in Gens /\ RequestOK(r)
    BY PendingRequests
  <2>2. r.op \in IssueOps => status'[r.gen] = status[r.gen]
    BY <2>1 DEF Ages, RequestOK, Issued
  <2>3. r.old \in Gens /\ Issued(r.old) => Issued(r.old)'
    BY DEF Ages
  <2>4. Issued(r.gen) => Issued(r.gen)'
    BY <2>1 DEF Ages
  <2> QED BY <2>1, <2>2, <2>3, <2>4 DEF RequestOK
<1> QED BY <1>1, <1>2, <1>3, <1>4 DEF Base, Ages

\* A step that answers no process.
LEMMA QuietProcs ==
  ASSUME Base, NEW k, Ages(k), UNCHANGED <<current, previous, disk, lock, pc, gen, call, reply>>
  PROVE  ProcTypes' /\ Waiting' = Waiting /\ \A p \in Procs : ProcOK(p)'
<1>1. ProcTypes' /\ Waiting' = Waiting
  BY DEF Base, ProcTypes, Waiting
<1>2. ASSUME NEW p \in Procs PROVE ProcOK(p)'
  <2>1. ProcOK(p)
    BY DEF Base
  <2>2. Issued(gen[p]) /\ gen[p] \in Gens => Issued(gen[p])'
    BY DEF Ages, Issued
  <2>3. pc[p] # "idle" => (Issued(gen[p]) => Issued(gen[p])')
    BY <2>1, <2>2 DEF ProcOK, Issued
  <2> QED BY <2>1, <2>3 DEF ProcOK, Fresh
<1> QED BY <1>1, <1>2

\* Two pending requests for a certificate are for different generations.
LEMMA OtherIssue ==
  ASSUME Base, NEW r \in Pending, r.op \in IssueOps, NEW s \in Pending, s.op \in IssueOps, r.gen = s.gen
  PROVE  r = s
<1>1. \A p \in Waiting : call[p].op \in IssueOps => call[p].gen = gen[p]
  BY AsksFor
<1>2. \A p, q \in Waiting : p = q
  <2>1. \A p \in Waiting : p \in Procs /\ pc[p] # "idle"
    BY AsksFor
  <2> QED BY <2>1 DEF Base, ProcTypes
<1> QED BY <1>1, <1>2 DEF Base, AskedOnce, Pending

\* The server answers a process.
LEMMA BaseServe ==
  ASSUME Base, NEW p \in Procs, Serve(p)
  PROVE  Base'
<1>1. /\ p \in Waiting /\ call[p] \in Pending
      /\ UNCHANGED <<current, previous, disk, lock, pc, gen, call, late, failures>>
  BY DEF Serve, Waiting, Pending
<1>2. PICK a \in Answers(call[p]) : Effect(call[p], a) /\ reply' = [reply EXCEPT ![p] = a]
  BY DEF Serve
<1> DEFINE r == call[p]
<1>3. /\ Outcome(r) /\ a \in {"ok", "rejected", "unknown"}
      /\ r.op \in IssueOps /\ a = "ok" => status'[r.gen] = "pending"
  BY <1>1, <1>2, EffectOutcome
<1>4. reply'[p] = a /\ (\A q \in Procs : q # p => reply'[q] = reply[q]) /\ pc[p] # "idle" /\ call[p] # None
  BY <1>1, <1>2 DEF Base, ProcTypes, ProcOK, Waiting
<1>5. Waiting' = {}
  BY <1>1, <1>3, <1>4, Alone DEF Waiting
<1>6. Pending' = late
  BY <1>1, <1>5 DEF Pending
<1>7. PICK k : Ages(k) /\ (k = None \/ (r.op \in IssueOps /\ k = r.gen))
  BY <1>1, <1>3, OutcomeAges
<1>8. ProcTypes'
  BY <1>1, <1>2, <1>3 DEF Base, ProcTypes
<1>9. ASSUME NEW q \in Procs PROVE ProcOK(q)'
  <2>1. CASE q # p
    <3>1. pc'[q] = "idle" /\ gen'[q] = None /\ call'[q] = None /\ reply'[q] = "none"
      BY <1>1, <1>4, <2>1, Alone
    <3> QED BY <3>1 DEF ProcOK, Fresh, AtCurrent, Waits
  <2>2. CASE q = p
    <3>1. ProcOK(p)
      BY DEF Base
    <3>2. Issued(gen[p]) => Issued(gen[p])'
      <4>1. gen[p] \in Gens
        BY <1>4, <3>1 DEF ProcOK
      <4> QED BY <1>1, <1>7, <4>1 DEF Ages, Issued
    <3>3. pc[p] = "asking" /\ a = "ok" => Issued(gen[p])'
      <4>1. pc[p] = "asking" => r.op \in IssueOps /\ r.gen = gen[p]
        BY <3>1 DEF ProcOK, Fresh
      <4> QED BY <1>1, <1>3, <4>1 DEF Issued
    <3> QED BY <1>1, <1>3, <1>4, <2>2, <3>1, <3>2, <3>3 DEF ProcOK, Fresh, Waits
  <2> QED BY <2>1, <2>2
<1>10. \A s \in Pending' : s.op \in IssueOps => s.gen # k
  <2>1. \A s \in late : s \in Requests /\ s.gen \in Gens
    BY DEF Base, StateTypes, Requests
  <2>2. r.op \in IssueOps => \A s \in late : s.op \in IssueOps => s.gen # gen[p]
    BY <1>1 DEF Base, AskedOnce
  <2>5. r.op \in IssueOps => r.gen = gen[p]
    BY <1>1, AsksFor
  <2> QED BY <1>6, <1>7, <2>1, <2>2, <2>5, CredentialConstants
<1>11. Pending' \subseteq Pending /\ late' \subseteq late /\ Waiting' \subseteq Waiting
  BY <1>1, <1>5, <1>6 DEF Pending
<1> QED BY ONLY Base, <1>1, <1>7, <1>8, <1>9, <1>10, <1>11, ServerBase

\* A late request is served.
LEMMA BaseServeLate ==
  ASSUME Base, NEW r \in late, ServeLate(r)
  PROVE  Base'
<1>1. /\ r \in Pending /\ late' = late \ {r}
      /\ UNCHANGED <<current, previous, disk, lock, pc, gen, call, reply, failures>>
  BY DEF ServeLate, Pending
<1>2. Outcome(r)
  BY <1>1, EffectOutcome DEF ServeLate
<1>3. PICK k : Ages(k) /\ (k = None \/ (r.op \in IssueOps /\ k = r.gen))
  BY <1>1, <1>2, OutcomeAges
<1>4. ProcTypes' /\ Waiting' = Waiting /\ \A p \in Procs : ProcOK(p)'
  BY <1>1, <1>3, QuietProcs
<1>5. Pending' \subseteq Pending
  BY <1>1, <1>4 DEF Pending
<1>6. ASSUME NEW s \in Pending', s.op \in IssueOps PROVE s.gen # k
  <2>1. s \in Pending /\ s.gen \in Gens
    BY <1>5, PendingRequests
  <2>2. CASE r.op \in IssueOps /\ s.gen = r.gen
    <3>1. s = r
      BY <1>1, <1>6, <2>1, <2>2, OtherIssue
    <3>2. PICK p \in Waiting : s = call[p]
      BY <1>1, <1>4, <3>1 DEF Pending
    <3> QED BY <1>6, <2>2, <3>1, <3>2, AsksFor DEF Base, AskedOnce
  <2> QED BY <1>3, <2>1, <2>2, CredentialConstants
<1> QED BY ONLY Base, <1>1, <1>3, <1>4, <1>5, <1>6, ServerBase

\* The server acts on its own.
LEMMA BaseServer ==
  ASSUME Base, Ages(None), UNCHANGED <<current, previous, disk, lock, pc, gen, call, reply, late, failures>>
  PROVE  Base'
<1>1. ProcTypes' /\ Waiting' = Waiting /\ \A p \in Procs : ProcOK(p)'
  BY QuietProcs
<1>2. Pending' = Pending
  BY <1>1 DEF Pending
<1>3. \A r \in Pending' : r.op \in IssueOps => r.gen # None
  BY <1>2, PendingRequests, CredentialConstants
<1> QED BY <1>1, <1>2, <1>3, ServerBase

\* maintenance_once: a certificate that moves on by itself.
LEMMA MovesOnAges ==
  ASSUME Base, NEW g \in Gens, Issued(g), ~Dead(g), NEW s \in {"swept", "retired"},
         status' = [status EXCEPT ![g] = s], UNCHANGED <<owner, heir>>
  PROVE  Ages(None)
<1>1. \A h \in Gens : status'[h] = IF h = g THEN s ELSE status[h]
  BY DEF Base, ServerTypes
<1>2. ServerTypes'
  BY DEF Base, ServerTypes, Statuses
<1>3. \A h \in Gens : Issued(h)' <=> Issued(h)
  BY <1>1 DEF Issued
<1>4. OwnerOK'
  BY <1>3 DEF Base, OwnerOK
<1> QED BY <1>1, <1>2, <1>3, <1>4 DEF Ages, Dead

\* maintenance_once, the end of the overlap, and a revocation by an Admin.
LEMMA BaseMaintenance ==
  ASSUME Base,
         \/ \E g \in Gens : Sweep(g) \/ Retire(g)
         \/ \E i \in Ids : RevokeIdentity(i)
  PROVE  Base' /\ Ages(None)
<1>1. ASSUME NEW g \in Gens, Sweep(g) PROVE Base' /\ Ages(None)
  BY <1>1, MovesOnAges, BaseServer DEF Sweep, Issued, Dead
<1>2. ASSUME NEW g \in Gens, Retire(g) PROVE Base' /\ Ages(None)
  BY <1>2, MovesOnAges, BaseServer DEF Retire, Issued, Dead
<1>3. ASSUME NEW i \in Ids, RevokeIdentity(i) PROVE Base' /\ Ages(None)
  <2>1. Ages(None)
    BY <1>3, RevokeAges DEF RevokeIdentity, Base, ServerTypes
  <2> QED BY <1>3, <2>1, BaseServer DEF RevokeIdentity
<1> QED BY <1>1, <1>2, <1>3

\* Nothing happens.
LEMMA BaseStutters ==
  ASSUME Base, UNCHANGED credentialVars
  PROVE  Base'
<1>1. Ages(None)
  BY DEF credentialVars, Ages, Base, ServerTypes, OwnerOK, Issued, Dead
<1> QED BY <1>1, BaseServer DEF credentialVars, failures

\* The initial state.
LEMMA InitBase ==
  ASSUME Init
  PROVE  Base
<1>1. StateTypes /\ ServerTypes /\ ProcTypes
  <2>0. /\ current = None /\ previous = None /\ disk = {} /\ late = {}
        /\ crashes = 0 /\ outages = 0 /\ botched = FALSE
    BY DEF Init
  <2>1. StateTypes
    <3>1. crashes \in 0..MaxCrashes /\ outages \in 0..MaxOutages
      BY <2>0, CredentialConstants
    <3>2. botched \in BOOLEAN
      BY <2>0
    <3> QED BY ONLY <2>0, <3>1, <3>2 DEF StateTypes
  <2> QED BY <2>1, CredentialConstants, NoneIsNothing DEF Init, ServerTypes, ProcTypes, Statuses, Steps, Procs
<1>2. PointerOK /\ DiskOK /\ OwnerOK
  BY DEF Init, PointerOK, PointerNeverDangles, DiskOK, OwnerOK, Issued
<1>3. Waiting = {} /\ Pending = {}
  BY DEF Init, Waiting, Pending
<1>4. \A p \in Procs : ProcOK(p)
  BY DEF Init, ProcOK, Fresh, AtCurrent, Waits
<1>5. AskedOnce
  BY <1>3 DEF Init, AskedOnce
<1> QED BY <1>1, <1>2, <1>3, <1>4, <1>5 DEF Base

\* Every step.
LEMMA NextBase ==
  ASSUME Base, [Next]_credentialVars
  PROVE  Base'
<1>1. ASSUME NEW p \in Procs, ProcStep(p) PROVE Base'
  BY <1>1, BaseReceive, BasePersist, BasePublish, BaseActivationAnswered, BaseUndo, BaseCleanUp,
     BaseCommit DEF ProcStep
<1>2. ASSUME NEW p \in Procs, Serve(p) \/ Fail(p) \/ Crash(p) PROVE Base'
  BY <1>2, BaseServe, BaseFail, BaseCrash
<1>3. ASSUME NEW g \in Gens, StartEnrollment(g) \/ Sweep(g) \/ Retire(g) PROVE Base'
  BY <1>3, BaseStartEnrollment, BaseMaintenance
<1>4. ASSUME DaemonStep PROVE Base'
  BY <1>4, BaseLoad, BaseFinalize, BaseFinish, BaseAdopt, BaseNotDue, BaseRenew DEF DaemonStep
<1> QED BY <1>1, <1>2, <1>3, <1>4, BaseMaintenance, BaseServeLate, BaseReplacementAnswered, BaseStutters
        DEF Next

\* Base holds in every state.
THEOREM CredentialsBase == Spec => []Base
<1>1. Init => Base
  BY InitBase
<1>2. Base /\ [Next]_credentialVars => Base'
  BY NextBase
<1> QED BY <1>1, <1>2, PTL DEF Spec

\* The credential life cycle is well typed, and a process that is not idle
\* holds the state lock.
THEOREM CredentialsType == Spec => []TypeOK
<1>1. Base => TypeOK
  BY DEF Base, StateTypes, ServerTypes, ProcTypes, TypeOK
<1> QED BY <1>1, CredentialsBase, PTL

\* Whoever dies and whatever call fails, the active pointer and its
\* predecessor name generations that are on disk (cleanup_failed_generation,
\* rollback), unless a failed publication that could not be undone was
\* cleaned up all the same.
THEOREM CredentialsNeverDangle == Spec => []PointerNeverDangles
<1>1. Base => PointerNeverDangles
  BY DEF Base, PointerOK
<1> QED BY <1>1, CredentialsBase, PTL

-----------------------------------------------------------------------------
(***************************************************************************)
(* What the device throws away.  An activation that is under way, with its *)
(* sender waiting for it or without, is one of a published generation, or  *)
(* of one that is dead already.                                            *)
(***************************************************************************)
Activates == {"activating", "finalizing"}

\* An activation of generation g may still take effect.
ActivationDue(g) ==
    \/ \E r \in late : r.op = "activate" /\ r.gen = g
    \/ \E p \in Procs : pc[p] \in Activates /\ reply[p] = "none" /\ gen[p] = g

NotActivated(g) == ~Live(g) /\ (Dead(g) \/ ~ActivationDue(g))

\* What process p knows of the generation g it works on.
GivesUp(p, g) ==
    /\ pc[p] = "publishing" => NotActivated(g)
    /\ pc[p] \in {"undoing", "cleaning"} => Dead(g)
    /\ pc[p] \in Activates /\ reply[p] \notin {"none", "ok"} => Dead(g)

Discarded ==
    /\ \A g \in Gens \ disk : NotActivated(g)
    /\ \A p \in Procs, g \in Gens : gen[p] = g => GivesUp(p, g)

\* No certificate comes to life, and none back from the dead.
Calm == \A g \in Gens : (Dead(g) => Dead(g)') /\ (Live(g)' => Live(g))

\* A step of process p, seen from outside.
Follows(p) ==
    /\ \A q \in Procs : q # p => pc'[q] = "idle"
    /\ pc'[p] \in Activates => reply'[p] = "none" /\ gen'[p] \in disk'
    /\ pc'[p] = "publishing" => pc[p] = "persisting" /\ gen'[p] = gen[p]
    /\ pc'[p] \in {"undoing", "cleaning"} =>
         /\ gen'[p] = gen[p]
         /\ pc[p] = "undoing" \/ (pc[p] = "activating" /\ reply[p] \notin {"none", "ok"})
    /\ \A g \in Gens : g \in disk \ disk' => gen[p] = g /\ pc[p] \in {"publishing", "cleaning"}

\* A generation that is not activated stays so.
LEMMA StaysInactive ==
  ASSUME NEW g \in Gens, Calm, ActivationDue(g)' => ActivationDue(g), NotActivated(g)
  PROVE  NotActivated(g)'
  BY DEF Calm, NotActivated

\* A step of a process keeps Discarded.
LEMMA DiscardedStep ==
  ASSUME Base, Discarded, NEW p \in Procs, Follows(p), Calm, late' = late
  PROVE  Discarded'
<1>1. ASSUME NEW g \in Gens, ActivationDue(g)', ~ActivationDue(g)
      PROVE  pc'[p] \in Activates /\ gen'[p] = g /\ g \in disk'
  BY <1>1 DEF ActivationDue, Follows, Activates
<1>2. ASSUME NEW g \in Gens \ disk' PROVE NotActivated(g)'
  <2>1. NotActivated(g)
    <3>1. CASE g \notin disk
      BY <3>1 DEF Discarded
    <3>2. CASE g \in disk
      <4>1. gen[p] = g /\ pc[p] \in {"publishing", "cleaning"} /\ GivesUp(p, g)
        BY <3>2 DEF Follows, Discarded
      <4> QED BY <4>1 DEF GivesUp, NotActivated, Live, Dead
    <3> QED BY <3>1, <3>2
  <2> QED BY <1>1, <2>1, StaysInactive
<1>3. ASSUME NEW q \in Procs, NEW g \in Gens, gen'[q] = g PROVE GivesUp(q, g)'
  <2>1. CASE q # p
    <3>1. pc'[q] = "idle"
      BY <2>1 DEF Follows
    <3> QED BY <3>1 DEF GivesUp, Activates
  <2>2. CASE q = p
    <3>1. ASSUME pc'[p] = "publishing" PROVE NotActivated(g)'
      <4>1. pc[p] = "persisting" /\ gen[p] = g
        BY <1>3, <2>2, <3>1 DEF Follows
      <4>2. g \notin disk
        BY <4>1 DEF Base, ProcOK
      <4>3. NotActivated(g)
        BY <4>2 DEF Discarded
      <4>4. pc'[p] \notin Activates
        BY <3>1 DEF Activates
      <4> QED BY <1>1, <4>3, <4>4, StaysInactive
    <3>2. ASSUME pc'[p] \in {"undoing", "cleaning"} PROVE Dead(g)'
      <4>1. gen[p] = g /\ (pc[p] = "undoing" \/ (pc[p] = "activating" /\ reply[p] \notin {"none", "ok"}))
        BY <1>3, <2>2, <3>2 DEF Follows
      <4>2. GivesUp(p, g)
        BY <4>1 DEF Discarded
      <4> QED BY <4>1, <4>2 DEF GivesUp, Calm, Activates
    <3>3. pc'[p] \in Activates => reply'[p] = "none"
      BY DEF Follows
    <3> QED BY <2>2, <3>1, <3>2, <3>3 DEF GivesUp
  <2> QED BY <2>1, <2>2
<1> QED BY <1>2, <1>3 DEF Discarded

\* Where a process goes.
LEMMA GoesTo ==
  ASSUME Base, NEW p \in Procs, NEW s, Goto(p, s)
  PROVE  pc'[p] = s /\ \A q \in Procs : q # p => pc'[q] = pc[q]
  BY DEF Goto, Base, ProcTypes

\* The steps of either process.
LEMMA ProcFollows ==
  ASSUME Base, NEW p \in Procs, ProcStep(p)
  PROVE  Follows(p) /\ UNCHANGED serverVars /\ late' = late
<1>0. pc[p] # "idle" /\ ProcOK(p) /\ \A q \in Procs : q # p => pc[q] = "idle"
  <2>1. pc[p] # "idle"
    BY DEF ProcStep, Receive, Persist, Publish, ActivationAnswered, Undo, CleanUp, Commit, Answered
  <2> QED BY <2>1, Alone DEF Base
<1>1. ASSUME NEW s \in {"idle", "persisting", "committing", "replacing"}, Goto(p, s), disk' = disk
      PROVE  Follows(p)
  BY <1>0, <1>1, GoesTo DEF Follows, Activates
<1>2. CASE Receive(p)
  <2>1. Goto(p, "persisting") \/ Goto(p, "idle")
    BY <1>2 DEF Receive, Release
  <2> QED BY <1>1, <1>2, <2>1 DEF Receive, serverVars
<1>3. CASE Persist(p)
  <2>1. \/ Goto(p, "publishing") /\ pc[p] = "persisting" /\ gen' = gen /\ disk \subseteq disk'
        \/ Goto(p, "idle") /\ disk' = disk
    BY <1>3 DEF Persist, Release
  <2>2. ASSUME Goto(p, "publishing") /\ pc[p] = "persisting" /\ gen' = gen /\ disk \subseteq disk'
        PROVE  Follows(p)
    BY <1>0, <2>2, GoesTo DEF Follows, Activates
  <2> QED BY <1>1, <1>3, <2>1, <2>2 DEF Persist, serverVars
<1>4. CASE Publish(p)
  <2>0. pc[p] = "publishing" /\ gen[p] \in disk
    BY <1>0, <1>4 DEF Publish, ProcOK
  <2>1. \/ Goto(p, "activating") /\ reply' = [reply EXCEPT ![p] = "none"] /\ gen' = gen /\ disk' = disk
        \/ Goto(p, "idle") /\ disk' = disk \ {gen[p]}
    BY <1>4 DEF Publish, Release, Call
  <2>2. ASSUME Goto(p, "activating") /\ reply' = [reply EXCEPT ![p] = "none"] /\ gen' = gen /\ disk' = disk
        PROVE  Follows(p)
    <3>1. reply'[p] = "none"
      BY <2>2 DEF Base, ProcTypes
    <3> QED BY <1>0, <2>0, <2>2, <3>1, GoesTo DEF Follows, Activates
  <2>3. ASSUME Goto(p, "idle") /\ disk' = disk \ {gen[p]}
        PROVE  Follows(p)
    BY <1>0, <2>0, <2>3, GoesTo DEF Follows, Activates
  <2> QED BY <1>4, <2>1, <2>2, <2>3 DEF Publish, serverVars
<1>5. CASE ActivationAnswered(p)
  <2>0. pc[p] = "activating" /\ reply[p] # "none" /\ gen' = gen /\ disk' = disk
    BY <1>5 DEF ActivationAnswered, Answered
  <2>1. \/ Goto(p, "undoing") /\ reply[p] # "ok"
        \/ Goto(p, "replacing") \/ Goto(p, "committing")
    BY <1>5 DEF ActivationAnswered, Call
  <2>2. ASSUME Goto(p, "undoing") /\ reply[p] # "ok"
        PROVE  Follows(p)
    BY <1>0, <2>0, <2>2, GoesTo DEF Follows, Activates
  <2> QED BY <1>1, <1>5, <2>0, <2>1, <2>2 DEF ActivationAnswered, serverVars
<1>6. CASE Undo(p)
  <2>1. /\ pc[p] = "undoing" /\ disk' = disk
        /\ (Goto(p, "cleaning") /\ gen' = gen) \/ Goto(p, "idle")
    BY <1>6 DEF Undo, Release
  <2>2. ASSUME Goto(p, "cleaning") /\ gen' = gen
        PROVE  Follows(p)
    BY <1>0, <2>1, <2>2, GoesTo DEF Follows, Activates
  <2> QED BY <1>1, <1>6, <2>1, <2>2 DEF Undo, serverVars
<1>7. CASE CleanUp(p)
  <2>1. pc[p] = "cleaning" /\ disk' = disk \ {gen[p]} /\ Goto(p, "idle")
    BY <1>7 DEF CleanUp, Release
  <2>2. Follows(p)
    BY <1>0, <2>1, GoesTo DEF Follows, Activates
  <2> QED BY <1>7, <2>2 DEF CleanUp, serverVars
<1>8. CASE Commit(p)
  <2>1. Goto(p, "idle") /\ disk' = disk
    BY <1>8 DEF Commit, Release
  <2> QED BY <1>1, <1>8, <2>1 DEF Commit, serverVars
<1> QED BY <1>2, <1>3, <1>4, <1>5, <1>6, <1>7, <1>8 DEF ProcStep

\* The steps of the daemon, and of reenroll.
LEMMA OwnFollows ==
  ASSUME Base, NEW p \in Procs,
         \/ p = "cli" /\ ReplacementAnswered
         \/ /\ p = "daemon"
            /\ LoadLatestConfig \/ FinalizeAnswered \/ FinishAnswered \/ Adopt \/ NotDue
  PROVE  Follows(p) /\ UNCHANGED serverVars /\ late' = late
<1>0. \A q \in Procs : q # p => pc[q] = "idle"
  <2>1. pc[p] # "idle" \/ lock = None
    BY DEF ReplacementAnswered, LoadLatestConfig, FinalizeAnswered, FinishAnswered, Adopt, NotDue, Answered,
           LockFree
  <2> QED BY <2>1, Alone
<1>1. ASSUME NEW s \in {"idle", "committing", "finishing", "adopting", "deciding"}, Goto(p, s), disk' = disk
      PROVE  Follows(p)
  BY <1>0, <1>1, GoesTo DEF Follows, Activates
<1>2. CASE p = "cli" /\ ReplacementAnswered
  <2>1. disk' = disk /\ (Goto(p, "idle") \/ Goto(p, "committing"))
    BY <1>2 DEF ReplacementAnswered, Release
  <2> QED BY <1>1, <1>2, <2>1 DEF ReplacementAnswered, serverVars
<1>3. CASE p = "daemon" /\ LoadLatestConfig
  <2>1. /\ current \in disk /\ disk' = disk /\ gen' = [gen EXCEPT ![p] = current]
        /\ Goto(p, "finalizing") /\ reply' = [reply EXCEPT ![p] = "none"]
    BY <1>3 DEF LoadLatestConfig, Call
  <2>2. gen'[p] = current /\ reply'[p] = "none"
    BY <2>1 DEF Base, ProcTypes
  <2>3. Follows(p)
    BY <1>0, <2>1, <2>2, GoesTo DEF Follows, Activates
  <2> QED BY <1>3, <2>3 DEF LoadLatestConfig, serverVars
<1>4. CASE p = "daemon" /\ FinalizeAnswered
  <2>1. disk' = disk /\ (Goto(p, "idle") \/ Goto(p, "finishing") \/ Goto(p, "adopting"))
    BY <1>4 DEF FinalizeAnswered, Release, Call
  <2> QED BY <1>1, <1>4, <2>1 DEF FinalizeAnswered, serverVars
<1>5. CASE p = "daemon" /\ FinishAnswered
  <2>1. disk' = disk /\ (Goto(p, "idle") \/ Goto(p, "adopting"))
    BY <1>5 DEF FinishAnswered, Release
  <2> QED BY <1>1, <1>5, <2>1 DEF FinishAnswered, serverVars
<1>6. CASE p = "daemon" /\ (Adopt \/ NotDue)
  <2>1. disk' = disk /\ (Goto(p, "idle") \/ Goto(p, "deciding"))
    BY <1>6 DEF Adopt, NotDue, Release
  <2> QED BY <1>1, <1>6, <2>1 DEF Adopt, NotDue, serverVars
<1> QED BY <1>2, <1>3, <1>4, <1>5, <1>6

\* The server's unchanged view is calm.
LEMMA CalmServer ==
  ASSUME UNCHANGED serverVars
  PROVE  Calm
  BY DEF Calm, Dead, Live, serverVars

\* A new key pair and the request for its certificate.
LEMMA DiscardedAsk ==
  ASSUME Base, Discarded, NEW p \in Procs, pc[p] # "idle" \/ lock = None, NEW g \in Gens,
         NEW o, Ask(p, o, g), disk' = disk, late' = late
  PROVE  Discarded'
<1>1. Goto(p, "asking") /\ status[g] = "unused" /\ status' = [status EXCEPT ![g] = "keyed"]
  BY DEF Ask, Call
<1>2. Calm
  BY <1>1 DEF Calm, Dead, Live, Base, ServerTypes
<1>3. Follows(p)
  BY <1>1, GoesTo, Alone DEF Follows, Activates
<1> QED BY <1>2, <1>3, DiscardedStep

\* A process that waits for an activation is at that step.
LEMMA ActivatesFor ==
  ASSUME Base, NEW p \in Waiting
  PROVE  /\ call[p].op = "activate" => pc[p] \in Activates /\ call[p].gen = gen[p]
         /\ pc[p] \in Activates => call[p].op = "activate" /\ call[p].gen = gen[p]
<1>1. p \in Procs /\ pc[p] # "idle" /\ ProcOK(p) /\ pc[p] \in Waits
  BY DEF Waiting, Base, ProcOK
<1>2. CASE pc[p] = "asking"
  BY <1>1, <1>2 DEF ProcOK, Fresh, IssueOps, Activates
<1>3. CASE pc[p] \in Activates
  <2>1. call[p] = Request("activate", gen[p], None)
    BY <1>1, <1>3 DEF ProcOK, Activates
  <2> QED BY <1>3, <2>1 DEF Request
<1>4. CASE pc[p] \in {"replacing", "finishing"}
  <2>1. call[p] = Request("replace", gen[p], previous)
    BY <1>1, <1>4 DEF ProcOK
  <2> QED BY <1>4, <2>1 DEF Request, Activates
<1> QED BY <1>1, <1>2, <1>3, <1>4 DEF Waits, Activates

\* An activation that is pending is due.
LEMMA PendingIsDue ==
  ASSUME Base, NEW r \in Pending, r.op = "activate"
  PROVE  ActivationDue(r.gen)
<1>1. CASE r \in late
  BY <1>1 DEF ActivationDue
<1>2. ASSUME NEW p \in Waiting, r = call[p] PROVE ActivationDue(r.gen)
  BY <1>2, ActivatesFor DEF ActivationDue, Waiting
<1> QED BY <1>1, <1>2 DEF Pending

\* A process dies.
LEMMA DiscardedCrash ==
  ASSUME Base, Discarded, NEW p \in Procs, Crash(p)
  PROVE  Discarded'
<1>1. pc[p] # "idle" /\ Abandoned(p) /\ Release(p) /\ UNCHANGED serverVars /\ disk' = disk
  BY DEF Crash, serverVars
<1>2. \A q \in Procs : pc'[q] = "idle"
  BY <1>1, Returns
<1>3. ASSUME NEW g \in Gens, ActivationDue(g)' PROVE ActivationDue(g)
  <2>1. PICK r \in late' : r.op = "activate" /\ r.gen = g
    BY <1>2, <1>3 DEF ActivationDue, Activates
  <2>2. r \in Pending
    BY <1>1 DEF Abandoned, Pending, Waiting
  <2> QED BY <2>1, <2>2, PendingIsDue
<1>4. \A g \in Gens : NotActivated(g) => NotActivated(g)'
  BY <1>1, <1>3, CalmServer, StaysInactive
<1> QED BY <1>1, <1>2, <1>4 DEF Discarded, GivesUp, Activates

\* Nothing but an activation brings a certificate to life.
LEMMA OutcomeInactive ==
  ASSUME Base, NEW r \in Pending, Outcome(r), NEW g \in Gens, NotActivated(g)
  PROVE  ~Live(g)'
<1>1. r \in Requests /\ r.gen \in Gens
  BY PendingRequests
<1>2. r.op = "activate" /\ r.gen = g => ActivationDue(g)
  BY PendingIsDue
<1>3. CASE UNCHANGED serverVars
  BY <1>3 DEF serverVars, Live, NotActivated
<1>4. ASSUME NEW i, Issue(r.gen, i) PROVE ~Live(g)'
  BY <1>4 DEF Issue, Live, NotActivated, Base, ServerTypes
<1>5. ASSUME r.op = "activate", Activate(r.gen), ~Dead(r.gen) PROVE ~Live(g)'
  <2>1. CASE r.gen = g
    BY <1>2, <1>5, <2>1 DEF NotActivated
  <2>2. CASE r.gen # g
    BY <1>1, <1>5, <2>2 DEF Activate, NotActivated, Live
  <2> QED BY <2>1, <2>2
<1>6. ASSUME Replace(r.old, r.gen) PROVE ~Live(g)'
  BY <1>6 DEF Replace, Revoke, NotActivated, Live
<1> QED BY <1>3, <1>4, <1>5, <1>6 DEF Outcome

\* A step of the server keeps what was not activated.
LEMMA DiscardedServer ==
  ASSUME Base, Discarded, NEW k, Ages(k), \A g \in Gens : NotActivated(g) => ~Live(g)',
         \A g \in Gens : ActivationDue(g)' => ActivationDue(g),
         UNCHANGED <<disk, pc, gen>>,
         \A p \in Procs : reply'[p] = reply[p] \/ (pc[p] \in Waits /\ (pc[p] \in Activates /\ reply'[p] # "ok" => Dead(gen[p])))
  PROVE  Discarded'
<1>1. \A g \in Gens : Dead(g) => Dead(g)'
  BY DEF Ages, Dead
<1>2. \A g \in Gens : NotActivated(g) => NotActivated(g)'
  BY <1>1 DEF NotActivated
<1>3. ASSUME NEW p \in Procs, NEW g \in Gens, gen'[p] = g PROVE GivesUp(p, g)'
  <2>1. GivesUp(p, g) /\ gen[p] = g
    BY <1>3 DEF Discarded
  <2>2. CASE reply'[p] = reply[p]
    BY <1>1, <1>2, <2>1, <2>2 DEF GivesUp
  <2>3. CASE pc[p] \in Waits /\ (pc[p] \in Activates /\ reply'[p] # "ok" => Dead(gen[p]))
    BY <1>1, <2>1, <2>3 DEF GivesUp, Waits
  <2> QED BY <2>2, <2>3
<1> QED BY <1>2, <1>3 DEF Discarded

\* The server answers a process.
LEMMA DiscardedServe ==
  ASSUME Base, Discarded, NEW p \in Procs, Serve(p)
  PROVE  Discarded'
<1>1. /\ p \in Waiting /\ call[p] \in Pending /\ UNCHANGED <<disk, pc, gen, late>>
  BY DEF Serve, Waiting, Pending
<1>2. PICK a \in Answers(call[p]) : Effect(call[p], a) /\ reply' = [reply EXCEPT ![p] = a]
  BY DEF Serve
<1>3. /\ Outcome(call[p]) /\ a \in {"ok", "rejected", "unknown"}
      /\ call[p].op = "activate" /\ a # "ok" => status[call[p].gen] \notin {"pending", "active", "retiring", "retired"}
  BY <1>1, <1>2, EffectOutcome
<1>4. reply'[p] = a /\ \A q \in Procs : q # p => reply'[q] = reply[q]
  BY <1>2 DEF Base, ProcTypes
<1>5. PICK k : Ages(k)
  BY <1>1, <1>3, OutcomeAges
<1>6. \A g \in Gens : NotActivated(g) => ~Live(g)'
  BY <1>1, <1>3, OutcomeInactive
<1>7. \A g \in Gens : ActivationDue(g)' => ActivationDue(g)
  BY <1>1, <1>3, <1>4 DEF ActivationDue, Waiting
<1>8. pc[p] \in Waits /\ (pc[p] \in Activates /\ a # "ok" => Dead(gen[p]))
  <2>1. pc[p] \in Waits
    BY <1>1, AsksFor
  <2>2. ASSUME pc[p] \in Activates, a # "ok" PROVE Dead(gen[p])
    <3>1. call[p].op = "activate" /\ call[p].gen = gen[p]
      BY <1>1, <2>2, ActivatesFor
    <3>2. RequestOK(call[p]) /\ call[p].gen \in Gens
      BY <1>1, PendingRequests
    <3>3. Issued(gen[p]) /\ status[gen[p]] \in Statuses
      BY <3>1, <3>2 DEF RequestOK, Base, ServerTypes
    <3> QED BY <1>3, <2>2, <3>1, <3>3 DEF Issued, Dead, Statuses
  <2> QED BY <2>1, <2>2
<1> QED BY <1>1, <1>4, <1>5, <1>6, <1>7, <1>8, DiscardedServer

\* A late request is served.
LEMMA DiscardedServeLate ==
  ASSUME Base, Discarded, NEW r \in late, ServeLate(r)
  PROVE  Discarded'
<1>1. r \in Pending /\ late' \subseteq late /\ UNCHANGED <<disk, pc, gen, reply>>
  BY DEF ServeLate, Pending
<1>2. Outcome(r)
  BY <1>1, EffectOutcome DEF ServeLate
<1>3. PICK k : Ages(k)
  BY <1>1, <1>2, OutcomeAges
<1>4. \A g \in Gens : NotActivated(g) => ~Live(g)'
  BY <1>1, <1>2, OutcomeInactive
<1>5. \A g \in Gens : ActivationDue(g)' => ActivationDue(g)
  BY <1>1 DEF ActivationDue
<1> QED BY <1>1, <1>3, <1>4, <1>5, DiscardedServer

\* Deadlines and revocations.
LEMMA DiscardedMaintenance ==
  ASSUME Base, Discarded,
         \/ \E g \in Gens : Sweep(g) \/ Retire(g)
         \/ \E i \in Ids : RevokeIdentity(i)
  PROVE  Discarded'
<1>1. Ages(None) /\ UNCHANGED <<disk, pc, gen, reply, late>>
  BY BaseMaintenance DEF Sweep, Retire, RevokeIdentity
<1>2. ASSUME NEW g \in Gens, ~Live(g) PROVE ~Live(g)'
  BY <1>2 DEF Sweep, Retire, RevokeIdentity, Revoke, Live, Base, ServerTypes
<1>3. \A g \in Gens : ActivationDue(g)' => ActivationDue(g)
  BY <1>1 DEF ActivationDue
<1> QED BY <1>1, <1>2, <1>3, DiscardedServer DEF NotActivated

\* A call that was not lost after a step was not lost before it.
LEMMA StillCalled ==
  ASSUME Base, [Next]_credentialVars, outages' = 0
  PROVE  outages = 0
<1>1. CASE UNCHANGED credentialVars
  BY <1>1 DEF credentialVars
<1>2. ASSUME NEW p \in Procs, Fail(p) PROVE FALSE
  BY <1>2 DEF Fail, Base, StateTypes
<1>3. CASE Next
  BY <1>2, <1>3 DEF Next, ProcStep, Receive, Persist, Publish, ActivationAnswered, Undo, CleanUp, Commit,
               Serve, Crash, StartEnrollment, Sweep, Retire, RevokeIdentity, ServeLate, ReplacementAnswered,
               DaemonStep, LoadLatestConfig, FinalizeAnswered, FinishAnswered, Adopt, NotDue, Renew, failures
<1> QED BY <1>1, <1>3

\* As long as no living process loses a call, every step keeps Discarded.
LEMMA NextDiscarded ==
  ASSUME Base, outages = 0 => Discarded, [Next]_credentialVars, outages' = 0
  PROVE  Discarded'
<1>0. ~(\E p \in Procs : Fail(p))
  BY DEF Fail, Base, StateTypes
<1>1. Discarded
  BY StillCalled
<1>2. ASSUME NEW p \in Procs, ProcStep(p) PROVE Discarded'
  BY <1>1, <1>2, ProcFollows, CalmServer, DiscardedStep
<1>3. ASSUME NEW p \in Procs, Serve(p) \/ Crash(p) PROVE Discarded'
  BY <1>1, <1>3, DiscardedServe, DiscardedCrash
<1>4. ASSUME NEW g \in Gens, StartEnrollment(g) PROVE Discarded'
  <2>1. "cli" \in Procs /\ lock = None /\ Ask("cli", "enroll", g) /\ disk' = disk /\ late' = late
    BY <1>4 DEF StartEnrollment, Procs, LockFree
  <2> QED BY <1>1, <2>1, DiscardedAsk
<1>5. ASSUME NEW g \in Gens, Renew(g) PROVE Discarded'
  <2>1. "daemon" \in Procs /\ pc["daemon"] # "idle" /\ Ask("daemon", "renew", g) /\ disk' = disk /\ late' = late
    BY <1>5 DEF Renew, Procs
  <2> QED BY <1>1, <2>1, DiscardedAsk
<1>6. ASSUME ReplacementAnswered PROVE Discarded'
  <2>1. "cli" \in Procs
    BY DEF Procs
  <2>2. Follows("cli") /\ UNCHANGED serverVars /\ late' = late
    BY <1>6, <2>1, OwnFollows
  <2> QED BY <1>1, <2>1, <2>2, CalmServer, DiscardedStep
<1>7. ASSUME LoadLatestConfig \/ FinalizeAnswered \/ FinishAnswered \/ Adopt \/ NotDue PROVE Discarded'
  <2>1. "daemon" \in Procs
    BY DEF Procs
  <2>2. Follows("daemon") /\ UNCHANGED serverVars /\ late' = late
    BY <1>7, <2>1, OwnFollows
  <2> QED BY <1>1, <2>1, <2>2, CalmServer, DiscardedStep
<1>8. ASSUME NEW r \in late, ServeLate(r) PROVE Discarded'
  BY <1>1, <1>8, DiscardedServeLate
<1>9. CASE UNCHANGED credentialVars
  BY <1>1, <1>9 DEF credentialVars, Discarded, NotActivated, GivesUp, ActivationDue, Live, Dead
<1> QED BY <1>0, <1>1, <1>2, <1>3, <1>4, <1>5, <1>6, <1>7, <1>8, <1>9, DiscardedMaintenance DEF Next, DaemonStep

\* Initially there is nothing to throw away.
LEMMA InitDiscarded ==
  ASSUME Init
  PROVE  Discarded
  BY DEF Init, Discarded, NotActivated, GivesUp, ActivationDue, Live, Dead, Activates

\* As long as no living process loses a call, a generation that the device
\* threw away is not active on the server and never was (cleanup_failed_generation).
THEOREM CredentialsDiscarded == Spec => []DiscardedIsInactive
<1> DEFINE Inv == Base /\ (outages = 0 => Discarded)
<1>1. Init => Inv
  BY InitBase, InitDiscarded
<1>2. Inv /\ [Next]_credentialVars => Inv'
  BY NextBase, NextDiscarded
<1>3. Inv => DiscardedIsInactive
  BY DEF Discarded, DiscardedIsInactive, NotActivated, Live
<1> QED BY <1>1, <1>2, <1>3, PTL DEF Spec

-----------------------------------------------------------------------------
(***************************************************************************)
(* What a replacement hits.  A late replacement revokes the identity that  *)
(* the device is leaving, one that it does not use, or nothing.            *)
(***************************************************************************)
Sole(g) == \A h \in Gens : owner[h] = owner[g] => h = g
Fallen(g) == \A h \in Gens : owner[h] = owner[g] => Dead(h)

\* A renewal of generation g may still take effect.
RenewalDue(g) ==
    \/ \E r \in late : r.op = "renew" /\ r.old = g
    \/ \E p \in Procs : pc[p] = "asking" /\ reply[p] = "none" /\ call[p].op = "renew" /\ call[p].old = g

\* The device may come to use generation g, or its identity.
AtHand(g) == g = current \/ g = previous \/ \E p \in Procs : gen[p] = g
InUse(g) == \E h \in Gens : AtHand(h) /\ owner[h] = owner[g]

HeirDead(g) == \E h \in Gens : heir[g] = h /\ Dead(h)

\* Process p asks for a certificate for g, or has it and did not publish it.
FreshOK(p, g) ==
    /\ ~RenewalDue(g) /\ status[g] # "replaced"
    /\ Issued(g) /\ call[p].op = "renew" => owner[g] = owner[current]
    /\ Issued(g) /\ call[p].op = "enroll" => Sole(g)

\* Generation c is published and h its predecessor.
PairOK(c, h) ==
    /\ ~RenewalDue(c)
    /\ owner[h] # owner[c] \/ pc["cli"] = "activating" => Sole(c)
    /\ (\E p \in Procs : pc[p] \in {"replacing", "finishing"}) => owner[h] # owner[c]
    /\ status[h] = "replaced" => heir[h] = c \/ HeirDead(h)

LateOK(r) ==
    /\ owner[r.old] # owner[r.gen]
    /\ \/ current = r.gen /\ previous = r.old
       \/ Fallen(r.gen)
       \/ ~InUse(r.old)

Replaced ==
    /\ \A p \in Procs, r \in late : pc[p] = "asking" /\ r.op \in IssueOps => r.gen # gen[p]
    /\ \A p \in Procs, g \in Gens : pc[p] \in Fresh /\ gen[p] = g => FreshOK(p, g)
    /\ \A c, h \in Gens : current = c /\ previous = h => PairOK(c, h)
    /\ \A c \in Gens : current = c /\ status[c] = "replaced" => HeirDead(c)
    /\ \A r \in late : r.op = "replace" => LateOK(r)

\* A step of process p, with what becomes of the pointer.
Moves(p) ==
    /\ \A q \in Procs : q # p => pc'[q] = "idle"
    /\ \A g \in Gens : RenewalDue(g)' => RenewalDue(g)
    /\ \A g \in Gens : AtHand(g)' => AtHand(g)
    /\ pc'[p] \in Fresh => pc[p] \in Fresh /\ UNCHANGED <<gen, call, current, previous>>
    /\ pc'[p] = "asking" => pc[p] = "asking"
    /\ pc'[p] = "activating" => pc[p] = "publishing"
    /\ pc'[p] = "replacing" => pc[p] = "activating" /\ p = "cli" /\ UNCHANGED pointerVars
    /\ pc'[p] = "finishing" => UNCHANGED pointerVars /\ owner[previous] # owner[current]
    /\ \/ UNCHANGED pointerVars
       \/ current' = current /\ previous' = None /\ \A q \in Procs : gen'[q] \in {None, current}
       \/ current' = previous /\ previous' = None /\ \A g \in Gens : current = g => Dead(g)
       \/ current' = gen[p] /\ previous' = current /\ pc[p] = "publishing"

\* The generations of the pointer have certificates.
LEMMA Pointed ==
  ASSUME Base, NEW g \in Gens, g = current \/ g = previous
  PROVE  Issued(g)
  BY CredentialConstants DEF Base, PointerOK, PointerNeverDangles, DiskOK, Stranded, StateTypes

\* What depends on the server's view only stays with it.
LEMMA ViewStays ==
  ASSUME UNCHANGED serverVars
  PROVE  \A g \in Gens : /\ Sole(g)' <=> Sole(g)
                         /\ Fallen(g)' <=> Fallen(g)
                         /\ HeirDead(g)' <=> HeirDead(g)
                         /\ Issued(g)' <=> Issued(g)
                         /\ Dead(g)' <=> Dead(g)
                         /\ status'[g] = status[g] /\ owner'[g] = owner[g] /\ heir'[g] = heir[g]
  BY DEF serverVars, Sole, Fallen, HeirDead, Issued, Dead

\* A step of a process keeps Replaced.
LEMMA ReplacedStep ==
  ASSUME Base, Replaced, NEW p \in Procs, Moves(p), late' = late, UNCHANGED serverVars
  PROVE  Replaced'
<1>1. ASSUME NEW q \in Procs, pc'[q] \notin {"idle"} PROVE q = p
  BY <1>1 DEF Moves
<1>2. \A q \in Procs, r \in late' : pc'[q] = "asking" /\ r.op \in IssueOps => r.gen # gen'[q]
  <2>1. ASSUME pc'[p] = "asking" PROVE pc[p] = "asking" /\ gen' = gen
    BY <2>1 DEF Moves, Fresh
  <2> QED BY <1>1, <2>1 DEF Replaced
<1>3. ASSUME NEW q \in Procs, NEW g \in Gens, pc'[q] \in Fresh, gen'[q] = g PROVE FreshOK(q, g)'
  <2>1. q = p /\ pc[p] \in Fresh /\ gen[p] = g /\ call' = call /\ current' = current
    BY <1>1, <1>3 DEF Moves, Fresh
  <2>2. FreshOK(p, g)
    BY <2>1 DEF Replaced
  <2>3. ~RenewalDue(g)'
    BY <2>2 DEF Moves, FreshOK
  <2> QED BY <2>1, <2>2, <2>3, ViewStays DEF FreshOK, serverVars
<1>4. ASSUME NEW c \in Gens, NEW h \in Gens, current' = c, previous' = h PROVE PairOK(c, h)'
  <2>1. CASE UNCHANGED pointerVars
    <3>1. PairOK(c, h) /\ current = c /\ previous = h
      BY <1>4, <2>1 DEF Replaced, pointerVars
    <3>2. ~RenewalDue(c)'
      BY <3>1 DEF PairOK, Moves
    <3>3. (owner'[h] # owner'[c] \/ pc'["cli"] = "activating") => Sole(c)'
      <4>1. ASSUME pc'["cli"] = "activating" PROVE FALSE
        <5>1. p = "cli" /\ pc[p] = "publishing"
          BY <1>1, <4>1 DEF Moves, Procs
        <5>2. previous = None
          BY <5>1 DEF Base, ProcOK, Fresh
        <5> QED BY <3>1, <5>2, CredentialConstants
      <4> QED BY <3>1, <4>1, ViewStays DEF PairOK
    <3>4. ASSUME NEW q \in Procs, pc'[q] \in {"replacing", "finishing"} PROVE owner'[h] # owner'[c]
      <4>1. q = p
        BY <1>1, <3>4
      <4>2. CASE pc'[p] = "finishing"
        BY <3>1, <4>2, ViewStays DEF Moves
      <4>3. CASE pc'[p] = "replacing"
        <5>1. Sole(c)
          BY <3>1, <4>3 DEF Moves, PairOK
        <5>2. c # h
          BY <3>1, CredentialConstants DEF Base, PointerOK
        <5> QED BY <5>1, <5>2, ViewStays DEF Sole
      <4> QED BY <3>4, <4>1, <4>2, <4>3
    <3>5. status'[h] = "replaced" => heir'[h] = c \/ HeirDead(h)'
      BY <3>1, ViewStays DEF PairOK
    <3> QED BY <3>2, <3>3, <3>4, <3>5 DEF PairOK
  <2>2. CASE current' = gen[p] /\ previous' = current /\ pc[p] = "publishing"
    <3>1. pc[p] \in Fresh /\ gen[p] = c /\ current = h /\ Issued(c) /\ previous = None
      BY <1>4, <2>2 DEF Fresh, Base, ProcOK
    <3>2. FreshOK(p, c) /\ (status[h] = "replaced" => HeirDead(h))
      BY <3>1 DEF Replaced
    <3>3. call[p].op \in IssueOps /\ (p = "cli" => call[p].op = "enroll")
      BY <3>1 DEF Base, ProcOK
    <3>4. ~RenewalDue(c)'
      BY <3>2 DEF FreshOK, Moves
    <3>5. (owner'[h] # owner'[c] \/ pc'["cli"] = "activating") => Sole(c)'
      <4>1. ASSUME pc'["cli"] = "activating" PROVE call[p].op = "enroll"
        BY <1>1, <3>3, <4>1 DEF Procs
      <4>2. owner[h] # owner[c] => call[p].op = "enroll"
        BY <3>1, <3>2, <3>3 DEF FreshOK, IssueOps
      <4> QED BY <3>1, <3>2, <4>1, <4>2, ViewStays DEF FreshOK
    <3>6. ASSUME NEW q \in Procs, pc'[q] \in {"replacing", "finishing"} PROVE FALSE
      <4>1. q = p /\ UNCHANGED pointerVars
        BY <1>1, <3>6 DEF Moves
      <4> QED BY <1>4, <3>1, <4>1, CredentialConstants DEF pointerVars
    <3>7. status'[h] = "replaced" => HeirDead(h)'
      BY <3>2, ViewStays
    <3> QED BY <3>4, <3>5, <3>6, <3>7 DEF PairOK
  <2> QED BY <1>4, <2>1, <2>2, CredentialConstants DEF Moves
<1>5. ASSUME NEW c \in Gens, current' = c, status'[c] = "replaced" PROVE HeirDead(c)'
  <2>0. status[c] = "replaced"
    BY <1>5, ViewStays
  <2>1. CASE current' = current
    BY <1>5, <2>0, <2>1, ViewStays DEF Replaced
  <2>2. CASE current' = previous /\ \A g \in Gens : current = g => Dead(g)
    <3>1. previous = c /\ current \in Gens
      BY <1>5, <2>2, CredentialConstants DEF Base, PointerOK, StateTypes
    <3>2. PairOK(current, c)
      BY <3>1 DEF Replaced
    <3> QED BY <2>0, <2>2, <3>1, <3>2, ViewStays DEF PairOK, HeirDead
  <2>3. CASE current' = gen[p] /\ previous' = current /\ pc[p] = "publishing"
    <3>1. FreshOK(p, c)
      BY <1>5, <2>3 DEF Replaced, Fresh
    <3> QED BY <2>0, <3>1 DEF FreshOK
  <2> QED BY <2>1, <2>2, <2>3 DEF Moves, pointerVars
<1>6. ASSUME NEW r \in late', r.op = "replace" PROVE LateOK(r)'
  <2>1. r \in Pending /\ r \in late
    BY DEF Pending
  <2>2. r.gen \in Gens /\ r.old \in Gens /\ Issued(r.gen) /\ Issued(r.old)
    BY <1>6, <2>1, PendingRequests DEF RequestOK
  <2>3. LateOK(r)
    BY <1>6, <2>1 DEF Replaced
  <2>4. owner'[r.old] # owner'[r.gen]
    BY <2>2, <2>3, ViewStays DEF LateOK
  <2>5. CASE Fallen(r.gen)
    BY <2>2, <2>4, <2>5, ViewStays DEF LateOK
  <2>6. CASE ~InUse(r.old)
    <3>1. ~InUse(r.old)'
      BY <2>2, <2>6, ViewStays DEF InUse, Moves
    <3> QED BY <2>4, <3>1 DEF LateOK
  <2>7. CASE current = r.gen /\ previous = r.old
    <3>1. PairOK(r.gen, r.old) /\ Sole(r.gen)
      BY <2>2, <2>3, <2>7 DEF Replaced, PairOK, LateOK
    <3>2. CASE UNCHANGED pointerVars
      BY <2>4, <2>7, <3>2 DEF LateOK, pointerVars
    <3>3. CASE current' = current /\ previous' = None /\ \A q \in Procs : gen'[q] \in {None, current}
      <4>1. \A g \in Gens : AtHand(g)' => g = r.gen
        BY <2>7, <3>3, CredentialConstants DEF AtHand
      <4>2. ~InUse(r.old)'
        BY <2>4, <4>1 DEF InUse
      <4> QED BY <2>4, <4>2 DEF LateOK
    <3>4. CASE \A g \in Gens : current = g => Dead(g)
      <4>1. Fallen(r.gen)
        BY <2>2, <2>7, <3>1, <3>4 DEF Fallen, Sole
      <4> QED BY <2>2, <2>4, <4>1, ViewStays DEF LateOK
    <3>5. CASE pc[p] = "publishing"
      <4>1. previous = None
        BY <3>5 DEF Base, ProcOK, Fresh
      <4> QED BY <2>2, <2>7, <4>1, CredentialConstants
    <3> QED BY <3>2, <3>3, <3>4, <3>5 DEF Moves
  <2> QED BY <2>3, <2>5, <2>6, <2>7 DEF LateOK
<1> QED BY <1>2, <1>3, <1>4, <1>5, <1>6 DEF Replaced

\* A step that asks for nothing.
LEMMA MovesWith ==
  ASSUME Base, NEW p \in Procs, pc[p] # "idle" \/ lock = None, NEW s, s # "asking", Goto(p, s), late' = late,
         \A q \in Procs : gen'[q] \in {None, gen[q], current},
         current' \in {current, previous, gen[p]}, previous' \in {None, current, previous}
  PROVE  /\ pc'[p] = s /\ \A q \in Procs : q # p => pc'[q] = "idle"
         /\ \A g \in Gens : RenewalDue(g)' => RenewalDue(g)
         /\ \A g \in Gens : AtHand(g)' => AtHand(g)
<1>1. pc'[p] = s /\ \A q \in Procs : q # p => pc'[q] = "idle"
  BY GoesTo, Alone
<1>2. \A q \in Procs : pc'[q] # "asking"
  BY <1>1
<1>3. \A g \in Gens : RenewalDue(g)' => RenewalDue(g)
  BY <1>2 DEF RenewalDue
<1>4. \A g \in Gens : AtHand(g)' => AtHand(g)
  BY CredentialConstants DEF AtHand
<1> QED BY <1>1, <1>3, <1>4

\* A return leaves every process without a generation.
LEMMA ReleaseGen ==
  ASSUME Base, NEW p \in Procs, pc[p] # "idle", Release(p)
  PROVE  Goto(p, "idle") /\ \A q \in Procs : gen'[q] = None
  BY Returns DEF Release

\* The steps of either process, on the pointer.
LEMMA ProcMoves ==
  ASSUME Base, Discarded, NEW p \in Procs, ProcStep(p)
  PROVE  Moves(p)
<1>0. pc[p] # "idle" /\ ProcOK(p) /\ late' = late
  BY ProcFollows DEF ProcStep, Receive, Persist, Publish, ActivationAnswered, Undo, CleanUp, Commit, Answered,
                   Base
<1>1. ASSUME Release(p), UNCHANGED pointerVars PROVE Moves(p)
  BY <1>0, <1>1, ReleaseGen, MovesWith DEF Moves, Fresh, pointerVars
<1>2. ASSUME NEW s \in {"persisting", "publishing"}, Goto(p, s), pc[p] \in Fresh, UNCHANGED <<gen, call>>,
             UNCHANGED pointerVars
      PROVE  Moves(p)
  BY <1>0, <1>2, MovesWith DEF Moves, Fresh, pointerVars
<1>3. ASSUME NEW s \in {"undoing", "committing"}, Goto(p, s), gen' = gen, UNCHANGED pointerVars
      PROVE  Moves(p)
  BY <1>0, <1>3, MovesWith DEF Moves, Fresh, pointerVars
<1>4. CASE Receive(p)
  BY <1>1, <1>2, <1>4 DEF Receive, Answered, Fresh, pointerVars
<1>5. CASE Persist(p)
  BY <1>1, <1>2, <1>5 DEF Persist, Fresh, pointerVars
<1>6. CASE Publish(p)
  <2>1. CASE Pointer!Publish(gen[p]) /\ Goto(p, "activating") /\ gen' = gen
    <3>1. current' = gen[p] /\ previous' = current /\ pc[p] = "publishing"
      BY <1>6, <2>1 DEF Pointer!Publish, Publish
    <3> QED BY <1>0, <2>1, <3>1, MovesWith DEF Moves, Fresh
  <2>2. CASE Pointer!Publish(gen[p]) /\ Release(p)
    <3>1. current' = gen[p] /\ previous' = current /\ pc[p] = "publishing"
      BY <1>6, <2>2 DEF Pointer!Publish, Publish
    <3> QED BY <1>0, <2>2, <3>1, ReleaseGen, MovesWith DEF Moves, Fresh
  <2> QED BY <1>1, <1>6, <2>1, <2>2 DEF Publish, Call, pointerVars
<1>7. CASE ActivationAnswered(p)
  <2>1. pc[p] = "activating" /\ gen' = gen /\ UNCHANGED pointerVars
    BY <1>7 DEF ActivationAnswered, Answered, pointerVars
  <2>2. CASE p = "cli" /\ Goto(p, "replacing")
    BY <1>0, <2>1, <2>2, MovesWith DEF Moves, Fresh, pointerVars
  <2> QED BY <1>3, <1>7, <2>1, <2>2 DEF ActivationAnswered, Call
<1>8. CASE Undo(p)
  <2>1. CASE (Pointer!Rollback \/ Pointer!Unpublish) /\ Goto(p, "cleaning") /\ gen' = gen
    <3>1. current' = previous /\ previous' = None
      BY <1>0, <2>1, RolledBack
    <3>2. pc[p] = "undoing" /\ gen[p] = current /\ gen[p] \in Gens
      BY <1>0, <1>8 DEF Undo, ProcOK, AtCurrent
    <3>3. \A g \in Gens : current = g => Dead(g)
      BY <3>2 DEF Discarded, GivesUp
    <3> QED BY <1>0, <2>1, <3>1, <3>3, MovesWith DEF Moves, Fresh
  <2> QED BY <1>1, <1>8, <2>1 DEF Undo
<1>9. CASE CleanUp(p)
  BY <1>1, <1>9 DEF CleanUp, pointerVars
<1>10. CASE Commit(p)
  <2>1. CommitPointer /\ Release(p)
    BY <1>10 DEF Commit
  <2>2. current' = current /\ previous' = None
    BY <1>0, <2>1, Committed
  <2> QED BY <1>0, <2>1, <2>2, ReleaseGen, MovesWith DEF Moves, Fresh
<1> QED BY <1>4, <1>5, <1>6, <1>7, <1>8, <1>9, <1>10 DEF ProcStep

\* The steps of the daemon, and of reenroll, on the pointer.
LEMMA OwnMoves ==
  ASSUME Base, Discarded, NEW p \in Procs,
         \/ p = "cli" /\ ReplacementAnswered
         \/ /\ p = "daemon"
            /\ LoadLatestConfig \/ FinalizeAnswered \/ FinishAnswered \/ Adopt \/ NotDue
  PROVE  Moves(p)
<1>0. late' = late /\ ProcOK(p)
  BY OwnFollows DEF Base
<1>1. ASSUME pc[p] # "idle", Release(p), UNCHANGED pointerVars PROVE Moves(p)
  BY <1>0, <1>1, ReleaseGen, MovesWith DEF Moves, Fresh, pointerVars
<1>2. ASSUME pc[p] # "idle", NEW s \in {"committing", "adopting"}, Goto(p, s), gen' = gen, UNCHANGED pointerVars
      PROVE  Moves(p)
  BY <1>0, <1>2, MovesWith DEF Moves, Fresh, pointerVars
<1>3. CASE p = "cli" /\ ReplacementAnswered
  <2>1. pc[p] # "idle" /\ UNCHANGED pointerVars
    BY <1>3 DEF ReplacementAnswered, Answered, pointerVars
  <2> QED BY <1>1, <1>2, <1>3, <2>1 DEF ReplacementAnswered
<1>4. CASE p = "daemon" /\ LoadLatestConfig
  <2>1. /\ lock = None /\ Goto(p, "finalizing") /\ gen' = [gen EXCEPT ![p] = current] /\ UNCHANGED pointerVars
    BY <1>4 DEF LoadLatestConfig, LockFree, Call, pointerVars
  <2>2. \A q \in Procs : gen'[q] \in {None, gen[q], current}
    BY <2>1 DEF Base, ProcTypes
  <2> QED BY <1>0, <2>1, <2>2, MovesWith DEF Moves, Fresh, pointerVars
<1>5. CASE p = "daemon" /\ FinalizeAnswered
  <2>1. pc[p] = "finalizing" /\ reply[p] # "none" /\ gen[p] = current /\ gen[p] \in Gens
    BY <1>0, <1>5 DEF FinalizeAnswered, Answered, ProcOK, AtCurrent
  <2>2. CASE reply[p] # "ok" /\ Pointer!Rollback /\ Release(p)
    <3>1. current' = previous /\ previous' = None
      BY <2>1, <2>2, RolledBack
    <3>2. \A g \in Gens : current = g => Dead(g)
      BY <2>1, <2>2 DEF Discarded, GivesUp, Activates
    <3> QED BY <1>0, <2>1, <2>2, <3>1, <3>2, ReleaseGen, MovesWith DEF Moves, Fresh
  <2>3. CASE /\ owner[previous] # owner[gen[p]] /\ Goto(p, "finishing") /\ gen' = gen
             /\ UNCHANGED pointerVars
    BY <1>0, <2>1, <2>3, MovesWith DEF Moves, Fresh, pointerVars
  <2> QED BY <1>1, <1>2, <1>5, <2>1, <2>2, <2>3 DEF FinalizeAnswered, Call, pointerVars
<1>6. CASE p = "daemon" /\ FinishAnswered
  <2>1. pc[p] # "idle" /\ UNCHANGED pointerVars
    BY <1>6 DEF FinishAnswered, Answered, pointerVars
  <2> QED BY <1>1, <1>2, <1>6, <2>1 DEF FinishAnswered
<1>7. CASE p = "daemon" /\ Adopt
  <2>1. pc[p] = "adopting" /\ CommitPointer /\ Goto(p, "deciding") /\ gen' = gen
    BY <1>7 DEF Adopt
  <2>2. current' = current /\ previous' = None
    BY <2>1, Committed
  <2>3. \A q \in Procs : gen'[q] \in {None, current}
    BY <1>0, <2>1, Alone DEF ProcOK, AtCurrent
  <2> QED BY <1>0, <2>1, <2>2, <2>3, MovesWith DEF Moves, Fresh
<1>8. CASE p = "daemon" /\ NotDue
  BY <1>1, <1>8 DEF NotDue, pointerVars
<1> QED BY <1>3, <1>4, <1>5, <1>6, <1>7, <1>8

\* A new key pair and the request for its certificate.
LEMMA ReplacedAsk ==
  ASSUME Base, Replaced, NEW p \in Procs, pc[p] # "idle" \/ lock = None, NEW g \in Gens, NEW o \in IssueOps,
         Ask(p, o, g), previous = None, UNCHANGED <<current, previous, late, owner, heir>>
  PROVE  Replaced'
<1> DEFINE r == Request(o, g, IF o = "renew" THEN current ELSE None)
<1>1. /\ status[g] = "unused" /\ status' = [status EXCEPT ![g] = "keyed"]
      /\ gen' = [gen EXCEPT ![p] = g] /\ Goto(p, "asking") /\ call' = [call EXCEPT ![p] = r]
  BY DEF Ask, Call
<1>2. /\ pc'[p] = "asking" /\ gen'[p] = g /\ call'[p] = r /\ status'[g] = "keyed"
      /\ \A h \in Gens : h # g => status'[h] = status[h]
  BY <1>1 DEF Goto, Base, ProcTypes, ServerTypes
<1>3. \A q \in Procs : q # p => pc'[q] = "idle" /\ gen'[q] = None
  BY <1>1, Alone DEF Goto, Base, ProcTypes
<1>4. ~Issued(g) /\ owner[g] = None
  BY <1>1 DEF Issued, Base, OwnerOK
<1>5. g # current
  BY <1>4, Pointed
<1>6. r.op = "renew" => r.old = current
  BY DEF Request
<1> HIDE DEF r
<1>7. \A s \in late : s \in Pending /\ RequestOK(s) /\ s \in Requests /\ s.gen \in Gens
  BY PendingRequests DEF Pending
<1>8. \A h \in Gens : Dead(h) => Dead(h)'
  BY <1>1, <1>2 DEF Dead
<1>9. \A q \in Procs, s \in late' : pc'[q] = "asking" /\ s.op \in IssueOps => s.gen # gen'[q]
  BY <1>1, <1>2, <1>3, <1>7 DEF RequestOK
<1>10. FreshOK(p, g)'
  <2>1. \A s \in late : s.op = "renew" => s.old # g
    BY <1>4, <1>7 DEF RequestOK
  <2>2. ~RenewalDue(g)'
    BY <1>2, <1>3, <1>5, <1>6, <2>1 DEF RenewalDue
  <2>3. ~Issued(g)'
    BY <1>2 DEF Issued
  <2> QED BY <1>2, <2>2, <2>3 DEF FreshOK
<1>11. \A q \in Procs, h \in Gens : pc'[q] \in Fresh /\ gen'[q] = h => FreshOK(q, h)'
  BY <1>2, <1>3, <1>10 DEF Fresh
<1>12. ASSUME NEW c \in Gens, current' = c, status'[c] = "replaced" PROVE HeirDead(c)'
  <2>1. HeirDead(c)
    BY <1>2, <1>5, <1>12 DEF Replaced
  <2> QED BY <1>8, <2>1 DEF HeirDead
<1>13. ASSUME NEW s \in late', s.op = "replace" PROVE LateOK(s)'
  <2>1. s.gen \in Gens /\ s.old \in Gens /\ Issued(s.old) /\ LateOK(s)
    BY <1>7, <1>13 DEF RequestOK, Replaced
  <2>2. owner[s.old] # None
    BY <2>1 DEF Base, OwnerOK
  <2>3. CASE Fallen(s.gen)
    <3>1. Fallen(s.gen)'
      BY <1>8, <2>3 DEF Fallen
    <3> QED BY <2>1, <3>1 DEF LateOK
  <2>4. CASE ~InUse(s.old)
    <3>1. \A h \in Gens : AtHand(h)' => AtHand(h) \/ h = g
      BY <1>2, <1>3, CredentialConstants DEF AtHand
    <3>2. ~InUse(s.old)'
      BY <1>4, <2>2, <2>4, <3>1 DEF InUse
    <3> QED BY <2>1, <3>2 DEF LateOK
  <2> QED BY <2>1, <2>3, <2>4, CredentialConstants DEF LateOK
<1>14. \A c, h \in Gens : current' = c /\ previous' = h => PairOK(c, h)'
  BY CredentialConstants
<1> QED BY <1>9, <1>11, <1>12, <1>13, <1>14 DEF Replaced

\* A pending replacement: the device leaves the old identity, does not use
\* it, or the new one is gone.
LEMMA PendingReplace ==
  ASSUME Base, Replaced, NEW r \in Pending, r.op = "replace"
  PROVE  LateOK(r)
<1>1. ASSUME NEW p \in Waiting, r = call[p] PROVE LateOK(r)
  <2>1. p \in Procs /\ pc[p] # "idle" /\ ProcOK(p) /\ pc[p] \in Waits
    BY AsksFor DEF Base
  <2>2. CASE pc[p] \in {"replacing", "finishing"}
    <3>1. r = Request("replace", current, previous) /\ previous # None /\ gen[p] \in Gens /\ gen[p] = current
      BY <1>1, <2>1, <2>2 DEF ProcOK, AtCurrent
    <3>2. r.gen = current /\ r.old = previous /\ current \in Gens /\ previous \in Gens
      BY <3>1 DEF Request, Base, StateTypes
    <3>3. PairOK(current, previous)
      BY <3>2 DEF Replaced
    <3>4. owner[previous] # owner[current]
      BY <2>1, <2>2, <3>3 DEF PairOK
    <3> QED BY <3>2, <3>4 DEF LateOK
  <2>3. CASE pc[p] \in Activates
    BY <1>1, <2>3, ActivatesFor
  <2>4. CASE pc[p] = "asking"
    BY <1>1, <2>1, <2>4 DEF ProcOK, Fresh, IssueOps
  <2> QED BY <2>1, <2>2, <2>3, <2>4 DEF Waits, Activates
<1> QED BY <1>1 DEF Pending, Replaced

\* A pending renewal is due.
LEMMA PendingRenewal ==
  ASSUME Base, NEW r \in Pending, r.op = "renew"
  PROVE  RenewalDue(r.old)
<1>1. ASSUME NEW p \in Waiting, r = call[p] PROVE RenewalDue(r.old)
  BY <1>1, AsksFor DEF RenewalDue, Waiting, IssueOps
<1> QED BY <1>1 DEF Pending, RenewalDue

\* A process dies.
LEMMA ReplacedCrash ==
  ASSUME Base, Replaced, NEW p \in Procs, Crash(p)
  PROVE  Replaced'
<1>1. pc[p] # "idle" /\ Abandoned(p) /\ Release(p) /\ UNCHANGED serverVars /\ UNCHANGED <<current, previous>>
  BY DEF Crash, serverVars
<1>2. \A q \in Procs : pc'[q] = "idle" /\ gen'[q] = None
  BY <1>1, Returns
<1>3. late' \subseteq Pending
  BY <1>1 DEF Abandoned, Pending, Waiting
<1>4. \A g \in Gens : RenewalDue(g)' => RenewalDue(g)
  BY <1>2, <1>3, PendingRenewal DEF RenewalDue
<1>5. ASSUME NEW r \in late', r.op = "replace" PROVE LateOK(r)'
  <2>1. LateOK(r) /\ r.gen \in Gens /\ r.old \in Gens
    BY <1>3, <1>5, PendingReplace, PendingRequests DEF RequestOK
  <2>2. \A h \in Gens : AtHand(h)' => AtHand(h)
    BY <1>1, <1>2, CredentialConstants DEF AtHand
  <2>3. InUse(r.old)' => InUse(r.old)
    BY <1>1, <2>2 DEF InUse, serverVars
  <2> QED BY <1>1, <2>1, <2>3, ViewStays DEF LateOK
<1>6. ASSUME NEW c \in Gens, NEW h \in Gens, current' = c, previous' = h PROVE PairOK(c, h)'
  <2>1. PairOK(c, h)
    BY <1>1, <1>6 DEF Replaced
  <2>2. (\A q \in Procs : pc'[q] \notin {"replacing", "finishing"}) /\ pc'["cli"] # "activating"
    BY <1>2 DEF Procs
  <2> QED BY <1>1, <1>4, <2>1, <2>2, ViewStays DEF PairOK
<1>7. ASSUME NEW c \in Gens, current' = c, status'[c] = "replaced" PROVE HeirDead(c)'
  BY <1>1, <1>7, ViewStays DEF Replaced
<1>8. \A q \in Procs : pc'[q] \notin Fresh /\ pc'[q] # "asking"
  BY <1>2 DEF Fresh
<1> QED BY <1>5, <1>6, <1>7, <1>8 DEF Replaced

\* A generation in use is replaced only by the current one, which has
\* another identity.
Spares == \A g \in Gens : AtHand(g) =>
    \/ heir'[g] = heir[g] /\ (status'[g] = "replaced" => status[g] = "replaced")
    \/ previous \in Gens /\ owner[g] # owner[current] /\ heir'[g] = current

\* What a step of the server leaves as it is.
Respects ==
    /\ \A g \in Gens : Issued(g) /\ ~RenewalDue(g) /\ Sole(g) => Sole(g)'
    /\ \A g \in Gens : Issued(g) /\ Fallen(g) => Fallen(g)'
    /\ \A g \in Gens : Issued(g) /\ InUse(g)' => InUse(g)
    /\ \A p \in Procs, g \in Gens : pc[p] \in Fresh /\ gen[p] = g /\ ~Issued(g) /\ Issued(g)' =>
         /\ call[p].op = "renew" => owner'[g] = owner[current]
         /\ call[p].op = "enroll" => Sole(g)'

\* A step of the server keeps Replaced.
LEMMA ReplacedServer ==
  ASSUME Base, Replaced, NEW k, Ages(k), Spares, Respects, late' \subseteq late,
         \A g \in Gens : RenewalDue(g)' => RenewalDue(g),
         UNCHANGED <<current, previous, pc, gen, call>>
  PROVE  Replaced'
<1>1. \A g \in Gens : Dead(g) => Dead(g)'
  BY DEF Ages, Dead
<1>2. \A g \in Gens : Issued(g) => owner'[g] = owner[g]
  BY DEF Ages
<1>3. \A g \in Gens : HeirDead(g) /\ heir'[g] = heir[g] => HeirDead(g)'
  BY <1>1 DEF HeirDead
<1>4. ASSUME NEW p \in Procs, NEW g \in Gens, pc'[p] \in Fresh, gen'[p] = g PROVE FreshOK(p, g)'
  <2>1. FreshOK(p, g) /\ pc[p] \in Fresh /\ gen[p] = g
    BY <1>4 DEF Replaced
  <2>2. previous = None /\ (call[p].op = "renew" => current # None)
    BY <2>1 DEF Base, ProcOK
  <2>3. AtHand(g) /\ previous \notin Gens
    BY <2>1, <2>2, CredentialConstants DEF AtHand
  <2>4. status'[g] # "replaced"
    BY <2>1, <2>3 DEF Spares, FreshOK
  <2>5. call[p].op = "renew" => current \in Gens /\ owner'[current] = owner[current]
    BY <1>2, <2>2, Pointed DEF Base, StateTypes
  <2>6. CASE Issued(g)
    BY <1>2, <1>4, <2>1, <2>4, <2>5, <2>6 DEF FreshOK, Respects
  <2>7. CASE ~Issued(g)
    BY <1>4, <2>1, <2>4, <2>5, <2>7 DEF FreshOK, Respects
  <2> QED BY <2>6, <2>7
<1>5. ASSUME NEW c \in Gens, NEW h \in Gens, current' = c, previous' = h PROVE PairOK(c, h)'
  <2>1. PairOK(c, h) /\ current = c /\ previous = h
    BY <1>5 DEF Replaced
  <2>2. Issued(c) /\ Issued(h)
    BY <2>1, Pointed
  <2>3. owner'[c] = owner[c] /\ owner'[h] = owner[h]
    BY <1>2, <2>2
  <2>4. Sole(c) => Sole(c)'
    BY <2>1, <2>2 DEF PairOK, Respects
  <2>5. status'[h] = "replaced" => heir'[h] = c \/ HeirDead(h)'
    <3>1. AtHand(h)
      BY <2>1 DEF AtHand
    <3> QED BY <1>3, <2>1, <3>1 DEF Spares, PairOK
  <2> QED BY <2>1, <2>3, <2>4, <2>5 DEF PairOK
<1>6. ASSUME NEW c \in Gens, current' = c, status'[c] = "replaced" PROVE HeirDead(c)'
  <2>1. heir'[c] = heir[c] /\ status[c] = "replaced"
    BY <1>6 DEF Spares, AtHand
  <2> QED BY <1>3, <1>6, <2>1 DEF Replaced
<1>7. ASSUME NEW r \in late', r.op = "replace" PROVE LateOK(r)'
  <2>1. LateOK(r) /\ r \in Pending
    BY <1>7 DEF Replaced, Pending
  <2>2. r.gen \in Gens /\ r.old \in Gens /\ Issued(r.gen) /\ Issued(r.old)
    BY <1>7, <2>1, PendingRequests DEF RequestOK
  <2>3. owner'[r.gen] = owner[r.gen] /\ owner'[r.old] = owner[r.old]
    BY <1>2, <2>2
  <2>4. Fallen(r.gen) => Fallen(r.gen)'
    BY <2>2 DEF Respects
  <2>5. InUse(r.old)' => InUse(r.old)
    BY <2>2 DEF Respects
  <2> QED BY <2>1, <2>3, <2>4, <2>5 DEF LateOK
<1> QED BY <1>4, <1>5, <1>6, <1>7 DEF Replaced

\* The request for a certificate that a process works on is its own.
LEMMA OwnIssue ==
  ASSUME Base, Discarded, Replaced, NEW r \in Pending, r.op \in IssueOps, NEW p \in Procs, gen[p] = r.gen
  PROVE  r = call[p] /\ pc[p] = "asking"
<1>1. r.gen \in Gens /\ status[r.gen] = "keyed" /\ ~Issued(r.gen)
  BY PendingRequests DEF RequestOK, Issued
<1>2. ProcOK(p) /\ gen[p] \in Gens
  BY <1>1 DEF Base
<1>3. pc[p] # "idle" /\ pc[p] \notin {"persisting", "publishing"}
  BY <1>1, <1>2, CredentialConstants DEF ProcOK
<1>4. pc[p] \notin AtCurrent
  BY <1>1, <1>2, Pointed DEF ProcOK
<1>5. pc[p] # "cleaning"
  <2>1. pc[p] = "cleaning" => Dead(r.gen)
    BY <1>1 DEF Discarded, GivesUp
  <2> QED BY <1>1, <2>1 DEF Dead
<1>6. pc[p] = "asking"
  BY <1>3, <1>4, <1>5 DEF Base, ProcTypes, Steps, AtCurrent
<1>7. r \notin late
  BY <1>6 DEF Replaced
<1>8. PICK q \in Waiting : r = call[q]
  BY <1>7 DEF Pending
<1>9. q = p
  BY <1>3, <1>8, AsksFor DEF Base, ProcTypes
<1> QED BY <1>6, <1>8, <1>9

\* A new certificate.
LEMMA IssueRespects ==
  ASSUME Base, Discarded, Replaced, NEW r \in Pending, r.op \in IssueOps, status[r.gen] = "keyed",
         NEW i \in Ids, Issue(r.gen, i), r.op = "enroll" => \A g \in Gens : owner[g] # i,
         r.op = "renew" => i = owner[r.old] /\ r.old \in Gens /\ Usable(r.old),
         UNCHANGED <<current, previous, gen>>
  PROVE  Spares /\ Respects
<1>1. r.gen \in Gens /\ ~Issued(r.gen)
  BY PendingRequests DEF Issued
<1>2. /\ status'[r.gen] = "pending" /\ owner'[r.gen] = i /\ heir' = heir
      /\ \A g \in Gens : g # r.gen => status'[g] = status[g] /\ owner'[g] = owner[g]
  BY <1>1 DEF Issue, Base, ServerTypes
<1>3. Spares
  BY <1>2 DEF Spares
<1>4. ASSUME NEW g \in Gens, Issued(g), ~RenewalDue(g), Sole(g) PROVE Sole(g)'
  <2>1. g # r.gen /\ owner'[g] = owner[g]
    BY <1>1, <1>2, <1>4
  <2>2. i # owner[g]
    BY <1>4, PendingRenewal DEF Sole, IssueOps
  <2> QED BY <1>2, <1>4, <2>1, <2>2 DEF Sole
<1>5. ASSUME NEW g \in Gens, Issued(g), Fallen(g) PROVE Fallen(g)'
  <2>1. g # r.gen /\ owner'[g] = owner[g]
    BY <1>1, <1>2, <1>5
  <2>2. i # owner[g]
    BY <1>5 DEF Fallen, IssueOps, Usable, Dead
  <2> QED BY <1>2, <1>5, <2>1, <2>2 DEF Fallen, Dead
<1>6. ASSUME NEW g \in Gens, Issued(g), InUse(g)' PROVE InUse(g)
  <2>1. owner'[g] = owner[g]
    BY <1>1, <1>2, <1>6
  <2>2. PICK h \in Gens : AtHand(h)' /\ owner'[h] = owner[g]
    BY <1>6, <2>1 DEF InUse
  <2>3. AtHand(h)
    BY <2>2 DEF AtHand
  <2>4. CASE h # r.gen
    BY <1>2, <2>2, <2>3, <2>4 DEF InUse
  <2>5. CASE h = r.gen
    <3>1. i = owner[g] /\ r.op = "renew" /\ owner[r.old] = owner[g]
      BY <1>2, <2>2, <2>5 DEF IssueOps
    <3>2. h # current /\ h # previous
      BY <1>1, <2>5, Pointed
    <3>3. PICK p \in Procs : gen[p] = h
      BY <2>3, <3>2 DEF AtHand
    <3>4. r = call[p] /\ pc[p] = "asking"
      BY <2>5, <3>3, OwnIssue
    <3>5. r.old = current
      BY <3>1, <3>4 DEF Base, ProcOK, Fresh
    <3> QED BY <3>1, <3>5 DEF InUse, AtHand
  <2> QED BY <2>4, <2>5
<1>7. ASSUME NEW p \in Procs, NEW g \in Gens, pc[p] \in Fresh, gen[p] = g, ~Issued(g), Issued(g)'
      PROVE  /\ call[p].op = "renew" => owner'[g] = owner[current]
             /\ call[p].op = "enroll" => Sole(g)'
  <2>1. g = r.gen
    BY <1>2, <1>7 DEF Issued
  <2>2. r = call[p]
    BY <1>7, <2>1, OwnIssue
  <2>3. call[p].op = "renew" => r.old = current
    BY <1>7, <2>2 DEF Base, ProcOK
  <2>4. call[p].op = "enroll" => Sole(g)'
    BY <1>2, <2>1, <2>2 DEF Sole
  <2> QED BY <1>2, <2>1, <2>2, <2>3, <2>4
<1> QED BY <1>3, <1>4, <1>5, <1>6, <1>7 DEF Respects

\* A step of the server that issues nothing.
LEMMA QuietRespects ==
  ASSUME Base, Ages(None), owner' = owner, UNCHANGED <<current, previous, gen>>
  PROVE  Respects
<1>1. \A g \in Gens : (Issued(g)' <=> Issued(g)) /\ (Dead(g) => Dead(g)')
  BY CredentialConstants DEF Ages, Dead
<1>2. \A g \in Gens : Sole(g) => Sole(g)'
  BY DEF Sole
<1>3. \A g \in Gens : Fallen(g) => Fallen(g)'
  BY <1>1 DEF Fallen
<1>4. \A g \in Gens : InUse(g)' => InUse(g)
  BY DEF InUse, AtHand
<1> QED BY <1>1, <1>2, <1>3, <1>4 DEF Respects

\* A replacement.
LEMMA ReplaceSpares ==
  ASSUME Base, Replaced, NEW r \in Pending, r.op = "replace", Replace(r.old, r.gen),
         r.old \in Gens, Standing(owner[r.gen])
  PROVE  Spares
<1>1. LateOK(r) /\ ~Fallen(r.gen)
  BY PendingReplace DEF Standing, Fallen, Dead
<1>2. ASSUME NEW g \in Gens, AtHand(g), owner[g] = owner[r.old]
      PROVE  previous \in Gens /\ owner[g] # owner[current] /\ heir'[g] = current
  <2>1. InUse(r.old)
    BY <1>2 DEF InUse
  <2>2. current = r.gen /\ previous = r.old /\ owner[r.old] # owner[r.gen]
    BY <1>1, <2>1 DEF LateOK
  <2> QED BY <1>2, <2>2 DEF Replace
<1>3. ASSUME NEW g \in Gens, owner[g] # owner[r.old]
      PROVE  heir'[g] = heir[g] /\ status'[g] = status[g]
  BY <1>3 DEF Replace, Revoke
<1> QED BY <1>2, <1>3 DEF Spares

\* A request keeps Replaced.
LEMMA ReplacedOutcome ==
  ASSUME Base, Discarded, Replaced, NEW r \in Pending, Outcome(r), late' \subseteq late,
         \A g \in Gens : RenewalDue(g)' => RenewalDue(g),
         UNCHANGED <<current, previous, pc, gen, call>>
  PROVE  Replaced'
<1>1. PICK k : Ages(k)
  BY OutcomeAges
<1>2. ASSUME Spares, Respects PROVE Replaced'
  BY <1>1, <1>2, ReplacedServer
<1>3. CASE UNCHANGED serverVars
  <2>1. Ages(None)
    BY <1>3 DEF Ages, Base, ServerTypes, OwnerOK, Issued, Dead, serverVars
  <2> QED BY <1>2, <1>3, <2>1, QuietRespects DEF Spares, serverVars
<1>4. CASE r.op \in IssueOps /\ status[r.gen] = "keyed"
           /\ \E i \in Ids : /\ Issue(r.gen, i)
                             /\ r.op = "enroll" => \A g \in Gens : owner[g] # i
                             /\ r.op = "renew" => i = owner[r.old] /\ r.old \in Gens /\ Usable(r.old)
  BY <1>2, <1>4, IssueRespects
<1>5. CASE r.op = "activate" /\ Activate(r.gen) /\ Issued(r.gen)
  <2>1. Ages(None)
    BY <1>5, OutcomeAges DEF IssueOps
  <2>2. Spares
    BY <1>5 DEF Spares, Activate
  <2> QED BY <1>2, <1>5, <2>1, <2>2, QuietRespects DEF Activate
<1>6. CASE r.op = "replace" /\ Replace(r.old, r.gen) /\ r.old \in Gens /\ Standing(owner[r.gen])
  <2>1. Ages(None)
    BY <1>6, OutcomeAges DEF IssueOps
  <2> QED BY <1>2, <1>6, <2>1, QuietRespects, ReplaceSpares DEF Replace, Revoke
<1> QED BY <1>3, <1>4, <1>5, <1>6 DEF Outcome

\* The server answers a process.
LEMMA ReplacedServe ==
  ASSUME Base, Discarded, Replaced, NEW p \in Procs, Serve(p)
  PROVE  Replaced'
<1>1. call[p] \in Pending /\ UNCHANGED <<current, previous, pc, gen, call, late>> /\ reply[p] = "none"
  BY DEF Serve, Waiting, Pending
<1>2. PICK a \in Answers(call[p]) : Effect(call[p], a) /\ reply' = [reply EXCEPT ![p] = a]
  BY DEF Serve
<1>3. Outcome(call[p])
  BY <1>1, <1>2, EffectOutcome
<1>4. \A q \in Procs : reply'[q] = "none" => reply[q] = "none"
  BY <1>1, <1>2 DEF Base, ProcTypes
<1>5. \A g \in Gens : RenewalDue(g)' => RenewalDue(g)
  BY <1>1, <1>4 DEF RenewalDue
<1> QED BY <1>1, <1>3, <1>5, ReplacedOutcome

\* A late request is served.
LEMMA ReplacedServeLate ==
  ASSUME Base, Discarded, Replaced, NEW r \in late, ServeLate(r)
  PROVE  Replaced'
<1>1. r \in Pending /\ late' \subseteq late /\ UNCHANGED <<current, previous, pc, gen, call, reply>>
  BY DEF ServeLate, Pending
<1>2. Outcome(r)
  BY <1>1, EffectOutcome DEF ServeLate
<1>3. \A g \in Gens : RenewalDue(g)' => RenewalDue(g)
  BY <1>1 DEF RenewalDue
<1> QED BY <1>1, <1>2, <1>3, ReplacedOutcome

\* Deadlines and revocations.
LEMMA ReplacedMaintenance ==
  ASSUME Base, Replaced,
         \/ \E g \in Gens : Sweep(g) \/ Retire(g)
         \/ \E i \in Ids : RevokeIdentity(i)
  PROVE  Replaced'
<1>1. Ages(None) /\ owner' = owner /\ heir' = heir /\ UNCHANGED <<current, previous, pc, gen, call, reply, late>>
  BY BaseMaintenance DEF Sweep, Retire, RevokeIdentity, Revoke
<1>2. ASSUME NEW g \in Gens PROVE status'[g] = "replaced" => status[g] = "replaced"
  BY DEF Sweep, Retire, RevokeIdentity, Revoke, Base, ServerTypes
<1>3. Spares
  BY <1>1, <1>2 DEF Spares
<1>4. \A g \in Gens : RenewalDue(g)' => RenewalDue(g)
  BY <1>1 DEF RenewalDue
<1> QED BY <1>1, <1>3, <1>4, QuietRespects, ReplacedServer

\* As long as no living process loses a call, every step keeps Replaced.
LEMMA NextReplaced ==
  ASSUME Base, outages = 0 => Discarded /\ Replaced, [Next]_credentialVars, outages' = 0
  PROVE  Replaced'
<1>0. ~(\E p \in Procs : Fail(p))
  BY DEF Fail, Base, StateTypes
<1>1. Discarded /\ Replaced
  BY StillCalled
<1>2. ASSUME NEW p \in Procs, ProcStep(p) PROVE Replaced'
  BY <1>1, <1>2, ProcFollows, ProcMoves, ReplacedStep
<1>3. ASSUME NEW p \in Procs, Serve(p) \/ Crash(p) PROVE Replaced'
  BY <1>1, <1>3, ReplacedServe, ReplacedCrash
<1>4. ASSUME NEW g \in Gens, StartEnrollment(g) PROVE Replaced'
  <2>1. /\ "cli" \in Procs /\ "enroll" \in IssueOps /\ lock = None /\ Ask("cli", "enroll", g) /\ previous = None
        /\ UNCHANGED <<current, previous, late, owner, heir>>
    BY <1>4 DEF StartEnrollment, Procs, LockFree, IssueOps
  <2> QED BY <1>1, <2>1, ReplacedAsk
<1>5. ASSUME NEW g \in Gens, Renew(g) PROVE Replaced'
  <2>1. /\ "daemon" \in Procs /\ "renew" \in IssueOps /\ pc["daemon"] = "deciding" /\ Ask("daemon", "renew", g)
        /\ UNCHANGED <<current, previous, late, owner, heir>>
    BY <1>5 DEF Renew, Procs, IssueOps
  <2>2. previous = None
    BY <2>1 DEF Base, ProcOK
  <2> QED BY <1>1, <2>1, <2>2, ReplacedAsk
<1>6. ASSUME ReplacementAnswered PROVE Replaced'
  <2>1. "cli" \in Procs
    BY DEF Procs
  <2>2. Moves("cli") /\ UNCHANGED serverVars /\ late' = late
    BY <1>1, <1>6, <2>1, OwnFollows, OwnMoves
  <2> QED BY <1>1, <2>1, <2>2, ReplacedStep
<1>7. ASSUME LoadLatestConfig \/ FinalizeAnswered \/ FinishAnswered \/ Adopt \/ NotDue PROVE Replaced'
  <2>1. "daemon" \in Procs
    BY DEF Procs
  <2>2. Moves("daemon") /\ UNCHANGED serverVars /\ late' = late
    BY <1>1, <1>7, <2>1, OwnFollows, OwnMoves
  <2> QED BY <1>1, <2>1, <2>2, ReplacedStep
<1>8. ASSUME NEW r \in late, ServeLate(r) PROVE Replaced'
  BY <1>1, <1>8, ReplacedServeLate
<1>9. CASE UNCHANGED credentialVars
  <2>1. UNCHANGED serverVars /\ UNCHANGED <<current, previous, pc, gen, call, reply, late>>
    BY <1>9 DEF credentialVars, serverVars
  <2>2. Ages(None)
    BY <2>1 DEF Ages, Base, ServerTypes, OwnerOK, Issued, Dead, serverVars
  <2>3. Spares /\ owner' = owner
    BY <2>1 DEF Spares, serverVars
  <2>4. \A g \in Gens : RenewalDue(g)' => RenewalDue(g)
    BY <2>1 DEF RenewalDue
  <2> QED BY <1>1, <2>1, <2>2, <2>3, <2>4, QuietRespects, ReplacedServer
<1> QED BY <1>0, <1>1, <1>2, <1>3, <1>4, <1>5, <1>6, <1>7, <1>8, <1>9, ReplacedMaintenance DEF Next, DaemonStep

\* Initially there is nothing to replace.
LEMMA InitReplaced ==
  ASSUME Init
  PROVE  Replaced
  BY CredentialConstants DEF Init, Replaced, Fresh

\* As long as no living process loses a call, a reenrollment that replaced
\* the old identity is carried through, whoever dies on the way
\* (finalize_active_publication, replace_previous_identity).
THEOREM CredentialsAdopted == Spec => []ReplacementIsAdopted
<1> DEFINE Inv == Base /\ (outages = 0 => Discarded /\ Replaced)
<1>1. Init => Inv
  BY InitBase, InitDiscarded, InitReplaced
<1>2. Inv /\ [Next]_credentialVars => Inv'
  BY NextBase, NextDiscarded, NextReplaced
<1>3. Inv => ReplacementIsAdopted
  <2>1. ASSUME Replaced, NEW c \in Gens, current = c, status[c] = "replaced" PROVE status[heir[c]] # "active"
    BY <2>1 DEF Replaced, HeirDead, Dead
  <2>2. Base /\ current # None => current \in Gens
    BY DEF Base, StateTypes
  <2> QED BY <2>1, <2>2 DEF ReplacementIsAdopted
<1> QED BY <1>1, <1>2, <1>3, PTL DEF Spec

=============================================================================
