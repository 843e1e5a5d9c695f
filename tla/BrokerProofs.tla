---------------------------- MODULE BrokerProofs ----------------------------
(***************************************************************************)
(* Proof that the broker executes a job at most once, for any number of    *)
(* jobs, connections, deliveries and crashes, except where its ledger lost *)
(* the job's record or kept it for too short a time.                       *)
(***************************************************************************)
EXTENDS Broker, FiniteSetTheorems, TLAPS

\* Requests: what the clock and the grant of a served request look like.
RequestsInWindow ==
    \A w \in Workers : thread[w].pc # "idle" =>
        /\ thread[w].grant \in grants
        /\ born[thread[w].grant.job] <= thread[w].at
        /\ thread[w].at <= now
        /\ now <= thread[w].at + RequestBound

\* Grants exist only for jobs that exist, and expire at most GrantValidity
\* after the job does.
GrantsInWindow ==
    /\ \A j \in Jobs : born[j] <= now
    /\ \A g \in grants : /\ born[g.job] # NULL
                         /\ g.expires < born[g.job] + JobTTL + GrantValidity

Verified == {"consume", "lookup", "wait", "locked", "marked", "running", "ran"}
Holding  == {"locked", "marked", "running", "ran"}

\* A request that passed verification was within its grant's validity.
VerifiedInTime ==
    \A w \in Workers : thread[w].pc \in Verified => thread[w].at <= thread[w].grant.expires

\* Only the holder of the execution mutex is past it.
LockHeld == \A w \in Workers : thread[w].pc \in Holding => lock = w

\* A run that returned a response left a result.
RanHasOutcome ==
    \A w \in Workers : thread[w].pc = "ran" => thread[w].reply \in {"success", "failure"}

\* Line numbers are below the counter.
LinesNumbered == \A r \in ledger : r.line <= lines

\* A completion record has a result and outlives the retention counted from the
\* job's birth.
RecordsOutlast ==
    \A r \in ledger :
        /\ born[r.job] # NULL
        /\ r.state = "completed" => /\ r.result # "none"
                                    /\ r.expires >= born[r.job] + RecordRetention

\* A job that was entered, or is about to be, has a record for as long as the
\* retention counted from its birth lasts, unless the record was lost.
Remembered(j) ==
    \/ j \in lost
    \/ now >= born[j] + RecordRetention
    \/ \E r \in ledger : r.job = j

RunsRemembered ==
    /\ \A j \in Jobs : runs[j] >= 1 => born[j] # NULL /\ Remembered(j)
    /\ \A w \in Workers : thread[w].pc = "marked" =>
          /\ Remembered(thread[w].grant.job)
          /\ runs[thread[w].grant.job] = 0 \/ Excused(thread[w].grant.job)

\* The inductive invariant.
BrokerInv ==
    /\ TypeOK
    /\ IsFiniteSet(grants)
    /\ LinesNumbered
    /\ RequestsInWindow
    /\ GrantsInWindow
    /\ VerifiedInTime
    /\ LockHeld
    /\ RanHasOutcome
    /\ RecordsOutlast
    /\ RunsRemembered
    /\ AtMostOnce

-----------------------------------------------------------------------------
\* A nonempty set of naturals has a least element.
LEMMA LeastNatural ==
    ASSUME NEW S \in SUBSET Nat, S # {}
    PROVE  \E x \in S : \A y \in S : x <= y
<1> DEFINE R == {ss \in Nat \X Nat : ss[1] < ss[2]}
<1>1. IsWellFoundedOn(R, Nat)
  BY NatLessThanWellFounded DEF OpToRel
<1>2. PICK x \in S : \A y \in S : ~ (<<y, x>> \in R)
  BY <1>1, WFMin, Zenon
<1>3. \A y \in S : ~ (y < x)
  <2> TAKE y \in S
  <2>1. <<y, x>> \in Nat \X Nat
    OBVIOUS
  <2> QED BY <1>2, <2>1
<1> QED BY <1>3

\* A nonempty set of numbered records has a last line.
LEMMA LastLineExists ==
    ASSUME NEW S \in SUBSET LedgerRecords, S # {},
           NEW n \in Nat, \A r \in S : r.line <= n
    PROVE  LastLine(S) \in S
<1> DEFINE T == {n - r.line : r \in S}
<1>1. T \in SUBSET Nat /\ T # {}
  BY DEF LedgerRecords
<1>2. PICK x \in T : \A y \in T : x <= y
  BY <1>1, LeastNatural
<1>3. PICK r \in S : x = n - r.line
  OBVIOUS
<1>4. \A q \in S : q.line <= r.line
  <2> TAKE q \in S
  <2>1. n - r.line <= n - q.line
    BY <1>2, <1>3
  <2> QED BY <2>1 DEF LedgerRecords
<1> QED BY <1>4 DEF LastLine

\* Compaction keeps the last committed record of each job, but for the markers
\* that it drops.
LEMMA CompactionKeeps ==
    ASSUME ledger \subseteq LedgerRecords, LinesNumbered, lines \in Nat,
           NEW K \in NewestMarkers(Markers)
    PROVE  /\ Compacted(K) \subseteq ledger /\ Markers \subseteq ledger
           /\ \A j \in Jobs : Records(j, now) # {} =>
                 \/ \E r \in Compacted(K) : r.job = j
                 \/ j \in {m.job : m \in Markers \ K}
<1> DEFINE L(j) == LastLine(Records(j, now))
           J == {r.job : r \in Committed(now)}
<1>1. \A j \in Jobs : Records(j, now) # {} => L(j) \in Records(j, now)
  BY LastLineExists DEF Records, Committed, LinesNumbered
<1>2. J \subseteq Jobs /\ \A j \in Jobs : j \in J <=> Records(j, now) # {}
  BY DEF Records, Committed, LedgerRecords
<1>3. LatestPerJob \subseteq ledger
  BY <1>1, <1>2, ZenonT(60) DEF LatestPerJob, Records, Committed
<1>4. K \subseteq Markers /\ Markers \subseteq LatestPerJob
  BY DEF NewestMarkers, Markers
<1>5. ASSUME NEW j \in Jobs, Records(j, now) # {}
      PROVE  \/ \E r \in Compacted(K) : r.job = j
             \/ j \in {m.job : m \in Markers \ K}
  <2>1. L(j) \in Records(j, now) /\ j \in J
    BY <1>1, <1>2, <1>5
  <2>2. L(j) \in LatestPerJob
    BY <2>1 DEF LatestPerJob
  <2>3. L(j).job = j
    BY <2>1 DEF Records
  <2> HIDE DEF L
  <2> QED BY <2>2, <2>3 DEF Compacted
<1> QED BY <1>3, <1>4, <1>5 DEF Compacted

\* A job keeps a record, or the ledger's loss of it is noted.
Keeping ==
    /\ lost \subseteq lost' /\ lost' \subseteq Jobs
    /\ \A j \in Jobs : now < born[j] + RecordRetention /\ (\E r \in ledger : r.job = j)
          => j \in lost' \/ \E r \in ledger' : r.job = j

\* What an append does to the ledger, compaction included.
LEMMA AppendKeeps ==
    ASSUME BrokerInv, NEW record \in LedgerRecords, NEW how \in Writes, AppendRecord(record, how)
    PROVE  /\ lines' = lines + 1 /\ tail' \in BOOLEAN
           /\ how = "done" => record \in ledger'
           /\ ledger' \subseteq ledger \union {record}
           /\ Keeping
           /\ UNCHANGED <<journal, torn>>
<1> USE DEF BrokerInv, TypeOK
<1> DEFINE added == IF how \in {"done", "whole"} THEN {record} ELSE {}
<1>0. /\ lines' = lines + 1 /\ tail' \in BOOLEAN /\ UNCHANGED <<journal, torn>>
      /\ added \subseteq {record} /\ (how = "done" => record \in added)
  BY DEF AppendRecord
<1>1. CASE Cardinality(ledger) > MaxLedger
  <2>1. PICK K \in NewestMarkers(Markers) :
           /\ ledger' = Compacted(K) \union added
           /\ lost' = lost \union ({m.job : m \in Markers \ K} \ {r.job : r \in added})
    BY <1>1 DEF AppendRecord
  <2>2. /\ Compacted(K) \subseteq ledger /\ Markers \subseteq ledger
        /\ \A j \in Jobs : Records(j, now) # {} =>
              \/ \E r \in Compacted(K) : r.job = j
              \/ j \in {m.job : m \in Markers \ K}
    BY CompactionKeeps
  <2>3. ASSUME NEW j \in Jobs, now < born[j] + RecordRetention, NEW r \in ledger, r.job = j
        PROVE  Records(j, now) # {}
    <3>1. r.state = "executing" \/ r.expires > now
      BY <2>3, BrokerTimesAssumption DEF RecordsOutlast, LedgerRecords, NULL
    <3> QED BY <2>3, <3>1 DEF Records, Committed
  <2>4. {m.job : m \in Markers \ K} \subseteq Jobs
    BY <2>2 DEF LedgerRecords
  <2> HIDE DEF added
  <2>5. Keeping
    BY <2>1, <2>2, <2>3, <2>4 DEF Keeping
  <2> QED BY <1>0, <2>1, <2>2, <2>5
<1>2. CASE ~(Cardinality(ledger) > MaxLedger)
  <2>1. ledger' = ledger \union added /\ lost' = lost
    BY <1>2 DEF AppendRecord
  <2> HIDE DEF added
  <2> QED BY <1>0, <2>1 DEF Keeping
<1> QED BY <1>1, <1>2

\* A job that is remembered, or excused, stays so while the ledger keeps records
\* or notes their loss.
LEMMA KeepsMemory ==
    ASSUME BrokerInv, Keeping, UNCHANGED <<now, born>>, NEW j \in Jobs, born[j] # NULL
    PROVE  /\ Remembered(j) => Remembered(j)'
           /\ Excused(j) => Excused(j)'
<1>1. born[j] \in Nat /\ now \in Nat
  BY DEF BrokerInv, TypeOK
<1>2. Remembered(j) => Remembered(j)'
  BY <1>1, BrokerTimesAssumption DEF Keeping, Remembered
<1>3. Excused(j) => Excused(j)'
  BY DEF Keeping, Excused, RetentionCovers
<1> QED BY <1>2, <1>3

-----------------------------------------------------------------------------
\* The broker starts with nothing requested, run or recorded.
LEMMA InitBrokerInv == Init => BrokerInv
<1> SUFFICES ASSUME Init PROVE BrokerInv
  OBVIOUS
<1>1. IsFiniteSet(grants)
  BY FS_EmptySet DEF Init
<1>2. TypeOK
  BY DEF Init, TypeOK, NULL
<1>3. \A w \in Workers : thread[w].pc = "idle"
  BY DEF Init, Idle
<1>4. RequestsInWindow /\ VerifiedInTime /\ LockHeld /\ RanHasOutcome
  BY <1>3 DEF RequestsInWindow, VerifiedInTime, Verified, Holding, LockHeld, RanHasOutcome
<1>5. GrantsInWindow /\ LinesNumbered /\ RecordsOutlast /\ AtMostOnce
  BY DEF Init, GrantsInWindow, LinesNumbered, RecordsOutlast, AtMostOnce, NULL
<1>6. RunsRemembered
  BY <1>3 DEF Init, RunsRemembered
<1> QED BY <1>1, <1>2, <1>4, <1>5, <1>6 DEF BrokerInv

\* Facts about the request a worker serves.
LEMMA ServedRequest ==
    ASSUME BrokerInv, NEW w \in Workers, thread[w].pc # "idle"
    PROVE  /\ thread[w] \in Requests
           /\ thread[w].grant.job \in Jobs
           /\ born[thread[w].grant.job] \in Nat
BY DEF BrokerInv, TypeOK, Idle, Requests, RequestsInWindow, GrantsInWindow, GrantSet, NULL

\* A request that is marked found no record, and its job was never entered, or
\* its record is lost or expired.
LEMMA MarkedIsFirst ==
    ASSUME BrokerInv, NEW w \in Workers, thread[w].pc = "locked",
           Lookup(thread[w].grant.job, thread[w].at) = "none"
    PROVE  runs[thread[w].grant.job] = 0 \/ Excused(thread[w].grant.job)
<1> DEFINE j == thread[w].grant.job
           t == thread[w].at
<1>1. thread[w] \in Requests /\ j \in Jobs /\ born[j] \in Nat
  BY ServedRequest
<1>2. t <= now /\ (RetentionCovers => now < born[j] + RecordRetention)
  <2>1. /\ t <= thread[w].grant.expires /\ thread[w].grant \in grants
        /\ t <= now /\ now <= t + RequestBound
    BY DEF BrokerInv, VerifiedInTime, Verified, RequestsInWindow
  <2>2. thread[w].grant.expires < born[j] + JobTTL + GrantValidity
    BY <2>1 DEF BrokerInv, GrantsInWindow
  <2>3. thread[w].grant.expires \in Nat /\ t \in Nat /\ now \in Nat
    BY <1>1 DEF Requests, GrantSet, BrokerInv, TypeOK
  <2> QED
    BY <1>1, <2>1, <2>2, <2>3, BrokerTimesAssumption DEF RetentionCovers
<1>3. SUFFICES ASSUME runs[j] >= 1, j \notin lost, now < born[j] + RecordRetention PROVE FALSE
  <2>1. born[j] \in Nat /\ now \in Nat /\ runs[j] \in Nat
    BY <1>1 DEF BrokerInv, TypeOK
  <2> QED BY <1>2, <2>1, BrokerTimesAssumption DEF Excused
<1>4. PICK r \in ledger : r.job = j
  BY <1>1, <1>2, <1>3, BrokerTimesAssumption
  DEF BrokerInv, TypeOK, RunsRemembered, Remembered
<1>5. r.state = "executing" \/ r.expires > t
  BY <1>1, <1>2, <1>3, <1>4, BrokerTimesAssumption
  DEF BrokerInv, TypeOK, RecordsOutlast, LedgerRecords, Requests
<1>6. r \in Records(j, t)
  BY <1>4, <1>5 DEF Records, Committed
<1>7. Lookup(j, t) # "none"
  <2>1. LastLine(Records(j, t)) \in Records(j, t)
    BY <1>6, LastLineExists DEF BrokerInv, TypeOK, LinesNumbered, Records, Committed
  <2>2. LastLine(Records(j, t)) \in ledger
    BY <2>1 DEF Records, Committed
  <2>3. LastLine(Records(j, t)).state = "executing" \/ LastLine(Records(j, t)).result # "none"
    BY <2>2 DEF BrokerInv, TypeOK, LedgerRecords, RecordsOutlast
  <2> QED BY <1>6, <2>3 DEF Lookup
<1> QED BY <1>7

-----------------------------------------------------------------------------
\* Steps that serve a request without entering the runner or the ledger.
LEMMA StepAccept ==
    ASSUME BrokerInv, NEW w \in Workers, NEW g \in grants, NEW matching \in BOOLEAN,
           Accept(w, g, matching)
    PROVE  BrokerInv'
<1> USE DEF BrokerInv
<1> DEFINE request == [pc |-> "verify", grant |-> g, at |-> now,
                       matching |-> matching, reply |-> "none"]
<1>1. /\ thread' = [thread EXCEPT ![w] = request]
      /\ UNCHANGED <<now, born, grants, ledger, lines, journal, torn, tail, lost, up, consumed,
                     lock, crashes, runs, outcome>>
  BY DEF Accept, server, disk
<1>2. request \in Requests /\ g.job \in Jobs
  BY DEF Requests, Busy, Replies, TypeOK, GrantSet
<1>3. TypeOK'
  BY <1>1, <1>2 DEF TypeOK
<1>4. RequestsInWindow'
  BY <1>1, <1>2, BrokerTimesAssumption DEF RequestsInWindow, GrantsInWindow, TypeOK
<1>5. VerifiedInTime' /\ LockHeld' /\ RanHasOutcome'
  BY <1>1 DEF VerifiedInTime, Verified, Holding, LockHeld, RanHasOutcome, TypeOK
<1>6. RunsRemembered'
  BY <1>1 DEF RunsRemembered, Remembered, Excused, RetentionCovers, TypeOK
<1>7. IsFiniteSet(grants)' /\ LinesNumbered' /\ GrantsInWindow' /\ RecordsOutlast' /\ AtMostOnce'
  BY <1>1 DEF LinesNumbered, GrantsInWindow, RecordsOutlast, AtMostOnce, Excused, RetentionCovers
<1> QED BY <1>3, <1>4, <1>5, <1>6, <1>7

\* A worker moves on within its request, keeping clock, server, ledger and
\* counters; what it must not do is become "marked" or "ran".
LEMMA StepMoves ==
    ASSUME BrokerInv, NEW w \in Workers, thread[w].pc # "idle",
           NEW r \in Requests, thread' = [thread EXCEPT ![w] = r],
           r.grant = thread[w].grant, r.at = thread[w].at,
           r.pc \in {"consume", "lookup", "wait", "locked", "reply"},
           r.pc \in Verified => thread[w].at <= thread[w].grant.expires,
           r.pc = "locked" => lock' = w,
           \A v \in Workers \ {w} : thread[v].pc \in Holding => lock' = v,
           lock' \in Workers \union {NULL},
           consumed' \subseteq grants, journal' \subseteq grants,
           ledger' \subseteq ledger, tail' \in BOOLEAN, Keeping,
           UNCHANGED <<now, born, grants, lines, torn, up, crashes, runs, outcome>>
    PROVE  BrokerInv'
<1> USE DEF BrokerInv
<1>0. \A i \in Jobs : born[i] # NULL => (Remembered(i) => Remembered(i)') /\ (Excused(i) => Excused(i)')
  BY KeepsMemory
<1>1. TypeOK'
  BY DEF TypeOK, Keeping
<1>2. RequestsInWindow'
  BY DEF RequestsInWindow, TypeOK
<1>3. VerifiedInTime' /\ LockHeld' /\ RanHasOutcome'
  BY DEF VerifiedInTime, Verified, Holding, LockHeld, RanHasOutcome, TypeOK
<1>4. RunsRemembered' /\ AtMostOnce'
  <2>1. \A i \in Jobs : runs'[i] >= 1 => born'[i] # NULL /\ Remembered(i)'
    BY <1>0 DEF RunsRemembered
  <2>2. \A v \in Workers : thread'[v].pc = "marked" => thread'[v] = thread[v]
    BY DEF TypeOK
  <2>3. ASSUME NEW v \in Workers, thread[v].pc = "marked", NEW i, i = thread[v].grant.job
        PROVE  Remembered(i)' /\ (runs[i] = 0 \/ Excused(i)')
    <3>1. i \in Jobs /\ born[i] # NULL
      BY <2>3, ServedRequest DEF NULL
    <3> QED BY <1>0, <2>3, <3>1 DEF RunsRemembered
  <2>4. ASSUME NEW v \in Workers, thread'[v].pc = "marked", NEW i, i = thread'[v].grant.job
        PROVE  Remembered(i)' /\ (runs'[i] = 0 \/ Excused(i)')
    BY <2>2, <2>3, <2>4
  <2>5. ASSUME NEW i \in Jobs PROVE runs'[i] <= 1 \/ Excused(i)'
    BY <1>0 DEF AtMostOnce, RunsRemembered, TypeOK
  <2> QED BY <2>1, <2>4, <2>5 DEF RunsRemembered, AtMostOnce, Remembered, Excused
<1>5. IsFiniteSet(grants)' /\ LinesNumbered' /\ GrantsInWindow' /\ RecordsOutlast'
  BY DEF LinesNumbered, GrantsInWindow, RecordsOutlast
<1> QED BY <1>1, <1>2, <1>3, <1>4, <1>5

\* A ledger that is left alone keeps everything.
LEMMA LeftAlone ==
    ASSUME BrokerInv, UNCHANGED <<ledger, tail, lost>>
    PROVE  ledger' \subseteq ledger /\ tail' \in BOOLEAN /\ Keeping
  BY DEF Keeping, BrokerInv, TypeOK

\* A recovery that stops keeps what it wrote back and notes the rest as lost.
LEMMA StoppedRecovery ==
    ASSUME BrokerInv, NEW kept \in SUBSET ledger, RecoveryStops(kept)
    PROVE  ledger' \subseteq ledger /\ tail' \in BOOLEAN /\ Keeping
<1>1. {r.job : r \in ledger} \subseteq Jobs /\ lost \subseteq Jobs
  BY DEF BrokerInv, TypeOK, LedgerRecords
<1>2. /\ ledger' = kept /\ tail' \in BOOLEAN
      /\ lost' = lost \union ({r.job : r \in ledger} \ {r.job : r \in kept})
  BY DEF RecoveryStops
<1> QED BY <1>1, <1>2 DEF Keeping

\* What Goto and Answer do to the request of worker w.
LEMMA MovedRequest ==
    ASSUME BrokerInv, NEW w \in Workers, thread[w].pc # "idle"
    PROVE  /\ \A pc \in Busy : [thread[w] EXCEPT !.pc = pc] \in Requests
           /\ \A reply \in Replies : [thread[w] EXCEPT !.pc = "reply", !.reply = reply] \in Requests
BY ServedRequest DEF Requests, Busy, Replies

\* Goto keeps the grant and the time of the request.
LEMMA GotoMoves ==
    ASSUME BrokerInv, NEW w \in Workers, thread[w].pc # "idle", NEW pc \in Busy, Goto(w, pc)
    PROVE  \E r \in Requests : /\ thread' = [thread EXCEPT ![w] = r]
                               /\ r.grant = thread[w].grant /\ r.at = thread[w].at
                               /\ r.pc = pc
<1> DEFINE r == [thread[w] EXCEPT !.pc = pc]
<1>1. r \in Requests
  BY MovedRequest
<1>2. r.pc = pc /\ r.grant = thread[w].grant /\ r.at = thread[w].at
  BY ServedRequest DEF Requests
<1>3. thread' = [thread EXCEPT ![w] = r]
  BY DEF Goto
<1> HIDE DEF r
<1> QED BY <1>1, <1>2, <1>3

\* Answer keeps the grant and the time of the request.
LEMMA AnswerMoves ==
    ASSUME BrokerInv, NEW w \in Workers, thread[w].pc # "idle",
           NEW reply \in Replies, Answer(w, reply)
    PROVE  \E r \in Requests : /\ thread' = [thread EXCEPT ![w] = r]
                               /\ r.grant = thread[w].grant /\ r.at = thread[w].at
                               /\ r.pc = "reply"
<1> DEFINE r == [thread[w] EXCEPT !.pc = "reply", !.reply = reply]
<1>1. r \in Requests
  BY MovedRequest
<1>2. r.pc = "reply" /\ r.grant = thread[w].grant /\ r.at = thread[w].at
  BY ServedRequest DEF Requests
<1>3. thread' = [thread EXCEPT ![w] = r]
  BY DEF Answer
<1> HIDE DEF r
<1> QED BY <1>1, <1>2, <1>3

\* verify_and_consume.
LEMMA StepVerify ==
    ASSUME BrokerInv, NEW w \in Workers, VerifyAndConsume(w) PROVE BrokerInv'
<1> USE DEF BrokerInv
<1>1. thread[w].pc = "verify" /\ thread[w] \in Requests
  BY ServedRequest DEF VerifyAndConsume
<1>2. thread[w].grant \in grants /\ Unexpired(thread[w].at) \subseteq grants
  BY <1>1 DEF RequestsInWindow, Unexpired, TypeOK
<1>3. \A v \in Workers : thread[v].pc \in Holding => lock = v
  BY DEF LockHeld
<1>4. UNCHANGED <<now, born, grants, ledger, lines, journal, torn, tail, lost, up, lock, crashes, runs, outcome>>
  BY DEF VerifyAndConsume, server, disk
<1>5. journal' \subseteq grants /\ lock' \in Workers \union {NULL}
  BY <1>4 DEF TypeOK
<1>6. CASE /\ Answer(w, "refused")
           /\ consumed' \in {consumed, Unexpired(thread[w].at)}
  <2>1. PICK r \in Requests : /\ thread' = [thread EXCEPT ![w] = r]
                              /\ r.grant = thread[w].grant /\ r.at = thread[w].at
                              /\ r.pc = "reply"
    BY <1>1, <1>6, AnswerMoves DEF Replies
  <2>2. consumed' \subseteq grants
    BY <1>2, <1>6 DEF TypeOK
  <2> QED BY <1>1, <1>3, <1>4, <1>5, <2>1, <2>2, StepMoves, LeftAlone DEF Verified
<1>7. CASE /\ Goto(w, "consume")
           /\ thread[w].at <= thread[w].grant.expires
           /\ consumed' = Unexpired(thread[w].at) \union {thread[w].grant}
  <2>1. PICK r \in Requests : /\ thread' = [thread EXCEPT ![w] = r]
                              /\ r.grant = thread[w].grant /\ r.at = thread[w].at
                              /\ r.pc = "consume"
    BY <1>1, <1>7, GotoMoves DEF Busy
  <2>2. consumed' \subseteq grants
    BY <1>2, <1>7
  <2> QED BY <1>1, <1>3, <1>4, <1>5, <1>7, <2>1, <2>2, StepMoves, LeftAlone
<1>8. thread[w].at \in Nat /\ thread[w].grant.expires \in Nat
  BY <1>1 DEF Requests, GrantSet
<1> QED BY <1>6, <1>7, <1>8 DEF VerifyAndConsume

\* record_consumed_grant.
LEMMA StepRecordConsumed ==
    ASSUME BrokerInv, NEW w \in Workers, NEW written \in BOOLEAN, RecordConsumedGrant(w, written)
    PROVE  BrokerInv'
<1> USE DEF BrokerInv
<1>1. thread[w].pc = "consume" /\ thread[w] \in Requests
  BY ServedRequest DEF RecordConsumedGrant
<1>2. thread[w].grant \in grants /\ thread[w].at <= thread[w].grant.expires
  BY <1>1 DEF RequestsInWindow, VerifiedInTime, Verified
<1>3. \A v \in Workers : thread[v].pc \in Holding => lock = v
  BY DEF LockHeld
<1>4. UNCHANGED <<now, born, grants, ledger, lines, torn, tail, lost, up, consumed, lock, crashes, runs, outcome>>
  BY DEF RecordConsumedGrant, server
<1>5. journal' \subseteq grants /\ consumed' \subseteq grants /\ lock' \in Workers \union {NULL}
  BY <1>2, <1>4 DEF TypeOK, RecordConsumedGrant
<1>6. Goto(w, "lookup") \/ Answer(w, "refused")
  BY DEF RecordConsumedGrant
<1>7. PICK r \in Requests : /\ thread' = [thread EXCEPT ![w] = r]
                            /\ r.grant = thread[w].grant /\ r.at = thread[w].at
                            /\ r.pc \in {"lookup", "reply"}
  BY <1>1, <1>6, GotoMoves, AnswerMoves DEF Busy, Replies
<1> QED BY <1>1, <1>2, <1>3, <1>4, <1>5, <1>7, StepMoves, LeftAlone

\* The result of a lookup is a reply, "none" or "executing".
LEMMA LookupType ==
    ASSUME BrokerInv, NEW j \in Jobs, NEW t \in Nat
    PROVE  Lookup(j, t) \in Replies \union {"executing"}
<1>1. CASE Records(j, t) = {}
  BY <1>1 DEF Lookup, Replies
<1>2. CASE Records(j, t) # {}
  <2>1. LastLine(Records(j, t)) \in ledger
    BY <1>2, LastLineExists DEF BrokerInv, TypeOK, LinesNumbered, Records, Committed
  <2>2. LastLine(Records(j, t)) \in LedgerRecords
    BY <2>1 DEF BrokerInv, TypeOK
  <2> QED BY <1>2, <2>2 DEF Lookup, LedgerRecords, Replies
<1> QED BY <1>1, <1>2

\* The lookup before the execution mutex.
LEMMA StepLookup ==
    ASSUME BrokerInv, NEW w \in Workers, LookupFirst(w) PROVE BrokerInv'
<1> USE DEF BrokerInv
<1>1. thread[w].pc = "lookup" /\ thread[w] \in Requests /\ thread[w].grant.job \in Jobs
  BY ServedRequest DEF LookupFirst
<1>2. thread[w].at <= thread[w].grant.expires
  BY <1>1 DEF VerifiedInTime, Verified
<1>3. \A v \in Workers : thread[v].pc \in Holding => lock = v
  BY DEF LockHeld
<1>4. UNCHANGED <<now, born, grants, ledger, lines, journal, torn, tail, lost, up, consumed, lock, crashes,
                  runs, outcome>>
  BY DEF LookupFirst, server, disk
<1>5. journal' \subseteq grants /\ consumed' \subseteq grants /\ lock' \in Workers \union {NULL}
  BY <1>4 DEF TypeOK
<1>6. Lookup(thread[w].grant.job, thread[w].at) \in Replies \union {"executing"}
  BY <1>1, LookupType DEF Requests
<1>7. Goto(w, "wait") \/ \E reply \in Replies : Answer(w, reply)
  BY <1>6 DEF LookupFirst, Replies
<1>8. PICK r \in Requests : /\ thread' = [thread EXCEPT ![w] = r]
                            /\ r.grant = thread[w].grant /\ r.at = thread[w].at
                            /\ r.pc \in {"wait", "reply"}
  BY <1>1, <1>7, GotoMoves, AnswerMoves DEF Busy
<1> QED BY <1>1, <1>2, <1>3, <1>4, <1>5, <1>8, StepMoves, LeftAlone

\* The execution mutex is taken.
LEMMA StepTakeLock ==
    ASSUME BrokerInv, NEW w \in Workers, TakeLock(w) PROVE BrokerInv'
<1> USE DEF BrokerInv
<1>1. thread[w].pc = "wait" /\ thread[w] \in Requests /\ lock' = w /\ Goto(w, "locked")
  BY ServedRequest DEF TakeLock
<1>2. thread[w].at <= thread[w].grant.expires
  BY <1>1 DEF VerifiedInTime, Verified
<1>3. \A v \in Workers : thread[v].pc \notin Holding
  BY WorkersNotNull DEF LockHeld, TakeLock
<1>4. UNCHANGED <<now, born, grants, ledger, lines, journal, torn, tail, lost, up, consumed, crashes,
                  runs, outcome>>
  BY DEF TakeLock, server, disk
<1>5. journal' \subseteq grants /\ consumed' \subseteq grants /\ lock' \in Workers \union {NULL}
  BY <1>1, <1>4 DEF TypeOK
<1>6. PICK r \in Requests : /\ thread' = [thread EXCEPT ![w] = r]
                            /\ r.grant = thread[w].grant /\ r.at = thread[w].at
                            /\ r.pc = "locked"
  BY <1>1, GotoMoves DEF Busy
<1> QED BY <1>1, <1>2, <1>3, <1>4, <1>5, <1>6, StepMoves, LeftAlone

-----------------------------------------------------------------------------
\* Steps of the holder of the execution mutex.

\* The holder gives the mutex up and answers; nobody else is past it.
LEMMA StepReleases ==
    ASSUME BrokerInv, NEW w \in Workers, thread[w].pc \in Holding,
           NEW reply \in Replies, Answer(w, reply), lock' = NULL,
           ledger' \subseteq ledger, tail' \in BOOLEAN, Keeping,
           UNCHANGED <<now, born, grants, lines, journal, torn, up, consumed, crashes,
                       runs, outcome>>
    PROVE  BrokerInv'
<1>1. thread[w].pc # "idle"
  BY DEF Holding
<1>2. \A v \in Workers \ {w} : thread[v].pc \notin Holding
  BY DEF BrokerInv, LockHeld
<1>3. PICK r \in Requests : /\ thread' = [thread EXCEPT ![w] = r]
                            /\ r.grant = thread[w].grant /\ r.at = thread[w].at
                            /\ r.pc = "reply"
  BY <1>1, AnswerMoves
<1>4. journal' \subseteq grants /\ consumed' \subseteq grants
  BY DEF BrokerInv, TypeOK
<1> QED BY <1>1, <1>2, <1>3, <1>4, StepMoves DEF Verified

\* A torn ledger is written back, and the read goes on.
LEMMA StepRecover ==
    ASSUME BrokerInv, NEW w \in Workers, RecoverTornFinalRecord(w) PROVE BrokerInv'
<1> USE DEF BrokerInv
<1>1. /\ tail' = FALSE
      /\ UNCHANGED <<now, born, grants, ledger, lines, journal, torn, lost, up, consumed, thread,
                     lock, crashes, runs, outcome>>
  BY DEF RecoverTornFinalRecord, server
<1>2. TypeOK' /\ IsFiniteSet(grants)' /\ LinesNumbered' /\ AtMostOnce'
  BY <1>1 DEF TypeOK, LinesNumbered, AtMostOnce, Excused, RetentionCovers
<1>3. RequestsInWindow' /\ GrantsInWindow' /\ VerifiedInTime' /\ LockHeld'
  BY <1>1 DEF RequestsInWindow, GrantsInWindow, VerifiedInTime, LockHeld
<1>4. RanHasOutcome' /\ RecordsOutlast' /\ RunsRemembered'
  BY <1>1 DEF RanHasOutcome, RecordsOutlast, RunsRemembered, Remembered, Excused, RetentionCovers
<1> QED BY <1>2, <1>3, <1>4

\* The recovery of a torn ledger fails.
LEMMA StepRecoveryFails ==
    ASSUME BrokerInv, NEW w \in Workers, NEW kept \in SUBSET ledger, RecoveryFails(w, kept)
    PROVE  BrokerInv'
<1>1. /\ thread[w].pc \in {"lookup", "locked", "ran"}
      /\ RecoveryStops(kept) /\ lock' = Unlocked(w)
      /\ UNCHANGED <<now, born, grants, lines, journal, torn, up, consumed, crashes, runs, outcome>>
  BY DEF RecoveryFails, Reading, server
<1>2. ledger' \subseteq ledger /\ tail' \in BOOLEAN /\ Keeping
  BY <1>1, StoppedRecovery
<1>3. PICK reply \in Replies : Answer(w, reply)
  BY DEF RecoveryFails, Replies
<1>4. PICK r \in Requests : /\ thread' = [thread EXCEPT ![w] = r]
                            /\ r.grant = thread[w].grant /\ r.at = thread[w].at
                            /\ r.pc = "reply"
  BY <1>1, <1>3, AnswerMoves
<1>5. journal' \subseteq grants /\ consumed' \subseteq grants /\ lock' \in Workers \union {NULL}
  BY <1>1 DEF BrokerInv, TypeOK, Unlocked
<1>6. \A v \in Workers \ {w} : thread[v].pc \in Holding => lock' = v
  BY <1>1 DEF BrokerInv, LockHeld, Unlocked
<1> QED BY <1>1, <1>2, <1>4, <1>5, <1>6, StepMoves DEF Verified

\* The second lookup and mark_executing.
LEMMA StepMarkExecuting ==
    ASSUME BrokerInv, NEW w \in Workers, NEW how \in Writes, MarkExecuting(w, how)
    PROVE  BrokerInv'
<1> DEFINE j == thread[w].grant.job
           t == thread[w].at
<1>1. thread[w].pc = "locked" /\ thread[w] \in Requests /\ j \in Jobs /\ born[j] \in Nat
  BY ServedRequest DEF MarkExecuting
<1>2. Lookup(j, t) \in Replies \union {"executing"}
  BY <1>1, LookupType DEF Requests
<1>3. CASE Lookup(j, t) # "none"
  <2>1. PICK reply \in Replies : Answer(w, reply)
    BY <1>2, <1>3 DEF MarkExecuting, Replies
  <2>2. /\ lock' = NULL
        /\ UNCHANGED <<now, born, grants, ledger, lines, journal, torn, tail, lost, up, consumed,
                       crashes, runs, outcome>>
    BY <1>3 DEF MarkExecuting, server, disk
  <2> QED BY <1>1, <2>1, <2>2, StepReleases, LeftAlone DEF Holding
<1>4. CASE Lookup(j, t) = "none"
  <2> DEFINE m == Marker(j, t)
  <2>1. /\ AppendRecord(m, how)
        /\ \/ how = "done" /\ Goto(w, "marked") /\ lock' = lock
           \/ Answer(w, "refused") /\ lock' = NULL
        /\ UNCHANGED <<now, born, grants, up, consumed, crashes, runs, outcome>>
    BY <1>4 DEF MarkExecuting, server
  <2>2. m \in LedgerRecords /\ m.job = j /\ m.state = "executing" /\ m.line = lines + 1
    BY <1>1, BrokerTimesAssumption DEF BrokerInv, TypeOK, Marker, LedgerRecords, Requests
  <2>3. runs[j] = 0 \/ Excused(j)
    BY <1>1, <1>4, MarkedIsFirst
  <2> HIDE DEF m
  <2>4. /\ lines' = lines + 1 /\ tail' \in BOOLEAN
        /\ how = "done" => m \in ledger'
        /\ ledger' \subseteq ledger \union {m}
        /\ Keeping
        /\ UNCHANGED <<journal, torn>>
    BY <2>1, <2>2, AppendKeeps
  <2>5. PICK r \in Requests : /\ thread' = [thread EXCEPT ![w] = r]
                              /\ r.grant = thread[w].grant /\ r.at = thread[w].at
                              /\ \/ r.pc = "marked" /\ how = "done" /\ lock' = lock
                                 \/ r.pc = "reply" /\ lock' = NULL
    BY <1>1, <2>1, GotoMoves, AnswerMoves DEF Busy, Replies
  <2> USE DEF BrokerInv
  <2>6. TypeOK'
    BY <2>1, <2>2, <2>4, <2>5 DEF TypeOK, Keeping
  <2>7. LinesNumbered' /\ RecordsOutlast'
    BY <1>1, <2>1, <2>2, <2>4 DEF LinesNumbered, RecordsOutlast, TypeOK, LedgerRecords, NULL
  <2>8. RequestsInWindow' /\ GrantsInWindow' /\ IsFiniteSet(grants)'
    BY <1>1, <2>1, <2>5 DEF RequestsInWindow, GrantsInWindow, TypeOK
  <2>9. VerifiedInTime' /\ LockHeld' /\ RanHasOutcome'
    BY <1>1, <2>1, <2>5
    DEF VerifiedInTime, Verified, Holding, LockHeld, RanHasOutcome, TypeOK
  <2>10. \A i \in Jobs : born[i] # NULL =>
            (Remembered(i) => Remembered(i)') /\ (Excused(i) => Excused(i)')
    BY <2>1, <2>4, KeepsMemory
  <2>11. ASSUME NEW i \in Jobs, i = j, how = "done" PROVE Remembered(i)'
    BY <2>2, <2>4, <2>11 DEF Remembered
  <2>12. RunsRemembered' /\ AtMostOnce'
    <3>1. \A i \in Jobs : runs'[i] >= 1 => born'[i] # NULL /\ Remembered(i)'
      BY <2>1, <2>10 DEF RunsRemembered
    <3>2. \A v \in Workers : thread'[v].pc = "marked" => thread'[v].grant.job = j /\ how = "done"
      BY <1>1, <2>5 DEF LockHeld, Holding, TypeOK
    <3>3. ASSUME NEW i \in Jobs, i = j, how = "done"
          PROVE  Remembered(i)' /\ (runs'[i] = 0 \/ Excused(i)')
      BY <1>1, <2>1, <2>3, <2>10, <2>11, <3>3 DEF NULL
    <3>4. ASSUME NEW i \in Jobs PROVE runs'[i] <= 1 \/ Excused(i)'
      BY <2>1, <2>10 DEF AtMostOnce, RunsRemembered, TypeOK
    <3> HIDE DEF j
    <3> QED BY <1>1, <3>1, <3>2, <3>3, <3>4 DEF RunsRemembered, AtMostOnce, Remembered, Excused
  <2> QED BY <2>6, <2>7, <2>8, <2>9, <2>12
<1> QED BY <1>3, <1>4

\* The runner is entered: the marker is there and the job had not run.
LEMMA StepStartRun ==
    ASSUME BrokerInv, NEW w \in Workers, StartRun(w) PROVE BrokerInv'
<1> DEFINE j == thread[w].grant.job
<1>1. thread[w].pc = "marked" /\ thread[w] \in Requests /\ j \in Jobs /\ born[j] \in Nat
  BY ServedRequest DEF StartRun
<1>2. /\ Goto(w, "running")
      /\ runs' = [runs EXCEPT ![j] = @ + 1]
      /\ UNCHANGED <<now, born, grants, ledger, lines, journal, torn, tail, lost, up, consumed, lock,
                     crashes, outcome>>
  BY DEF StartRun, server, disk
<1>3. PICK r \in Requests : /\ thread' = [thread EXCEPT ![w] = r]
                            /\ r.grant = thread[w].grant /\ r.at = thread[w].at
                            /\ r.pc = "running"
  BY <1>1, <1>2, GotoMoves DEF Busy
<1> USE DEF BrokerInv
<1>4. (runs[j] = 0 \/ Excused(j)) /\ Remembered(j)
  BY <1>1 DEF RunsRemembered
<1>5. TypeOK'
  BY <1>1, <1>2, <1>3 DEF TypeOK
<1>6. RequestsInWindow' /\ GrantsInWindow' /\ IsFiniteSet(grants)' /\ LinesNumbered'
  BY <1>1, <1>2, <1>3 DEF RequestsInWindow, GrantsInWindow, LinesNumbered, TypeOK
<1>7. VerifiedInTime' /\ LockHeld' /\ RanHasOutcome' /\ RecordsOutlast'
  BY <1>1, <1>2, <1>3
  DEF VerifiedInTime, Verified, Holding, LockHeld, RanHasOutcome, RecordsOutlast, TypeOK
<1>8. AtMostOnce'
  <2>1. \A i \in Jobs : Excused(i)' <=> Excused(i)
    BY <1>2 DEF Excused, RetentionCovers
  <2>2. ASSUME NEW i \in Jobs PROVE runs'[i] <= 1 \/ Excused(i)'
    <3>1. runs \in [Jobs -> Nat] /\ (runs[i] <= 1 \/ Excused(i))
      BY DEF TypeOK, AtMostOnce
    <3>2. CASE i = j
      BY <1>1, <1>2, <1>4, <2>1, <3>1, <3>2
    <3>3. CASE i # j
      BY <1>2, <2>1, <3>1, <3>3
    <3> QED BY <3>2, <3>3
  <2> QED BY <2>2 DEF AtMostOnce, Excused
<1>9. RunsRemembered'
  <2>1. \A i \in Jobs : Remembered(i)' <=> Remembered(i)
    BY <1>2 DEF Remembered
  <2>2. \A i \in Jobs : runs'[i] >= 1 => born'[i] # NULL /\ Remembered(i)'
    BY <1>1, <1>2, <1>4, <2>1 DEF RunsRemembered, TypeOK, NULL
  <2>3. \A v \in Workers : thread'[v].pc # "marked"
    BY <1>1, <1>3 DEF LockHeld, Holding, TypeOK
  <2> QED BY <2>2, <2>3 DEF RunsRemembered
<1> QED BY <1>5, <1>6, <1>7, <1>8, <1>9

\* What a run that returned a response leaves in the request.
LEMMA RanGives ==
    ASSUME BrokerInv, NEW w \in Workers, thread[w].pc # "idle", NEW result \in {"success", "failure"},
           thread' = [thread EXCEPT ![w].pc = "ran", ![w].reply = result]
    PROVE  \E r \in Requests : /\ thread' = [thread EXCEPT ![w] = r]
                               /\ r.grant = thread[w].grant /\ r.at = thread[w].at
                               /\ r.pc = "ran" /\ r.reply = result
<1> DEFINE r == [thread[w] EXCEPT !.pc = "ran", !.reply = result]
<1>1. r \in Requests /\ r.pc = "ran" /\ r.reply = result
      /\ r.grant = thread[w].grant /\ r.at = thread[w].at
  BY ServedRequest DEF Requests, Busy, Replies
<1>2. thread' = [thread EXCEPT ![w] = r]
  OBVIOUS
<1> HIDE DEF r
<1> QED BY <1>1, <1>2

\* The runner returns.
LEMMA StepFinishRun ==
    ASSUME BrokerInv, NEW w \in Workers, NEW result \in RunResults, FinishRun(w, result)
    PROVE  BrokerInv'
<1> DEFINE j == thread[w].grant.job
<1>1. thread[w].pc = "running" /\ thread[w] \in Requests /\ j \in Jobs
  BY ServedRequest DEF FinishRun
<1>2. /\ outcome' = [outcome EXCEPT ![j] = @ \union {result}]
      /\ UNCHANGED <<now, born, grants, ledger, lines, journal, torn, tail, lost, up, consumed,
                     crashes, runs>>
  BY DEF FinishRun, server, disk
<1>3. PICK r \in Requests : /\ thread' = [thread EXCEPT ![w] = r]
                            /\ r.grant = thread[w].grant /\ r.at = thread[w].at
                            /\ \/ r.pc = "reply" /\ lock' = NULL
                               \/ r.pc = "ran" /\ lock' = lock /\ r.reply \in {"success", "failure"}
  <2>1. CASE result = "error"
    <3>1. Answer(w, "unknown") /\ lock' = NULL
      BY <2>1 DEF FinishRun
    <3> QED BY <1>1, <3>1, AnswerMoves DEF Replies
  <2>2. CASE result # "error"
    <3>1. /\ thread' = [thread EXCEPT ![w].pc = "ran", ![w].reply = result]
          /\ lock' = lock /\ result \in {"success", "failure"}
      BY <2>2 DEF FinishRun, RunResults
    <3> QED BY <1>1, <3>1, RanGives
  <2> QED BY <2>1, <2>2
<1> USE DEF BrokerInv
<1>4. \A v \in Workers \ {w} : thread[v].pc \notin Holding
  BY <1>1 DEF LockHeld, Holding
<1>5. TypeOK'
  BY <1>1, <1>2, <1>3 DEF TypeOK
<1>6. RequestsInWindow' /\ GrantsInWindow' /\ IsFiniteSet(grants)' /\ LinesNumbered' /\ AtMostOnce'
  BY <1>1, <1>2, <1>3
  DEF RequestsInWindow, GrantsInWindow, LinesNumbered, AtMostOnce, Excused, RetentionCovers, TypeOK
<1>7. VerifiedInTime' /\ LockHeld' /\ RecordsOutlast'
  BY <1>1, <1>2, <1>3, <1>4
  DEF VerifiedInTime, Verified, Holding, LockHeld, RecordsOutlast, TypeOK
<1>8. RanHasOutcome'
  BY <1>1, <1>2, <1>3, <1>4 DEF RanHasOutcome, Holding, TypeOK
<1>9. RunsRemembered'
  <2>1. \A v \in Workers : thread'[v].pc # "marked"
    BY <1>3, <1>4 DEF Holding, TypeOK
  <2>2. \A i \in Jobs : runs'[i] >= 1 => born'[i] # NULL /\ Remembered(i)'
    BY <1>2 DEF RunsRemembered, Remembered
  <2> QED BY <2>1, <2>2 DEF RunsRemembered
<1> QED BY <1>5, <1>6, <1>7, <1>8, <1>9

\* record_completed.
LEMMA StepRecordCompleted ==
    ASSUME BrokerInv, NEW w \in Workers, NEW fits \in BOOLEAN, NEW how \in Writes,
           RecordCompleted(w, fits, how)
    PROVE  BrokerInv'
<1> DEFINE j == thread[w].grant.job
           t == thread[w].at
<1>1. thread[w].pc = "ran" /\ thread[w] \in Requests /\ j \in Jobs /\ born[j] \in Nat
  BY ServedRequest DEF RecordCompleted
<1>2. /\ lock' = NULL
      /\ UNCHANGED <<now, born, grants, up, consumed, crashes, runs, outcome>>
  BY DEF RecordCompleted, server
<1>3. CASE ~(fits /\ Lookup(j, t) # "none")
  <2>1. Answer(w, "unknown") /\ UNCHANGED <<ledger, lines, journal, torn, tail, lost>>
    BY <1>3 DEF RecordCompleted, disk
  <2> QED BY <1>1, <1>2, <2>1, StepReleases, LeftAlone DEF Holding, Replies
<1>4. CASE fits /\ Lookup(j, t) # "none"
  <2> DEFINE m == Completion(j, thread[w].reply, t)
  <2>1. /\ AppendRecord(m, how) /\ \E reply \in Replies : Answer(w, reply)
        /\ thread[w].reply \in {"success", "failure"}
    BY <1>1, <1>4 DEF RecordCompleted, BrokerInv, RanHasOutcome, Replies
  <2>2. t \in Nat /\ born[j] <= t
    BY <1>1 DEF Requests, BrokerInv, RequestsInWindow
  <2>3. m \in LedgerRecords /\ m.job = j /\ m.state = "completed" /\ m.line = lines + 1
    BY <1>1, <2>1, <2>2, BrokerTimesAssumption DEF BrokerInv, TypeOK, Completion, LedgerRecords
  <2>4. m.result # "none" /\ m.expires >= born[j] + RecordRetention
    BY <1>1, <2>1, <2>2, BrokerTimesAssumption DEF Completion
  <2> HIDE DEF m
  <2>5. /\ lines' = lines + 1 /\ tail' \in BOOLEAN
        /\ ledger' \subseteq ledger \union {m}
        /\ Keeping
        /\ UNCHANGED <<journal, torn>>
    BY <2>1, <2>3, AppendKeeps
  <2>6. PICK r \in Requests : /\ thread' = [thread EXCEPT ![w] = r]
                              /\ r.grant = thread[w].grant /\ r.at = thread[w].at
                              /\ r.pc = "reply"
    BY <1>1, <2>1, AnswerMoves
  <2> USE DEF BrokerInv
  <2>7. \A v \in Workers \ {w} : thread[v].pc \notin Holding
    BY <1>1 DEF LockHeld, Holding
  <2>8. TypeOK'
    BY <1>2, <2>3, <2>5, <2>6 DEF TypeOK, Keeping
  <2>9. LinesNumbered' /\ RecordsOutlast'
    BY <1>1, <1>2, <2>3, <2>4, <2>5 DEF LinesNumbered, RecordsOutlast, TypeOK, LedgerRecords, NULL
  <2>10. RequestsInWindow' /\ GrantsInWindow' /\ IsFiniteSet(grants)'
    BY <1>1, <1>2, <2>6 DEF RequestsInWindow, GrantsInWindow, TypeOK
  <2>11. VerifiedInTime' /\ LockHeld' /\ RanHasOutcome'
    BY <1>1, <1>2, <2>6, <2>7
    DEF VerifiedInTime, Verified, Holding, LockHeld, RanHasOutcome, TypeOK
  <2>12. RunsRemembered' /\ AtMostOnce'
    <3>1. \A v \in Workers : thread'[v].pc # "marked"
      BY <2>6, <2>7 DEF Holding, TypeOK
    <3>2. \A i \in Jobs : born[i] # NULL =>
             (Remembered(i) => Remembered(i)') /\ (Excused(i) => Excused(i)')
      BY <1>2, <2>5, KeepsMemory
    <3>3. \A i \in Jobs : runs'[i] >= 1 => born'[i] # NULL /\ Remembered(i)'
      BY <1>2, <3>2 DEF RunsRemembered
    <3>4. ASSUME NEW i \in Jobs PROVE runs'[i] <= 1 \/ Excused(i)'
      BY <1>2, <3>2 DEF AtMostOnce, RunsRemembered, TypeOK
    <3> QED BY <3>1, <3>3, <3>4 DEF RunsRemembered, AtMostOnce, Excused
  <2> QED BY <2>8, <2>9, <2>10, <2>11, <2>12
<1> QED BY <1>3, <1>4

-----------------------------------------------------------------------------
\* Steps that end requests, and the steps of the surroundings.

\* Some requests end, together or alone; the rest of the broker's memory may
\* go with them.
LEMMA StepEnds ==
    ASSUME BrokerInv, thread' \in [Workers -> Requests \union {Idle}],
           \A w \in Workers : thread'[w] = Idle \/ (thread'[w] = thread[w] /\ lock' = lock),
           torn' \in BOOLEAN, up' \in BOOLEAN, crashes' \in Nat,
           consumed' \subseteq grants, lock' \in Workers \union {NULL},
           ledger' \subseteq ledger, tail' \in BOOLEAN, Keeping,
           UNCHANGED <<now, born, grants, lines, journal, runs, outcome>>
    PROVE  BrokerInv'
<1> USE DEF BrokerInv
<1>1. Idle.pc = "idle"
  BY DEF Idle
<1>2. TypeOK'
  BY DEF TypeOK, Keeping
<1>3. RequestsInWindow' /\ VerifiedInTime' /\ LockHeld' /\ RanHasOutcome'
  BY <1>1 DEF RequestsInWindow, VerifiedInTime, Verified, Holding, LockHeld, RanHasOutcome
<1>4. RunsRemembered' /\ AtMostOnce'
  <2>1. \A i \in Jobs : born[i] # NULL =>
           (Remembered(i) => Remembered(i)') /\ (Excused(i) => Excused(i)')
    BY KeepsMemory
  <2>2. \A i \in Jobs : runs'[i] >= 1 => born'[i] # NULL /\ Remembered(i)'
    BY <2>1 DEF RunsRemembered
  <2>3. ASSUME NEW v \in Workers, thread'[v].pc = "marked", NEW i, i = thread'[v].grant.job
        PROVE  Remembered(i)' /\ (runs'[i] = 0 \/ Excused(i)')
    <3>1. thread'[v] = thread[v]
      BY <1>1, <2>3
    <3>2. i \in Jobs /\ born[i] # NULL
      BY <2>3, <3>1, ServedRequest DEF NULL
    <3> QED BY <2>1, <2>3, <3>1, <3>2 DEF RunsRemembered
  <2>4. ASSUME NEW i \in Jobs PROVE runs'[i] <= 1 \/ Excused(i)'
    BY <2>1 DEF AtMostOnce, RunsRemembered, TypeOK
  <2> QED BY <2>2, <2>3, <2>4 DEF RunsRemembered, AtMostOnce, Remembered, Excused
<1>5. GrantsInWindow' /\ IsFiniteSet(grants)' /\ LinesNumbered' /\ RecordsOutlast'
  BY DEF GrantsInWindow, LinesNumbered, RecordsOutlast
<1> QED BY <1>2, <1>3, <1>4, <1>5

\* The answer is written.
LEMMA StepRespond ==
    ASSUME BrokerInv, NEW w \in Workers, Respond(w) PROVE BrokerInv'
<1>1. /\ thread' = [thread EXCEPT ![w] = Idle]
      /\ UNCHANGED <<now, born, grants, ledger, lines, journal, torn, tail, lost, up, consumed, lock, crashes,
                     runs, outcome>>
  BY DEF Respond, server, disk
<1>2. thread' \in [Workers -> Requests \union {Idle}]
  BY <1>1 DEF BrokerInv, TypeOK
<1>3. \A v \in Workers : thread'[v] = Idle \/ (thread'[v] = thread[v] /\ lock' = lock)
  BY <1>1 DEF BrokerInv, TypeOK
<1>4. /\ torn' \in BOOLEAN /\ up' \in BOOLEAN /\ crashes' \in Nat
      /\ consumed' \subseteq grants /\ lock' \in Workers \union {NULL}
  BY <1>1 DEF BrokerInv, TypeOK
<1> QED BY <1>1, <1>2, <1>3, <1>4, StepEnds, LeftAlone

\* The process dies.
LEMMA StepCrash ==
    ASSUME BrokerInv, NEW within \in Within, NEW kept \in SUBSET ledger, Crash(within, kept)
    PROVE  BrokerInv'
<1>1. /\ thread' = [w \in Workers |-> Idle]
      /\ crashes' = crashes + 1 /\ up' = FALSE /\ torn' = (torn \/ within = "journal")
      /\ consumed' = {} /\ lock' = NULL
      /\ UNCHANGED <<now, born, grants, lines, journal, runs, outcome>>
  BY DEF Crash, server
<1>0. ledger' \subseteq ledger /\ tail' \in BOOLEAN /\ Keeping
  <2>1. CASE within = "recovery"
    BY <2>1, StoppedRecovery DEF Crash
  <2>2. CASE within # "recovery"
    <3>1. UNCHANGED <<ledger, lost>> /\ tail' = (tail \/ within = "append")
      BY <2>2 DEF Crash
    <3> QED BY <3>1 DEF Keeping, BrokerInv, TypeOK
  <2> QED BY <2>1, <2>2
<1>2. crashes' \in Nat /\ thread' \in [Workers -> Requests \union {Idle}]
  BY <1>1 DEF BrokerInv, TypeOK
<1>3. torn' \in BOOLEAN /\ up' \in BOOLEAN
  BY <1>1
<1>4. consumed' \subseteq grants /\ lock' \in Workers \union {NULL}
  BY <1>1
<1>5. \A w \in Workers : thread'[w] = Idle \/ (thread'[w] = thread[w] /\ lock' = lock)
  BY <1>1
<1>6. UNCHANGED <<now, born, grants, lines, journal, runs, outcome>>
  BY <1>1
<1> QED BY <1>0, <1>2, <1>3, <1>4, <1>5, <1>6, StepEnds

\* The process is started again.
LEMMA StepRestart ==
    ASSUME BrokerInv, Restart PROVE BrokerInv'
<1>1. /\ up' = TRUE /\ consumed' \subseteq journal
      /\ UNCHANGED <<now, born, grants, ledger, lines, journal, torn, tail, lost, thread, lock, crashes, runs,
                     outcome>>
  BY DEF Restart, server, disk
<1>2. /\ thread' \in [Workers -> Requests \union {Idle}] /\ torn' \in BOOLEAN
      /\ crashes' \in Nat /\ consumed' \subseteq grants /\ lock' \in Workers \union {NULL}
  BY <1>1 DEF BrokerInv, TypeOK
<1> QED BY <1>1, <1>2, StepEnds, LeftAlone

\* A job is created.
LEMMA StepCreateJob ==
    ASSUME BrokerInv, NEW j \in Jobs, CreateJob(j) PROVE BrokerInv'
<1> USE DEF BrokerInv
<1>1. /\ born[j] = NULL /\ born' = [born EXCEPT ![j] = now]
      /\ UNCHANGED <<now, grants, ledger, lines, journal, torn, tail, lost, up, consumed, thread, lock,
                     crashes, runs, outcome>>
  BY DEF CreateJob, disk
<1>2. \A g \in grants : g.job # j /\ born'[g.job] = born[g.job]
  BY <1>1 DEF GrantsInWindow, TypeOK, GrantSet
<1>3. \A r \in ledger : r.job # j /\ born'[r.job] = born[r.job]
  BY <1>1 DEF RecordsOutlast, TypeOK, LedgerRecords
<1>4. TypeOK'
  BY <1>1 DEF TypeOK
<1>5. RequestsInWindow' /\ GrantsInWindow'
  BY <1>1, <1>2 DEF RequestsInWindow, GrantsInWindow, TypeOK, NULL
<1>6. VerifiedInTime' /\ LockHeld' /\ RanHasOutcome' /\ LinesNumbered' /\ IsFiniteSet(grants)'
  BY <1>1 DEF VerifiedInTime, LockHeld, RanHasOutcome, LinesNumbered
<1>7. RecordsOutlast'
  BY <1>1, <1>3 DEF RecordsOutlast
<1>8. RunsRemembered' /\ AtMostOnce'
  <2>1. ASSUME NEW i \in Jobs, i # j
        PROVE  (Remembered(i)' <=> Remembered(i)) /\ (Excused(i)' <=> Excused(i))
    BY <1>1, <2>1 DEF Remembered, Excused, RetentionCovers, TypeOK
  <2>2. \A i \in Jobs : runs'[i] >= 1 => born'[i] # NULL /\ Remembered(i)'
    BY <1>1, <2>1 DEF RunsRemembered, TypeOK
  <2>3. \A w \in Workers : thread[w].pc = "marked" => thread[w].grant.job \in Jobs \ {j}
    BY <1>2 DEF RequestsInWindow, TypeOK, GrantSet
  <2>4. ASSUME NEW w \in Workers, thread'[w].pc = "marked", NEW i, i = thread'[w].grant.job
        PROVE  Remembered(i)' /\ (runs'[i] = 0 \/ Excused(i)')
    BY <1>1, <2>1, <2>3, <2>4 DEF RunsRemembered
  <2>5. ASSUME NEW i \in Jobs PROVE runs'[i] <= 1 \/ Excused(i)'
    BY <1>1, <2>1 DEF AtMostOnce, RunsRemembered, TypeOK
  <2> QED BY <2>2, <2>4, <2>5 DEF RunsRemembered, AtMostOnce, Remembered, Excused
<1> QED BY <1>4, <1>5, <1>6, <1>7, <1>8

\* A grant is signed.
LEMMA StepSignGrant ==
    ASSUME BrokerInv, NEW j \in Jobs, SignGrant(j) PROVE BrokerInv'
<1> USE DEF BrokerInv
<1> DEFINE g == [id |-> Cardinality(grants) + 1, job |-> j, expires |-> now + GrantValidity]
<1>1. /\ born[j] # NULL /\ now < born[j] + JobTTL
      /\ grants' = grants \union {g}
      /\ UNCHANGED <<now, born, ledger, lines, journal, torn, tail, lost, up, consumed, thread, lock,
                     crashes, runs, outcome>>
  BY DEF SignGrant, disk
<1>2. IsFiniteSet(grants')
  BY <1>1, FS_AddElement
<1>3. g \in GrantSet /\ g.job = j /\ g.expires = now + GrantValidity
  BY FS_CardinalityType, BrokerTimesAssumption DEF GrantSet, TypeOK
<1> HIDE DEF g
<1>4. TypeOK'
  BY <1>1, <1>3 DEF TypeOK
<1>5. RequestsInWindow'
  BY <1>1 DEF RequestsInWindow
<1>6. GrantsInWindow'
  BY <1>1, <1>3, BrokerTimesAssumption DEF GrantsInWindow, TypeOK, NULL
<1>7. VerifiedInTime' /\ LockHeld' /\ RanHasOutcome' /\ LinesNumbered' /\ RecordsOutlast'
      /\ AtMostOnce' /\ RunsRemembered'
  BY <1>1 DEF VerifiedInTime, LockHeld, RanHasOutcome, LinesNumbered, RecordsOutlast, AtMostOnce,
              RunsRemembered, Remembered, Excused, RetentionCovers
<1> QED BY <1>2, <1>4, <1>5, <1>6, <1>7

\* Time passes.
LEMMA StepTick ==
    ASSUME BrokerInv, Tick PROVE BrokerInv'
<1> USE DEF BrokerInv
<1>1. /\ now' = now + 1
      /\ \A w \in Workers : thread[w].pc # "idle" => now < thread[w].at + RequestBound
      /\ UNCHANGED <<born, grants, ledger, lines, journal, torn, tail, lost, up, consumed, thread, lock,
                     crashes, runs, outcome>>
  BY DEF Tick, server, disk
<1>2. TypeOK'
  BY <1>1 DEF TypeOK
<1>3. \A w \in Workers : thread[w].pc # "idle" => thread[w].at \in Nat
  BY ServedRequest DEF Requests
<1>4. RequestsInWindow'
  BY <1>1, <1>3, BrokerTimesAssumption DEF RequestsInWindow, TypeOK
<1>5. GrantsInWindow'
  BY <1>1 DEF GrantsInWindow, TypeOK, NULL
<1>6. VerifiedInTime' /\ LockHeld' /\ RanHasOutcome' /\ LinesNumbered' /\ RecordsOutlast'
      /\ IsFiniteSet(grants)'
  BY <1>1 DEF VerifiedInTime, LockHeld, RanHasOutcome, LinesNumbered, RecordsOutlast
<1>7. RunsRemembered' /\ AtMostOnce'
  <2>1. ASSUME NEW i \in Jobs, born[i] # NULL
        PROVE  (Remembered(i) => Remembered(i)') /\ (Excused(i) => Excused(i)')
    <3>1. born[i] \in Nat /\ now \in Nat
      BY <2>1 DEF TypeOK
    <3> QED BY <1>1, <3>1, BrokerTimesAssumption DEF Remembered, Excused, RetentionCovers
  <2>2. \A w \in Workers : thread[w].pc = "marked" =>
            thread[w].grant.job \in Jobs /\ born[thread[w].grant.job] # NULL
    BY ServedRequest DEF NULL
  <2>3. \A i \in Jobs : runs'[i] >= 1 => born'[i] # NULL /\ Remembered(i)'
    BY <1>1, <2>1 DEF RunsRemembered
  <2>4. ASSUME NEW w \in Workers, thread'[w].pc = "marked", NEW i, i = thread'[w].grant.job
        PROVE  Remembered(i)' /\ (runs'[i] = 0 \/ Excused(i)')
    BY <1>1, <2>1, <2>2, <2>4 DEF RunsRemembered
  <2>5. ASSUME NEW i \in Jobs PROVE runs'[i] <= 1 \/ Excused(i)'
    BY <1>1, <2>1 DEF AtMostOnce, RunsRemembered, TypeOK
  <2> QED BY <2>3, <2>4, <2>5 DEF RunsRemembered, AtMostOnce, Remembered, Excused
<1> QED BY <1>2, <1>4, <1>5, <1>6, <1>7

\* Every step preserves the invariant.
LEMMA NextBrokerInv ==
    ASSUME BrokerInv, [Next]_brokerVars
    PROVE  BrokerInv'
<1>1. ASSUME NEW j \in Jobs, CreateJob(j) \/ SignGrant(j) PROVE BrokerInv'
  BY <1>1, StepCreateJob, StepSignGrant
<1>2. ASSUME NEW w \in Workers, NEW g \in grants, NEW matching \in BOOLEAN, Accept(w, g, matching)
      PROVE  BrokerInv'
  BY <1>2, StepAccept
<1>3. ASSUME NEW w \in Workers, Serve(w) PROVE BrokerInv'
  BY <1>3, StepVerify, StepRecordConsumed, StepRecover, StepRecoveryFails, StepLookup, StepTakeLock, StepMarkExecuting,
     StepStartRun, StepFinishRun, StepRecordCompleted, StepRespond DEF Serve
<1>4. ASSUME NEW within \in Within, NEW kept \in SUBSET ledger, Crash(within, kept)
      PROVE  BrokerInv'
  BY <1>4, StepCrash
<1>5. ASSUME Restart \/ Tick PROVE BrokerInv'
  BY <1>5, StepRestart, StepTick
<1>6. ASSUME UNCHANGED brokerVars PROVE BrokerInv'
  <2> USE <1>6 DEF brokerVars, BrokerInv
  <2>1. TypeOK' /\ IsFiniteSet(grants)' /\ LinesNumbered' /\ AtMostOnce'
    BY DEF TypeOK, LinesNumbered, AtMostOnce, Excused, RetentionCovers
  <2>2. RequestsInWindow' /\ GrantsInWindow' /\ VerifiedInTime' /\ LockHeld'
    BY DEF RequestsInWindow, GrantsInWindow, VerifiedInTime, LockHeld
  <2>3. RanHasOutcome' /\ RecordsOutlast' /\ RunsRemembered'
    BY DEF RanHasOutcome, RecordsOutlast, RunsRemembered, Remembered, Excused, RetentionCovers
  <2> QED BY <2>1, <2>2, <2>3
<1> QED BY <1>1, <1>2, <1>3, <1>4, <1>5, <1>6 DEF Next

-----------------------------------------------------------------------------
\* The inductive invariant holds in every behaviour, whatever the retention and
\* the number of markers that compaction keeps: where a job's record can be lost
\* or expire too early, the invariant says so of that job.
THEOREM BrokerInvariant ==
    Spec => []BrokerInv
<1>1. Init => BrokerInv
  BY InitBrokerInv
<1>2. BrokerInv /\ [Next]_brokerVars => BrokerInv'
  BY NextBrokerInv
<1> QED BY <1>1, <1>2, PTL DEF Spec

\* However often a job is delivered and resubmitted, however requests overlap
\* and wherever the broker crashes, runner.run is entered at most once for it,
\* unless the ledger lost its record or kept it for too short a time.
THEOREM BrokerAtMostOnce ==
    Spec => []AtMostOnce
<1>1. Spec => []BrokerInv
  BY BrokerInvariant
<1>2. BrokerInv => AtMostOnce
  BY DEF BrokerInv
<1> QED BY <1>1, <1>2, PTL

\* The variables keep their types; in particular consumed grants, journalled
\* grants and the grants of served requests are ones the server signed.
THEOREM BrokerTypeCorrect ==
    Spec => []TypeOK
<1>1. Spec => []BrokerInv
  BY BrokerInvariant
<1>2. BrokerInv => TypeOK
  BY DEF BrokerInv
<1> QED BY <1>1, <1>2, PTL

\* The execution mutex serializes operations: at no moment are two requests
\* between taking it and recording a completion.
THEOREM BrokerSerialized ==
    Spec => []Serialized
<1>1. Spec => []BrokerInv
  BY BrokerInvariant
<1>2. BrokerInv => Serialized
  <2> SUFFICES ASSUME BrokerInv, NEW v \in Workers, NEW w \in Workers,
                      {thread[v].pc, thread[w].pc} \subseteq {"locked", "marked", "running", "ran"}
               PROVE  v = w
    BY DEF Serialized
  <2> QED BY DEF BrokerInv, LockHeld, Holding
<1> QED BY <1>1, <1>2, PTL

-----------------------------------------------------------------------------
\* Answers and records tell the truth: what is said of a job is what a finished
\* run of it did, and what a run did is never undone.

RequestTrue(q) ==
    LET j == q.grant.job IN
    /\ q.pc = "running" => runs[j] >= 1
    /\ q.pc \in {"ran", "reply"} /\ q.reply \in {"success", "failure"} =>
          runs[j] >= 1 /\ q.reply \in outcome[j]

RecordTrue(r) == r.state = "completed" => runs[r.job] >= 1 /\ r.result \in outcome[r.job]

Truth ==
    /\ \A w \in Workers : RequestTrue(thread[w])
    /\ \A r \in ledger : RecordTrue(r)

\* Nothing was said of a job before the first request.
LEMMA InitTruth == Init => Truth
  BY DEF Init, Truth, RequestTrue, RecordTrue, Idle

\* Answer sets the reply it is given.
LEMMA AnswerGives ==
    ASSUME BrokerInv, NEW w \in Workers, thread[w].pc # "idle",
           NEW reply \in Replies, Answer(w, reply)
    PROVE  \E r \in Requests : /\ thread' = [thread EXCEPT ![w] = r]
                               /\ r.grant = thread[w].grant
                               /\ r.pc = "reply" /\ r.reply = reply
<1> DEFINE r == [thread[w] EXCEPT !.pc = "reply", !.reply = reply]
<1>1. r \in Requests
  BY MovedRequest
<1>2. r.pc = "reply" /\ r.reply = reply /\ r.grant = thread[w].grant
  BY ServedRequest DEF Requests
<1>3. thread' = [thread EXCEPT ![w] = r]
  BY DEF Answer
<1> HIDE DEF r
<1> QED BY <1>1, <1>2, <1>3

\* A worker's request moves on; runs and outcomes stay as they are.
LEMMA TruthMoves ==
    ASSUME BrokerInv, Truth, NEW w \in Workers, NEW r, thread' = [thread EXCEPT ![w] = r],
           RequestTrue(r), \A m \in ledger' : m \in ledger \/ RecordTrue(m),
           UNCHANGED <<runs, outcome>>
    PROVE  Truth'
<1>1. ASSUME NEW v \in Workers PROVE RequestTrue(thread'[v])
  <2>1. CASE v = w
    BY <2>1 DEF BrokerInv, TypeOK
  <2>2. CASE v # w
    BY <2>2 DEF BrokerInv, TypeOK, Truth
  <2> QED BY <2>1, <2>2
<1>2. ASSUME NEW m \in ledger' PROVE RecordTrue(m)
  BY <1>2 DEF Truth
<1>3. \A q : RequestTrue(q)' <=> RequestTrue(q')
  BY DEF RequestTrue
<1> QED BY <1>1, <1>2 DEF Truth, RequestTrue, RecordTrue

\* So does one that is answered, or goes to a step at which nothing is said.
LEMMA TruthAnswer ==
    ASSUME BrokerInv, Truth, NEW w \in Workers, thread[w].pc # "idle",
           \A m \in ledger' : m \in ledger \/ RecordTrue(m),
           UNCHANGED <<runs, outcome>>,
           \/ \E pc \in Busy \ {"running", "ran", "reply"} : Goto(w, pc)
           \/ \E reply \in Replies :
                 /\ Answer(w, reply)
                 /\ reply \in {"success", "failure"} =>
                       runs[thread[w].grant.job] >= 1 /\ reply \in outcome[thread[w].grant.job]
    PROVE  Truth'
<1>1. ASSUME NEW pc \in Busy \ {"running", "ran", "reply"}, Goto(w, pc) PROVE Truth'
  <2>1. PICK r \in Requests : thread' = [thread EXCEPT ![w] = r] /\ r.pc = pc
    BY <1>1, GotoMoves
  <2>2. RequestTrue(r)
    BY <1>1, <2>1 DEF RequestTrue
  <2> QED BY <2>1, <2>2, TruthMoves
<1>2. ASSUME NEW reply \in Replies, Answer(w, reply),
             reply \in {"success", "failure"} =>
                runs[thread[w].grant.job] >= 1 /\ reply \in outcome[thread[w].grant.job]
      PROVE  Truth'
  <2>1. PICK r \in Requests : /\ thread' = [thread EXCEPT ![w] = r]
                              /\ r.grant = thread[w].grant
                              /\ r.pc = "reply" /\ r.reply = reply
    BY <1>2, AnswerGives
  <2>2. RequestTrue(r)
    BY <1>2, <2>1 DEF RequestTrue
  <2> QED BY <2>1, <2>2, TruthMoves
<1> QED BY <1>1, <1>2

\* A replayed result is the one of the finished run.
LEMMA LookupTrue ==
    ASSUME BrokerInv, Truth, NEW j \in Jobs, NEW t \in Nat,
           Lookup(j, t) \in {"success", "failure"}
    PROVE  runs[j] >= 1 /\ Lookup(j, t) \in outcome[j]
<1>1. Records(j, t) # {}
  BY DEF Lookup
<1>2. LastLine(Records(j, t)) \in Records(j, t)
  BY <1>1, LastLineExists DEF BrokerInv, TypeOK, LinesNumbered, Records, Committed
<1>3. PICK r \in ledger : r = LastLine(Records(j, t)) /\ r.job = j
  BY <1>2 DEF Records, Committed
<1>4. r.state = "completed" /\ r.result = Lookup(j, t)
  <2>1. r \in LedgerRecords
    BY <1>3 DEF BrokerInv, TypeOK
  <2>2. r.state # "executing"
    BY <1>1, <1>3 DEF Lookup
  <2> QED BY <1>1, <1>3, <2>1, <2>2 DEF Lookup, LedgerRecords
<1> QED BY <1>3, <1>4 DEF Truth, RecordTrue

\* Runs and outcomes only grow, so that what was true stays true.
LEMMA TruthGrows ==
    ASSUME BrokerInv, Truth, NEW w \in Workers, NEW r, thread' = [thread EXCEPT ![w] = r],
           RequestTrue(r)', ledger' \subseteq ledger,
           \A i \in Jobs : (runs[i] >= 1 => runs'[i] >= 1) /\ outcome[i] \subseteq outcome'[i]
    PROVE  Truth'
<1>1. ASSUME NEW v \in Workers PROVE RequestTrue(thread[v])'
  <2>1. CASE v = w
    BY <2>1 DEF BrokerInv, TypeOK, RequestTrue
  <2>2. CASE v # w /\ thread[v].pc = "idle"
    BY <2>2 DEF BrokerInv, TypeOK, RequestTrue
  <2>3. CASE v # w /\ thread[v].pc # "idle"
    <3>1. thread'[v] = thread[v] /\ thread[v].grant.job \in Jobs /\ RequestTrue(thread[v])
      BY <2>3, ServedRequest DEF BrokerInv, TypeOK, Truth
    <3> QED BY <3>1 DEF RequestTrue
  <2> QED BY <2>1, <2>2, <2>3
<1>2. ASSUME NEW m \in ledger' PROVE RecordTrue(m)'
  <2>1. m.job \in Jobs /\ RecordTrue(m)
    BY <1>2 DEF BrokerInv, TypeOK, LedgerRecords, Truth
  <2> QED BY <2>1 DEF RecordTrue
<1> QED BY <1>1, <1>2 DEF Truth

\* A run that returns adds what it did.
LEMMA TruthFinishRun ==
    ASSUME BrokerInv, Truth, NEW w \in Workers, NEW result \in RunResults, FinishRun(w, result)
    PROVE  Truth'
<1> DEFINE j == thread[w].grant.job
<1>1. thread[w].pc = "running" /\ thread[w] \in Requests /\ j \in Jobs
  BY ServedRequest DEF FinishRun
<1>2. /\ outcome' = [outcome EXCEPT ![j] = @ \union {result}]
      /\ UNCHANGED <<ledger, runs>>
  BY DEF FinishRun, disk
<1>3. runs[j] >= 1
  BY <1>1 DEF Truth, RequestTrue
<1>4. PICK r \in Requests : /\ thread' = [thread EXCEPT ![w] = r]
                            /\ r.grant = thread[w].grant
                            /\ \/ r.pc = "reply" /\ r.reply = "unknown"
                               \/ r.pc = "ran" /\ r.reply = result
  <2>1. CASE result = "error"
    BY <1>1, <2>1, AnswerGives DEF FinishRun, Replies
  <2>2. CASE result # "error"
    BY <1>1, <2>2, RanGives DEF FinishRun, RunResults
  <2> QED BY <2>1, <2>2
<1>5. outcome \in [Jobs -> SUBSET RunResults] /\ runs \in [Jobs -> Nat]
  BY DEF BrokerInv, TypeOK
<1>6. /\ \A i \in Jobs : outcome[i] \subseteq outcome'[i]
      /\ result \in outcome'[j] /\ runs'[j] >= 1
  BY <1>1, <1>2, <1>3, <1>5
<1>7. RequestTrue(r)'
  BY <1>4, <1>6 DEF RequestTrue
<1> QED BY <1>2, <1>4, <1>6, <1>7, TruthGrows

\* runner.run is entered.
LEMMA TruthStartRun ==
    ASSUME BrokerInv, Truth, NEW w \in Workers, StartRun(w) PROVE Truth'
<1> DEFINE j == thread[w].grant.job
<1>1. thread[w].pc = "marked" /\ thread[w] \in Requests /\ j \in Jobs
  BY ServedRequest DEF StartRun
<1>2. /\ Goto(w, "running") /\ runs' = [runs EXCEPT ![j] = @ + 1]
      /\ UNCHANGED <<ledger, outcome>>
  BY DEF StartRun, disk
<1>3. PICK r \in Requests : /\ thread' = [thread EXCEPT ![w] = r]
                            /\ r.grant = thread[w].grant /\ r.pc = "running"
  BY <1>1, <1>2, GotoMoves DEF Busy
<1>4. runs \in [Jobs -> Nat]
  BY DEF BrokerInv, TypeOK
<1>5. runs'[j] >= 1 /\ \A i \in Jobs : runs[i] >= 1 => runs'[i] >= 1
  BY <1>1, <1>2, <1>4
<1>6. RequestTrue(r)'
  BY <1>3, <1>5 DEF RequestTrue
<1> QED BY <1>2, <1>3, <1>5, <1>6, TruthGrows

\* Before the runner is entered a request is refused, passed on or answered from
\* the ledger.
LEMMA TruthBefore ==
    ASSUME BrokerInv, Truth, NEW w \in Workers,
           \/ VerifyAndConsume(w)
           \/ \E written \in BOOLEAN : RecordConsumedGrant(w, written)
           \/ \E kept \in SUBSET ledger : RecoveryFails(w, kept)
           \/ LookupFirst(w)
           \/ TakeLock(w)
    PROVE  Truth'
<1> DEFINE j == thread[w].grant.job
<1>1. ASSUME VerifyAndConsume(w) PROVE Truth'
  <2>1. thread[w].pc = "verify" /\ UNCHANGED <<ledger, runs, outcome>>
    BY <1>1 DEF VerifyAndConsume, disk
  <2>2. Answer(w, "refused") \/ Goto(w, "consume")
    BY <1>1 DEF VerifyAndConsume
  <2> QED BY <2>1, <2>2, TruthAnswer DEF Busy, Replies
<1>2. ASSUME NEW written \in BOOLEAN, RecordConsumedGrant(w, written) PROVE Truth'
  <2>1. thread[w].pc = "consume" /\ UNCHANGED <<ledger, runs, outcome>>
    BY <1>2 DEF RecordConsumedGrant
  <2>2. Answer(w, "refused") \/ Goto(w, "lookup")
    BY <1>2 DEF RecordConsumedGrant
  <2> QED BY <2>1, <2>2, TruthAnswer DEF Busy, Replies
<1>3. ASSUME LookupFirst(w) PROVE Truth'
  <2> DEFINE found == Lookup(j, thread[w].at)
  <2>1. thread[w].pc = "lookup" /\ UNCHANGED <<ledger, runs, outcome>>
    BY <1>3 DEF LookupFirst, disk
  <2>2. j \in Jobs /\ thread[w].at \in Nat
    BY <2>1, ServedRequest DEF Requests
  <2>3. found \in Replies \union {"executing"}
    BY <2>2, LookupType
  <2>4. found \in {"success", "failure"} => runs[j] >= 1 /\ found \in outcome[j]
    BY <2>2, LookupTrue
  <2>5. Goto(w, "wait") \/ Answer(w, "unknown") \/ (found \in Replies /\ Answer(w, found))
    BY <1>3, <2>3 DEF LookupFirst
  <2> HIDE DEF found
  <2> QED BY <2>1, <2>4, <2>5, TruthAnswer DEF Busy, Replies
<1>4. ASSUME TakeLock(w) PROVE Truth'
  <2>1. thread[w].pc = "wait" /\ Goto(w, "locked") /\ UNCHANGED <<ledger, runs, outcome>>
    BY <1>4 DEF TakeLock, disk
  <2> QED BY <2>1, TruthAnswer DEF Busy
<1>5. ASSUME NEW kept \in SUBSET ledger, RecoveryFails(w, kept) PROVE Truth'
  <2>1. thread[w].pc # "idle" /\ ledger' \subseteq ledger /\ UNCHANGED <<runs, outcome>>
    BY <1>5 DEF RecoveryFails, RecoveryStops, Reading
  <2>2. Answer(w, "refused") \/ Answer(w, "unknown")
    BY <1>5 DEF RecoveryFails
  <2> QED BY <2>1, <2>2, TruthAnswer DEF Replies
<1> QED BY <1>1, <1>2, <1>3, <1>4, <1>5

\* A marker claims nothing; a second lookup that finds a result replays it.
LEMMA TruthMarkExecuting ==
    ASSUME BrokerInv, Truth, NEW w \in Workers, NEW how \in Writes, MarkExecuting(w, how)
    PROVE  Truth'
<1> DEFINE j == thread[w].grant.job
           t == thread[w].at
           found == Lookup(j, t)
<1>1. thread[w].pc = "locked" /\ UNCHANGED <<runs, outcome>>
  BY DEF MarkExecuting
<1>2. thread[w] \in Requests /\ j \in Jobs /\ t \in Nat
  BY <1>1, ServedRequest DEF Requests
<1>3. found \in Replies \union {"executing"}
  BY <1>2, LookupType
<1>4. CASE found # "none"
  <2>1. UNCHANGED ledger
    BY <1>4 DEF MarkExecuting, disk
  <2>2. found \in {"success", "failure"} => runs[j] >= 1 /\ found \in outcome[j]
    BY <1>2, LookupTrue
  <2>3. Answer(w, "unknown") \/ (found \in Replies /\ Answer(w, found))
    BY <1>3, <1>4 DEF MarkExecuting
  <2> HIDE DEF found
  <2> QED BY <1>1, <2>1, <2>2, <2>3, TruthAnswer DEF Replies
<1>5. CASE found = "none"
  <2> DEFINE m == Marker(j, t)
  <2>1. AppendRecord(m, how) /\ (Goto(w, "marked") \/ Answer(w, "refused"))
    BY <1>5 DEF MarkExecuting
  <2>2. m \in LedgerRecords /\ m.state = "executing"
    BY <1>2, BrokerTimesAssumption DEF BrokerInv, TypeOK, Marker, LedgerRecords
  <2> HIDE DEF m
  <2>3. ledger' \subseteq ledger \union {m}
    BY <2>1, <2>2, AppendKeeps
  <2>4. RecordTrue(m)
    BY <2>2 DEF RecordTrue
  <2> QED BY <1>1, <2>1, <2>3, <2>4, TruthAnswer DEF Busy, Replies
<1> QED BY <1>4, <1>5

\* What is recorded and answered after a run is what the run did.
LEMMA TruthRecordCompleted ==
    ASSUME BrokerInv, Truth, NEW w \in Workers, NEW fits \in BOOLEAN, NEW how \in Writes,
           RecordCompleted(w, fits, how)
    PROVE  Truth'
<1> DEFINE j == thread[w].grant.job
           t == thread[w].at
           result == thread[w].reply
<1>1. thread[w].pc = "ran" /\ UNCHANGED <<runs, outcome>>
  BY DEF RecordCompleted
<1>2. thread[w] \in Requests /\ j \in Jobs /\ t \in Nat
  BY <1>1, ServedRequest DEF Requests
<1>3. runs[j] >= 1 /\ result \in {"success", "failure"} /\ result \in outcome[j]
  BY <1>1 DEF BrokerInv, RanHasOutcome, Truth, RequestTrue
<1>4. CASE ~(fits /\ Lookup(j, t) # "none")
  <2>1. Answer(w, "unknown") /\ UNCHANGED ledger
    BY <1>4 DEF RecordCompleted, disk
  <2> QED BY <1>1, <2>1, TruthAnswer DEF Replies
<1>5. CASE fits /\ Lookup(j, t) # "none"
  <2> DEFINE m == Completion(j, result, t)
  <2>1. AppendRecord(m, how) /\ (Answer(w, result) \/ Answer(w, "unknown"))
    BY <1>5 DEF RecordCompleted
  <2>2. m \in LedgerRecords /\ m.job = j /\ m.result = result
    BY <1>2, <1>3, BrokerTimesAssumption DEF BrokerInv, TypeOK, Completion, LedgerRecords
  <2> HIDE DEF m
  <2>3. ledger' \subseteq ledger \union {m}
    BY <2>1, <2>2, AppendKeeps
  <2>4. RecordTrue(m)
    BY <1>3, <2>2 DEF RecordTrue
  <2> HIDE DEF result
  <2> QED BY <1>1, <1>3, <2>1, <2>3, <2>4, TruthAnswer DEF Replies
<1> QED BY <1>4, <1>5

\* Steps that end a request or begin one, and steps of the server, the clock and
\* the process.
LEMMA TruthOther ==
    ASSUME BrokerInv, Truth, ledger' \subseteq ledger, UNCHANGED <<runs, outcome>>,
           \A w \in Workers : \/ thread'[w] = thread[w]
                              \/ thread'[w].pc \in {"idle", "verify"}
    PROVE  Truth'
<1>1. ASSUME NEW w \in Workers PROVE RequestTrue(thread[w])'
  <2>1. CASE thread'[w] = thread[w]
    <3>1. RequestTrue(thread[w])
      BY DEF Truth
    <3> QED BY <2>1, <3>1 DEF RequestTrue
  <2>2. CASE thread'[w].pc \in {"idle", "verify"}
    BY <2>2 DEF RequestTrue
  <2> QED BY <2>1, <2>2
<1>2. ASSUME NEW m \in ledger' PROVE RecordTrue(m)'
  BY <1>2 DEF Truth, RecordTrue
<1> QED BY <1>1, <1>2 DEF Truth

\* Every step keeps answers and records true.
LEMMA NextTruth ==
    ASSUME BrokerInv, Truth, [Next]_brokerVars
    PROVE  Truth'
<1> DEFINE Quiet ==
        /\ ledger' \subseteq ledger /\ UNCHANGED <<runs, outcome>>
        /\ \A v \in Workers : thread'[v] = thread[v] \/ thread'[v].pc \in {"idle", "verify"}
<1>0. thread \in [Workers -> Requests \union {Idle}]
  BY DEF BrokerInv, TypeOK
<1>1. ASSUME NEW j \in Jobs, CreateJob(j) \/ SignGrant(j) PROVE Truth'
  <2>1. Quiet
    BY <1>1 DEF CreateJob, SignGrant, disk
  <2> QED BY <2>1, TruthOther
<1>2. ASSUME NEW w \in Workers, NEW g \in grants, NEW matching \in BOOLEAN, Accept(w, g, matching)
      PROVE  Truth'
  <2>1. Quiet
    BY <1>0, <1>2 DEF Accept, disk
  <2> QED BY <2>1, TruthOther
<1>3. ASSUME NEW w \in Workers, Serve(w) PROVE Truth'
  <2>1. ASSUME Respond(w) PROVE Truth'
    <3>1. Quiet
      BY <1>0, <2>1 DEF Respond, disk, Idle
    <3> QED BY <3>1, TruthOther
  <2>2. ASSUME RecoverTornFinalRecord(w) PROVE Truth'
    <3>1. Quiet
      BY <2>2 DEF RecoverTornFinalRecord
    <3> QED BY <3>1, TruthOther
  <2> QED BY <1>3, <2>1, <2>2, TruthBefore, TruthMarkExecuting, TruthStartRun, TruthFinishRun,
             TruthRecordCompleted DEF Serve
<1>4. ASSUME NEW within \in Within, NEW kept \in SUBSET ledger, Crash(within, kept)
      PROVE  Truth'
  <2>1. ledger' \subseteq ledger
    BY <1>4 DEF Crash, RecoveryStops
  <2>2. Quiet
    BY <1>4, <2>1 DEF Crash, Idle
  <2> QED BY <2>2, TruthOther
<1>5. ASSUME Restart \/ Tick \/ UNCHANGED brokerVars PROVE Truth'
  <2>1. Quiet
    BY <1>5 DEF Restart, Tick, brokerVars, disk
  <2> QED BY <2>1, TruthOther
<1> QED BY <1>1, <1>2, <1>3, <1>4, <1>5 DEF Next

\* The operation of job j was entered and succeeded.
Succeeded(j) == runs[j] >= 1 /\ "success" \in outcome[j]

\* What succeeded has succeeded for good.
LEMMA SuccessStands ==
    ASSUME BrokerInv, Truth, [Next]_brokerVars, NEW j \in Jobs, Succeeded(j)
    PROVE  Succeeded(j)'
<1>0. outcome \in [Jobs -> SUBSET RunResults] /\ runs \in [Jobs -> Nat]
  BY DEF BrokerInv, TypeOK
<1>1. ASSUME UNCHANGED <<runs, outcome>> PROVE Succeeded(j)'
  BY <1>1 DEF Succeeded
<1>2. ASSUME NEW w \in Workers, StartRun(w) PROVE Succeeded(j)'
  <2>1. runs' = [runs EXCEPT ![thread[w].grant.job] = @ + 1] /\ outcome' = outcome
    BY <1>2 DEF StartRun
  <2>2. runs'[j] >= runs[j] /\ runs[j] \in Nat /\ runs'[j] \in Nat
    BY <1>0, <2>1
  <2> QED BY <2>1, <2>2 DEF Succeeded
<1>3. ASSUME NEW w \in Workers, NEW result \in RunResults, FinishRun(w, result) PROVE Succeeded(j)'
  <2>1. /\ outcome' = [outcome EXCEPT ![thread[w].grant.job] = @ \union {result}]
        /\ runs' = runs
    BY <1>3 DEF FinishRun
  <2>2. outcome[j] \subseteq outcome'[j]
    BY <1>0, <2>1
  <2> QED BY <2>1, <2>2 DEF Succeeded
<1>4. ASSUME NEW w \in Workers, Serve(w) PROVE Succeeded(j)'
  BY <1>1, <1>2, <1>3, <1>4
  DEF Serve, VerifyAndConsume, RecordConsumedGrant, RecoverTornFinalRecord, RecoveryFails,
      LookupFirst, TakeLock, MarkExecuting, RecordCompleted, Respond
<1> QED
  BY <1>1, <1>4 DEF Next, brokerVars, CreateJob, SignGrant, Accept, Crash, Restart, Tick

\* A request is served under its grant until the answer is sent.
LEMMA RequestStays ==
    ASSUME BrokerInv, NEW w \in Workers, Serve(w), thread[w].pc # "reply",
           NEW v \in Workers, thread[v].pc # "idle"
    PROVE  thread'[v].pc # "idle" /\ thread'[v].grant = thread[v].grant
<1>0. thread \in [Workers -> Requests \union {Idle}]
  BY DEF BrokerInv, TypeOK
<1>1. thread[w].pc # "idle"
  BY DEF Serve, VerifyAndConsume, RecordConsumedGrant, RecoverTornFinalRecord, RecoveryFails,
         Reading, LookupFirst, TakeLock, MarkExecuting, StartRun, FinishRun, RecordCompleted,
         Respond
<1>2. thread[w] \in Requests
  BY <1>0, <1>1 DEF Idle
<1>3. ASSUME \/ \E pc \in Busy : Goto(w, pc)
             \/ \E reply : Answer(w, reply)
      PROVE  thread'[v].pc # "idle" /\ thread'[v].grant = thread[v].grant
  BY <1>0, <1>2, <1>3 DEF Goto, Answer, Requests, Busy
<1>4. ASSUME NEW result \in RunResults, FinishRun(w, result)
      PROVE  thread'[v].pc # "idle" /\ thread'[v].grant = thread[v].grant
  <2>1. CASE result = "error"
    BY <1>3, <1>4, <2>1 DEF FinishRun
  <2>2. CASE result # "error"
    <3>1. thread' = [thread EXCEPT ![w].pc = "ran", ![w].reply = result]
      BY <1>4, <2>2 DEF FinishRun
    <3> QED BY <1>0, <1>2, <3>1 DEF Requests
  <2> QED BY <2>1, <2>2
<1>5. ASSUME RecoverTornFinalRecord(w)
      PROVE  thread'[v].pc # "idle" /\ thread'[v].grant = thread[v].grant
  BY <1>5 DEF RecoverTornFinalRecord
<1> QED
  BY <1>3, <1>4, <1>5
  DEF Serve, VerifyAndConsume, RecordConsumedGrant, RecoveryFails, LookupFirst, TakeLock,
      MarkExecuting, StartRun, RecordCompleted, Respond, Busy

\* An answer with a result, fresh or replayed, and a completion record carry the
\* result of a finished run of that very job, and a job that was entered has a
\* record that lookup finds for as long as the retention counted from the job's
\* creation lasts, unless the ledger lost it.
THEOREM BrokerResultsTrue ==
    Spec => []ResultsAreTrue
<1>1. Spec => []BrokerInv
  BY BrokerInvariant
<1>2. Init => Truth
  BY InitTruth
<1>3. BrokerInv /\ Truth /\ [Next]_brokerVars => Truth'
  BY NextTruth
<1>4. BrokerInv /\ Truth => ResultsAreTrue
  <2> SUFFICES ASSUME BrokerInv, Truth PROVE ResultsAreTrue
    OBVIOUS
  <2>1. ASSUME NEW w \in Workers, thread[w].pc = "reply", thread[w].reply \in {"success", "failure"}
        PROVE  thread[w].reply \in outcome[thread[w].grant.job]
    BY <2>1 DEF Truth, RequestTrue
  <2>2. ASSUME NEW r \in ledger, r.state = "completed" PROVE r.result \in outcome[r.job]
    BY <2>2 DEF Truth, RecordTrue
  <2>3. ASSUME NEW j \in Jobs, runs[j] >= 1, j \notin lost, now < born[j] + RecordRetention
        PROVE  \E r \in Committed(now) : r.job = j
    <3>1. born[j] \in Nat /\ now \in Nat
      BY <2>3 DEF BrokerInv, TypeOK, RunsRemembered
    <3>2. PICK r \in ledger : r.job = j
      BY <2>3, <3>1, BrokerTimesAssumption DEF BrokerInv, RunsRemembered, Remembered
    <3>3. r.state = "executing" \/ r.expires > now
      BY <2>3, <3>1, <3>2, BrokerTimesAssumption
      DEF BrokerInv, TypeOK, RecordsOutlast, LedgerRecords
    <3> QED BY <3>2, <3>3 DEF Committed
  <2> QED BY <2>1, <2>2, <2>3 DEF ResultsAreTrue
<1> QED BY <1>1, <1>2, <1>3, <1>4, PTL DEF Spec
=============================================================================
