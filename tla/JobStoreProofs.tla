--------------------------- MODULE JobStoreProofs ---------------------------
(***************************************************************************)
(* The job queue's properties, for any number of jobs, clients, deliveries *)
(* and events, whatever clients send and whenever the sweep runs.          *)
(*                                                                         *)
(* The row and the log of one job determine everything the properties say, *)
(* so the invariant is a relation between a state and a log, LogFits, and  *)
(* each way of changing them is a lemma about that relation alone.         *)
(***************************************************************************)
EXTENDS JobStore, FiniteSetTheorems, SequenceTheorems, TLAPS

USE JobTTLAssumption, DeliveryLeaseAssumption, StartLeaseAssumption, GrantValidityAssumption,
    EventLimitsAssumption, BoundsAssumption

\* The log ev of n events without gaps fits a row in state s.
LogOfLength(s, ev, n) ==
    /\ DOMAIN ev = 0..(n - 1)
    /\ \A m \in 0..(n - 1) : ev[m] \in EventRows
    /\ s \in {"absent", "queued"} => n \in {0, 1}
    /\ s \in {"dispatched", "acknowledged"} => n = 1
    /\ \A m \in 0..(n - 1) : ev[m].terminal => IsTerminal(s) /\ m = n - 1
    /\ IsTerminal(s) => n > 0 /\ ev[n - 1].terminal
    /\ s \in Terminal \union {"running"} => n > 0 /\ ev[n - 1].state = s

LogFits(s, ev) == \E n \in Nat : LogOfLength(s, ev, n)

\* The log ev with the row r inserted under sequence n.
Extended(ev, n, r) == [m \in DOMAIN ev \union {n} |-> IF m = n THEN r ELSE ev[m]]

StoreInv == TypeOK /\ \A j \in Jobs : LogFits(job[j].state, events[j])

----------------------------------------------------------------------------
\* Logs.

\* MAX(sequence) of a log without gaps.
LEMMA LastOf ==
  ASSUME NEW n \in Nat
  PROVE  (IF 0..(n - 1) = {} THEN NULL
          ELSE CHOOSE x \in 0..(n - 1) : \A m \in 0..(n - 1) : m <= x) = n - 1
<1>1. CASE n = 0
  BY <1>1 DEF NULL
<1>2. CASE n # 0
  <2>1. n - 1 \in 0..(n - 1) /\ \A m \in 0..(n - 1) : m <= n - 1
    BY <1>2
  <2>2. ASSUME NEW x \in 0..(n - 1), \A m \in 0..(n - 1) : m <= x PROVE x = n - 1
    BY <2>1, <2>2
  <2> QED
    BY <2>1, <2>2
<1> QED
  BY <1>1, <1>2

\* COUNT(sequence) of a log without gaps.
LEMMA CountOf ==
  ASSUME NEW n \in Nat
  PROVE  Cardinality(0..(n - 1)) = n
  BY FS_Interval

\* The row INSERT writes: its terminal column is the state's.
LEMMA EventRowFields ==
  ASSUME NEW s \in JobStates, NEW b \in Nat
  PROVE  /\ EventRow(s, b) \in EventRows
         /\ EventRow(s, b).state = s
         /\ EventRow(s, b).terminal = IsTerminal(s)
<1>1. IsTerminal(s) \in BOOLEAN
  BY DEF IsTerminal
<1>2. ASSUME NEW t \in BOOLEAN
      PROVE  [state |-> s, bytes |-> b, terminal |-> t] \in EventRows
  BY DEF EventRows
<1> QED
  BY <1>1, <1>2 DEF EventRow

\* A row may go on, or back to the queue, without a new event.
LEMMA LogKept ==
  ASSUME NEW s, NEW t, NEW ev, LogFits(s, ev),
         \/ s = "absent" /\ t = "queued"
         \/ s = "queued" /\ t = "dispatched" /\ 0 \in DOMAIN ev
         \/ s = "dispatched" /\ t \in {"acknowledged", "queued"}
         \/ s = "acknowledged" /\ t = "queued"
  PROVE  LogFits(t, ev)
<1>1. PICK n \in Nat : LogOfLength(s, ev, n)
  BY DEF LogFits
<1>2. LogOfLength(t, ev, n)
  BY <1>1 DEF LogOfLength, IsTerminal, Terminal
<1> QED
  BY <1>2 DEF LogFits

\* The first delivery inserts the dispatch marker.
LEMMA LogMarked ==
  ASSUME NEW ev, LogFits("queued", ev), 0 \notin DOMAIN ev, NEW w,
         w = Extended(ev, 0, EventRow("dispatched", 0))
  PROVE  LogOfLength("queued", ev, 0) /\ LogOfLength("dispatched", w, 1)
<1>1. PICK n \in Nat : LogOfLength("queued", ev, n)
  BY DEF LogFits
<1>2. n = 0
  BY <1>1 DEF LogOfLength
<1>3. DOMAIN w = 0..0 /\ w[0] = EventRow("dispatched", 0)
  BY <1>1, <1>2 DEF LogOfLength, Extended
<1>4. EventRow("dispatched", 0) \in EventRows /\ ~EventRow("dispatched", 0).terminal
  <2>1. "dispatched" \in JobStates /\ ~IsTerminal("dispatched")
    BY DEF JobStates, Live, Terminal, IsTerminal
  <2> QED
    BY <2>1, EventRowFields
<1>5. LogOfLength("dispatched", w, 1)
  BY <1>3, <1>4 DEF LogOfLength, IsTerminal, Terminal
<1> QED
  BY <1>1, <1>2, <1>5

\* An event goes to the end of the log of a job that is not over.
LEMMA LogAppended ==
  ASSUME NEW s \in Live, NEW t \in Terminal \union {"running"}, NEW b \in Nat, NEW ev,
         NEW n \in Nat, LogOfLength(s, ev, n), NEW w, w = Extended(ev, n, EventRow(t, b))
  PROVE  LogOfLength(t, w, n + 1)
<1>1. DOMAIN w = 0..n /\ w[n] = EventRow(t, b) /\ \A m \in 0..(n - 1) : w[m] = ev[m]
  BY DEF LogOfLength, Extended
<1>2. /\ EventRow(t, b) \in EventRows
      /\ EventRow(t, b).state = t
      /\ EventRow(t, b).terminal = IsTerminal(t)
  BY EventRowFields DEF JobStates, Live
<1>3. ASSUME NEW m \in 0..(n - 1) PROVE ev[m] \in EventRows /\ ~ev[m].terminal
  BY DEF LogOfLength, Live, Terminal, IsTerminal
<1>4. ASSUME NEW m \in 0..n PROVE m = n \/ m \in 0..(n - 1)
  OBVIOUS
<1>5. \A m \in 0..n : w[m] \in EventRows
  BY <1>1, <1>2, <1>3, <1>4
<1>6. \A m \in 0..n : w[m].terminal => IsTerminal(t) /\ m = n
  BY <1>1, <1>2, <1>3, <1>4
<1>7. t \notin {"absent", "queued", "dispatched", "acknowledged"}
  BY DEF Terminal
<1>8. (n + 1) - 1 = n
  OBVIOUS
<1>9. DOMAIN w = 0..n /\ (IsTerminal(t) => w[n].terminal) /\ w[n].state = t
  BY <1>1, <1>2
<1>10. n + 1 > 0
  OBVIOUS
<1> QED
  BY ONLY <1>5, <1>6, <1>7, <1>8, <1>9, <1>10 DEF LogOfLength

----------------------------------------------------------------------------
\* Rows.

\* TypeOK without the logs, whose type LogFits gives.
RowsTyped ==
    /\ now \in Nat
    /\ job \in [Jobs -> Rows]
    /\ DOMAIN events = Jobs
    /\ deliveries \in Nat
    /\ active \subseteq Clients
    /\ capable \subseteq Clients
    /\ starts \in [Jobs -> Nat]

LogsFit == \A j \in Jobs : LogFits(job[j].state, events[j])

\* The type of a log that fits.
LEMMA LogTyped ==
  ASSUME NEW s, NEW ev, LogFits(s, ev)
  PROVE  DOMAIN ev \subseteq Nat /\ \A n \in DOMAIN ev : ev[n] \in EventRows
  BY DEF LogFits, LogOfLength

\* The invariant is the type of the rows and the fit of the logs.
LEMMA InvParts == StoreInv <=> RowsTyped /\ LogsFit
  BY LogTyped DEF StoreInv, TypeOK, RowsTyped, LogsFit

\* The same of the next state.
LEMMA InvPartsNext == StoreInv' <=> RowsTyped' /\ LogsFit'
  BY LogTyped DEF StoreInv, TypeOK, RowsTyped, LogsFit

\* created_at and expires_at of a row stay as they are.
SameDates(r, q) == r.created = q.created /\ r.expires = q.expires

\* UPDATE jobs SET of one row, after which its state is s.
Updated(f, g, j, s) ==
    /\ g \in [Jobs -> Rows]
    /\ g[j].state = s
    /\ SameDates(f[j], g[j])
    /\ \A k \in Jobs : k # j => g[k] = f[k]

\* Setting the state column.
LEMMA SetState ==
  ASSUME NEW f \in [Jobs -> Rows], NEW j \in Jobs, NEW s \in JobStates, NEW g,
         g = [f EXCEPT ![j].state = s]
  PROVE  Updated(f, g, j, s)
  BY DEF Rows, Updated, SameDates

\* Setting one of the three columns of a delivery.
LEMMA SetDelivery ==
  ASSUME NEW e, NEW f, NEW j \in Jobs, NEW s, Updated(e, f, j, s),
         NEW t \in Nat \union {NULL}, NEW g,
         \/ g = [f EXCEPT ![j].delivery = t]
         \/ g = [f EXCEPT ![j].lease = t]
         \/ g = [f EXCEPT ![j].startBy = t]
  PROVE  Updated(e, g, j, s)
<1>1. f \in [Jobs -> Rows] /\ f[j].state = s /\ SameDates(e[j], f[j])
  BY DEF Updated
<1>2. CASE g = [f EXCEPT ![j].delivery = t]
  <2>1. /\ g \in [Jobs -> Rows] /\ g[j].state = s
        /\ g[j].created = f[j].created /\ g[j].expires = f[j].expires
        /\ \A k \in Jobs : k # j => g[k] = f[k]
    BY <1>1, <1>2 DEF Rows
  <2> QED
    BY <1>1, <2>1 DEF Updated, SameDates
<1>3. CASE g = [f EXCEPT ![j].lease = t]
  <2>1. /\ g \in [Jobs -> Rows] /\ g[j].state = s
        /\ g[j].created = f[j].created /\ g[j].expires = f[j].expires
        /\ \A k \in Jobs : k # j => g[k] = f[k]
    BY <1>1, <1>3 DEF Rows
  <2> QED
    BY <1>1, <2>1 DEF Updated, SameDates
<1>4. CASE g = [f EXCEPT ![j].startBy = t]
  <2>1. /\ g \in [Jobs -> Rows] /\ g[j].state = s
        /\ g[j].created = f[j].created /\ g[j].expires = f[j].expires
        /\ \A k \in Jobs : k # j => g[k] = f[k]
    BY <1>1, <1>4 DEF Rows
  <2> QED
    BY <1>1, <2>1 DEF Updated, SameDates
<1> QED
  BY <1>2, <1>3, <1>4

\* start_job inserts one row or none, and no event.
LEMMA StartJobRow ==
  ASSUME RowsTyped, NEW j \in Jobs, NEW c \in Clients, NEW p \in Payloads, StartJob(j, c, p)
  PROVE  /\ RowsTyped'
         /\ UNCHANGED events
         /\ \A k \in Jobs : k # j => job'[k] = job[k]
         /\ \/ /\ job[j].state = "absent" /\ job'[j].state = "queued"
               /\ job'[j].created = now /\ job'[j].expires = now + JobTTL
            \/ UNCHANGED job
<1>1. CASE UNCHANGED job
  BY <1>1 DEF StartJob, RowsTyped
<1>2. CASE /\ job[j].state = "absent"
           /\ job' = [job EXCEPT ![j] =
                 [state |-> "queued", target |-> c, payload |-> p,
                  created |-> now, expires |-> now + JobTTL,
                  delivery |-> NULL, lease |-> NULL, startBy |-> NULL]]
  BY <1>2 DEF StartJob, RowsTyped, Rows, JobStates, Live
<1> QED
  BY <1>1, <1>2 DEF StartJob

\* claim_next_job takes one queued job, with its marker if there is none.
LEMMA ClaimRow ==
  ASSUME RowsTyped, NEW c \in Clients, NEW j \in Jobs, ClaimNextJob(c, j)
  PROVE  /\ RowsTyped'
         /\ \A k \in Jobs : k # j => job'[k] = job[k] /\ events'[k] = events[k]
         /\ job[j].state = "queued" /\ job'[j].state = "dispatched"
         /\ SameDates(job[j], job'[j])
         /\ events'[j] = IF 0 \in DOMAIN events[j] THEN events[j]
                         ELSE WithEvent(j, 0, EventRow("dispatched", 0))
<1>1. job[j].state = "queued"
  BY DEF ClaimNextJob, Oldest, Claimable
<1>2. /\ job' \in [Jobs -> Rows]
      /\ job'[j].state = "dispatched"
      /\ SameDates(job[j], job'[j])
      /\ \A k \in Jobs : k # j => job'[k] = job[k]
  <2>1. PICK f1 : f1 = [job EXCEPT ![j].state = "dispatched"]
    OBVIOUS
  <2>2. PICK f2 : f2 = [f1 EXCEPT ![j].delivery = deliveries + 1]
    OBVIOUS
  <2>3. PICK f3 : f3 = [f2 EXCEPT ![j].lease = now + DeliveryLease]
    OBVIOUS
  <2>4. job' = f3
    BY <2>1, <2>2, <2>3 DEF ClaimNextJob
  <2>5. Updated(job, f1, j, "dispatched")
    BY <2>1, SetState DEF RowsTyped, JobStates, Live, Terminal
  <2>6. deliveries + 1 \in Nat \union {NULL}
    BY DEF RowsTyped
  <2>7. Updated(job, f2, j, "dispatched")
    BY <2>2, <2>5, <2>6, SetDelivery
  <2>8. now + DeliveryLease \in Nat \union {NULL}
    BY DEF RowsTyped
  <2>9. Updated(job, f3, j, "dispatched")
    BY <2>3, <2>7, <2>8, SetDelivery
  <2> QED
    BY <2>4, <2>9 DEF Updated
<1>3. /\ DOMAIN events' = Jobs
      /\ \A k \in Jobs : k # j => events'[k] = events[k]
      /\ events'[j] = IF 0 \in DOMAIN events[j] THEN events[j]
                      ELSE WithEvent(j, 0, EventRow("dispatched", 0))
  BY DEF ClaimNextJob, RowsTyped
<1>4. RowsTyped'
  BY <1>2, <1>3 DEF ClaimNextJob, RowsTyped
<1> QED
  BY <1>1, <1>2, <1>3, <1>4

\* acknowledge_job_delivery moves one dispatched job and writes no event.
LEMMA AcknowledgeRow ==
  ASSUME RowsTyped, NEW c \in Clients, NEW j \in Jobs, NEW d, AcknowledgeJobDelivery(c, j, d)
  PROVE  /\ RowsTyped'
         /\ UNCHANGED events
         /\ \A k \in Jobs : k # j => job'[k] = job[k]
         /\ job[j].state = "dispatched" /\ job'[j].state = "acknowledged"
         /\ SameDates(job[j], job'[j])
<1>1. /\ job' \in [Jobs -> Rows]
      /\ job'[j].state = "acknowledged"
      /\ SameDates(job[j], job'[j])
      /\ \A k \in Jobs : k # j => job'[k] = job[k]
  <2>1. PICK f1 : f1 = [job EXCEPT ![j].state = "acknowledged"]
    OBVIOUS
  <2>2. PICK f2 : f2 = [f1 EXCEPT ![j].delivery = NULL]
    OBVIOUS
  <2>3. PICK f3 : f3 = [f2 EXCEPT ![j].lease = NULL]
    OBVIOUS
  <2>4. PICK f4 : f4 = [f3 EXCEPT ![j].startBy = now + StartLease]
    OBVIOUS
  <2>5. job' = f4
    BY <2>1, <2>2, <2>3, <2>4 DEF AcknowledgeJobDelivery
  <2>6. Updated(job, f1, j, "acknowledged")
    BY <2>1, SetState DEF RowsTyped, JobStates, Live, Terminal
  <2>7. Updated(job, f2, j, "acknowledged")
    BY <2>2, <2>6, SetDelivery
  <2>8. Updated(job, f3, j, "acknowledged")
    BY <2>3, <2>7, SetDelivery
  <2>9. now + StartLease \in Nat \union {NULL}
    BY DEF RowsTyped
  <2>10. Updated(job, f4, j, "acknowledged")
    BY <2>4, <2>8, <2>9, SetDelivery
  <2> QED
    BY <2>5, <2>10 DEF Updated
<1> QED
  BY <1>1 DEF AcknowledgeJobDelivery, AckAccepted, RowsTyped

\* persist_job_event moves one job of its client and inserts one event.
LEMMA PersistRow ==
  ASSUME RowsTyped, NEW c \in Clients, NEW j \in Jobs, NEW e \in ClientEvents,
         PersistJobEvent(c, j, e)
  PROVE  /\ RowsTyped'
         /\ \A k \in Jobs : k # j => job'[k] = job[k] /\ events'[k] = events[k]
         /\ job[j].state \in {"acknowledged", "running"} /\ job'[j].state = e.state
         /\ SameDates(job[j], job'[j])
         /\ e.state \in {"running", "succeeded", "failed"} /\ e.bytes \in Nat
         /\ e.sequence = LastSequence(j) + 1
         /\ events'[j] = WithEvent(j, e.sequence, EventRow(e.state, e.bytes))
<1>1. /\ job[j].state \in {"acknowledged", "running"}
      /\ e.state \in {"running", "succeeded", "failed"}
      /\ e.sequence = LastSequence(j) + 1
  BY DEF PersistJobEvent, EventAccepted, ValidateJobTransition
<1>2. e.bytes \in Nat
  BY DEF ClientEvents
<1>3. /\ job' \in [Jobs -> Rows]
      /\ job'[j].state = e.state
      /\ SameDates(job[j], job'[j])
      /\ \A k \in Jobs : k # j => job'[k] = job[k]
  <2>1. PICK f1 : f1 = [job EXCEPT ![j].state = e.state]
    OBVIOUS
  <2>2. PICK f2 : f2 = [f1 EXCEPT ![j].startBy = NULL]
    OBVIOUS
  <2>3. job' = f2
    BY <2>1, <2>2 DEF PersistJobEvent
  <2>4. Updated(job, f1, j, e.state)
    BY <1>1, <2>1, SetState DEF RowsTyped, JobStates, Live, Terminal
  <2>5. Updated(job, f2, j, e.state)
    BY <2>2, <2>4, SetDelivery
  <2> QED
    BY <2>3, <2>5 DEF Updated
<1>4. /\ DOMAIN events' = Jobs
      /\ \A k \in Jobs : k # j => events'[k] = events[k]
      /\ events'[j] = WithEvent(j, e.sequence, EventRow(e.state, e.bytes))
  BY DEF PersistJobEvent, RowsTyped
<1>5. RowsTyped'
  BY <1>3, <1>4 DEF PersistJobEvent, RowsTyped
<1> QED
  BY <1>1, <1>2, <1>3, <1>4, <1>5

\* maintenance_once ends expired jobs and requeues lapsed deliveries.
LEMMA SweptRow ==
  ASSUME RowsTyped, MaintenanceOnce
  PROVE  /\ RowsTyped'
         /\ \A k \in Jobs :
              /\ SameDates(job[k], job'[k])
              /\ Expired(job[k]) =>
                    /\ job[k].state \in Live /\ job'[k].state = "timed_out"
                    /\ events'[k] = WithEvent(k, LastSequence(k) + 1, EventRow("timed_out", 0))
              /\ ~Expired(job[k]) =>
                    /\ events'[k] = events[k]
                    /\ \/ job'[k].state = job[k].state
                       \/ job[k].state \in {"dispatched", "acknowledged"} /\ job'[k].state = "queued"
<1>1. now \in Nat /\ job \in [Jobs -> Rows]
  BY DEF RowsTyped
<1>2. ASSUME NEW r \in Rows
      PROVE  /\ Swept(r) \in Rows
             /\ SameDates(r, Swept(r))
             /\ Expired(r) => r.state \in Live /\ Swept(r).state = "timed_out"
             /\ ~Expired(r) => \/ Swept(r).state = r.state
                               \/ r.state \in {"dispatched", "acknowledged"} /\ Swept(r).state = "queued"
  <2>1. CASE LapsedDelivery(r)
    <3>1. ~Expired(r) /\ r.state = "dispatched"
      BY <1>1, <2>1 DEF LapsedDelivery, Expired, Rows
    <3>2. Swept(r) = [r EXCEPT !.state = "queued", !.delivery = NULL, !.lease = NULL]
      BY <2>1 DEF Swept
    <3> QED
      BY <3>1, <3>2 DEF Rows, JobStates, Live, SameDates
  <2>2. CASE ~LapsedDelivery(r) /\ LapsedStart(r)
    <3>1. ~Expired(r) /\ r.state = "acknowledged"
      BY <1>1, <2>2 DEF LapsedStart, Expired, Rows
    <3>2. Swept(r) = [r EXCEPT !.state = "queued", !.startBy = NULL]
      BY <2>2 DEF Swept
    <3> QED
      BY <3>1, <3>2 DEF Rows, JobStates, Live, SameDates
  <2>3. CASE ~LapsedDelivery(r) /\ ~LapsedStart(r) /\ Expired(r)
    <3>1. Swept(r) = [r EXCEPT !.state = "timed_out", !.delivery = NULL, !.lease = NULL,
                               !.startBy = NULL]
      BY <2>3 DEF Swept
    <3> QED
      BY <2>3, <3>1 DEF Expired, Rows, JobStates, Terminal, SameDates
  <2>4. CASE ~LapsedDelivery(r) /\ ~LapsedStart(r) /\ ~Expired(r)
    BY <2>4 DEF Swept, SameDates
  <2> QED
    BY <2>1, <2>2, <2>3, <2>4
<1>3. job' \in [Jobs -> Rows] /\ \A k \in Jobs : job'[k] = Swept(job[k])
  BY <1>1, <1>2 DEF MaintenanceOnce
<1>4. RowsTyped'
  BY <1>3 DEF MaintenanceOnce, RowsTyped
<1>5. ASSUME NEW k \in Jobs
      PROVE  events'[k] = IF Expired(job[k])
                          THEN WithEvent(k, LastSequence(k) + 1, EventRow("timed_out", 0))
                          ELSE events[k]
  BY DEF MaintenanceOnce, TimeoutSequence
<1> QED
  BY <1>1, <1>2, <1>3, <1>4, <1>5

\* The other steps leave rows and logs alone.
LEMMA OtherSteps ==
  ASSUME RowsTyped,
         \/ \E c \in Clients : \E typed \in BOOLEAN : HandleClientHello(c, typed)
         \/ \E c \in Clients : RevokeIdentity(c)
         \/ Tick \/ UNCHANGED storeVars
  PROVE  RowsTyped' /\ UNCHANGED <<job, events>>
  BY DEF HandleClientHello, RevokeIdentity, Tick, storeVars, RowsTyped

----------------------------------------------------------------------------
\* The invariant.

\* MAX and COUNT over job_events, for a log that fits.
LEMMA LogNumbers ==
  ASSUME NEW j, NEW n \in Nat, NEW s, LogOfLength(s, events[j], n)
  PROVE  LastSequence(j) = n - 1 /\ EventCount(j) = n
  BY LastOf, CountOf, ZenonT(60) DEF LogOfLength, LastSequence, EventCount

\* The initial tables satisfy the invariant.
LEMMA InitHolds == Init => StoreInv
<1> SUFFICES ASSUME Init PROVE RowsTyped /\ LogsFit
  BY InvParts
<1>1. RowsTyped
  BY DEF Init, RowsTyped, AbsentRow, Rows
<1>2. ASSUME NEW j \in Jobs PROVE LogOfLength(job[j].state, events[j], 0)
  <2>1. job[j].state = "absent" /\ DOMAIN events[j] = 0..(0 - 1)
    BY DEF Init, AbsentRow
  <2> QED
    BY <2>1 DEF LogOfLength, IsTerminal, Terminal
<1> QED
  BY <1>1, <1>2 DEF LogsFit, LogFits

\* A report goes to the end of its job's log.
LEMMA PersistLog ==
  ASSUME RowsTyped, NEW c \in Clients, NEW j \in Jobs, NEW e \in ClientEvents,
         PersistJobEvent(c, j, e), NEW n \in Nat, LogOfLength(job[j].state, events[j], n)
  PROVE  /\ events'[j] = Extended(events[j], n, EventRow(e.state, e.bytes))
         /\ LogOfLength(job'[j].state, events'[j], n + 1)
<1>1. e.sequence = n
  BY PersistRow, LogNumbers
<1>2. events'[j] = Extended(events[j], n, EventRow(e.state, e.bytes))
  BY <1>1, PersistRow DEF WithEvent, Extended
<1>3. /\ job[j].state \in Live
      /\ job'[j].state \in Terminal \union {"running"}
      /\ job'[j].state = e.state /\ e.bytes \in Nat
  BY PersistRow DEF Live, Terminal
<1>4. LogOfLength(job'[j].state, events'[j], n + 1)
  BY <1>2, <1>3, LogAppended
<1> QED
  BY <1>2, <1>4

\* So does the end of an expired job.
LEMMA TimeoutLog ==
  ASSUME RowsTyped, MaintenanceOnce, NEW j \in Jobs, Expired(job[j]),
         NEW n \in Nat, LogOfLength(job[j].state, events[j], n)
  PROVE  /\ events'[j] = Extended(events[j], n, EventRow("timed_out", 0))
         /\ LogOfLength("timed_out", events'[j], n + 1)
<1>1. LastSequence(j) + 1 = n
  BY LogNumbers
<1>2. events'[j] = WithEvent(j, LastSequence(j) + 1, EventRow("timed_out", 0)) /\ job[j].state \in Live
  BY SweptRow
<1>3. events'[j] = Extended(events[j], n, EventRow("timed_out", 0))
  BY <1>1, <1>2 DEF WithEvent, Extended
<1>4. LogOfLength("timed_out", events'[j], n + 1)
  <2>1. "timed_out" \in Terminal \union {"running"}
    BY DEF Terminal
  <2> QED
    BY <1>2, <1>3, <2>1, LogAppended
<1> QED
  BY <1>3, <1>4

\* The invariant is inductive.
LEMMA StepHolds == StoreInv /\ [Next]_storeVars => StoreInv'
<1> SUFFICES ASSUME RowsTyped, LogsFit, [Next]_storeVars PROVE RowsTyped' /\ LogsFit'
  BY InvParts, InvPartsNext
<1>1. ASSUME NEW j \in Jobs PROVE LogFits(job[j].state, events[j])
  BY DEF LogsFit
<1>2. ASSUME NEW j \in Jobs, NEW c \in Clients, NEW p \in Payloads, StartJob(j, c, p)
      PROVE  RowsTyped' /\ LogsFit'
  <2>1. ASSUME NEW k \in Jobs PROVE LogFits(job'[k].state, events'[k])
    <3>1. CASE job'[k] = job[k]
      BY <1>1, <1>2, <3>1, StartJobRow
    <3>2. CASE k = j /\ job[j].state = "absent" /\ job'[j].state = "queued"
      BY <1>1, <1>2, <3>2, StartJobRow, LogKept
    <3> QED
      BY <1>2, <3>1, <3>2, StartJobRow
  <2> QED
    BY <1>2, <2>1, StartJobRow DEF LogsFit
<1>3. ASSUME NEW c \in Clients, NEW j \in Jobs, ClaimNextJob(c, j) PROVE RowsTyped' /\ LogsFit'
  <2>1. ASSUME NEW k \in Jobs PROVE LogFits(job'[k].state, events'[k])
    <3>1. CASE k # j
      BY <1>1, <1>3, <3>1, ClaimRow
    <3>2. CASE k = j /\ 0 \in DOMAIN events[j]
      <4>1. job[j].state = "queued" /\ job'[j].state = "dispatched" /\ events'[j] = events[j]
        BY <1>3, <3>2, ClaimRow
      <4> QED
        BY <1>1, <3>2, <4>1, LogKept
    <3>3. CASE k = j /\ 0 \notin DOMAIN events[j]
      <4>1. /\ LogFits("queued", events[j]) /\ job'[j].state = "dispatched"
            /\ events'[j] = WithEvent(j, 0, EventRow("dispatched", 0))
        BY <1>1, <1>3, <3>3, ClaimRow
      <4>2. LogOfLength("dispatched", events'[j], 1)
        BY <3>3, <4>1, LogMarked DEF WithEvent, Extended
      <4> QED
        BY <3>3, <4>1, <4>2 DEF LogFits
    <3> QED
      BY <3>1, <3>2, <3>3
  <2> QED
    BY <1>3, <2>1, ClaimRow DEF LogsFit
<1>4. ASSUME NEW c \in Clients, NEW j \in Jobs, NEW d, AcknowledgeJobDelivery(c, j, d)
      PROVE  RowsTyped' /\ LogsFit'
  <2>1. ASSUME NEW k \in Jobs PROVE LogFits(job'[k].state, events'[k])
    <3>1. CASE k # j
      BY <1>1, <1>4, <3>1, AcknowledgeRow
    <3>2. CASE k = j
      BY <1>1, <1>4, <3>2, AcknowledgeRow, LogKept
    <3> QED
      BY <3>1, <3>2
  <2> QED
    BY <1>4, <2>1, AcknowledgeRow DEF LogsFit
<1>5. ASSUME NEW c \in Clients, NEW j \in Jobs, NEW e \in ClientEvents, PersistJobEvent(c, j, e)
      PROVE  RowsTyped' /\ LogsFit'
  <2>1. PICK n \in Nat : LogOfLength(job[j].state, events[j], n)
    BY <1>1 DEF LogFits
  <2>2. LogFits(job'[j].state, events'[j])
    <3>1. LogOfLength(job'[j].state, events'[j], n + 1)
      BY <1>5, <2>1, PersistLog
    <3> QED
      BY <3>1 DEF LogFits
  <2>3. ASSUME NEW k \in Jobs, k # j PROVE LogFits(job'[k].state, events'[k])
    BY <1>1, <1>5, <2>3, PersistRow
  <2> QED
    BY <1>5, <2>2, <2>3, PersistRow DEF LogsFit
<1>6. CASE MaintenanceOnce
  <2>1. ASSUME NEW k \in Jobs PROVE LogFits(job'[k].state, events'[k])
    <3>1. CASE Expired(job[k])
      <4>1. PICK n \in Nat : LogOfLength(job[k].state, events[k], n)
        BY <1>1 DEF LogFits
      <4>2. LogOfLength("timed_out", events'[k], n + 1) /\ job'[k].state = "timed_out"
        BY <1>6, <3>1, <4>1, TimeoutLog, SweptRow
      <4> QED
        BY <4>2 DEF LogFits
    <3>2. CASE ~Expired(job[k])
      <4>1. /\ events'[k] = events[k]
            /\ \/ job'[k].state = job[k].state
               \/ job[k].state \in {"dispatched", "acknowledged"} /\ job'[k].state = "queued"
        BY <1>6, <3>2, SweptRow
      <4> QED
        BY <1>1, <4>1, LogKept
    <3> QED
      BY <3>1, <3>2
  <2> QED
    BY <1>6, <2>1, SweptRow DEF LogsFit
<1>7. ASSUME UNCHANGED <<job, events>> PROVE LogsFit'
  BY <1>7 DEF LogsFit
<1> QED
  BY <1>2, <1>3, <1>4, <1>5, <1>6, <1>7, OtherSteps DEF Next

\* The invariant holds in every reachable state.
THEOREM StoreInvariant == Spec => []StoreInv
  BY InitHolds, StepHolds, PTL DEF Spec

\* A client that gets a job, however often it went back to the queue, starts
\* its events at sequence 1: maintenance_once returns only jobs whose log
\* holds the dispatch marker alone.
THEOREM StoreRedelivery == Spec => []RedeliveryStartsClean
<1>1. StoreInv => RedeliveryStartsClean
  <2> SUFFICES ASSUME LogsFit, NEW j \in Jobs
               PROVE  /\ job[j].state \in {"absent", "queued"} => DOMAIN events[j] \subseteq {0}
                      /\ job[j].state \in {"dispatched", "acknowledged"} => DOMAIN events[j] = {0}
    BY InvParts DEF RedeliveryStartsClean
  <2>1. PICK n \in Nat : LogOfLength(job[j].state, events[j], n)
    BY DEF LogsFit, LogFits
  <2> QED
    BY <2>1 DEF LogOfLength
<1> QED
  BY <1>1, StoreInvariant, PTL

\* jobs.state and job_events agree after every transaction: persist_job_event
\* and the sweep never leave a job terminal without its one terminal event, at
\* the end, or the other way round.
THEOREM StoreLogAgrees == Spec => []LogAgreesWithRow
<1>1. StoreInv => LogAgreesWithRow
  <2> SUFFICES ASSUME LogsFit, NEW j \in Jobs
               PROVE  /\ IsTerminal(job[j].state) <=> TerminalSeen(j)
                      /\ \A n \in DOMAIN events[j] : events[j][n].terminal => n = LastSequence(j)
                      /\ job[j].state \in Terminal \union {"running"}
                            => /\ DOMAIN events[j] # {}
                               /\ events[j][LastSequence(j)].state = job[j].state
    BY InvParts DEF LogAgreesWithRow
  <2>1. PICK n \in Nat : LogOfLength(job[j].state, events[j], n)
    BY DEF LogsFit, LogFits
  <2>2. LastSequence(j) = n - 1 /\ DOMAIN events[j] = 0..(n - 1)
    BY <2>1, LogNumbers DEF LogOfLength
  <2>3. IsTerminal(job[j].state) => TerminalSeen(j)
    BY <2>1, <2>2 DEF LogOfLength, TerminalSeen
  <2>4. TerminalSeen(j) => IsTerminal(job[j].state)
    BY <2>1, <2>2 DEF LogOfLength, TerminalSeen
  <2>5. \A m \in DOMAIN events[j] : events[j][m].terminal => m = LastSequence(j)
    BY <2>1, <2>2 DEF LogOfLength
  <2>6. ASSUME job[j].state \in Terminal \union {"running"}
        PROVE  DOMAIN events[j] # {} /\ events[j][LastSequence(j)].state = job[j].state
    <3>1. n > 0 /\ events[j][n - 1].state = job[j].state
      BY <2>1, <2>6 DEF LogOfLength
    <3>2. n - 1 \in 0..(n - 1)
      BY <3>1
    <3> QED
      BY <2>2, <3>1, <3>2
  <2> QED
    BY <2>3, <2>4, <2>5, <2>6
<1> QED
  BY <1>1, StoreInvariant, PTL

----------------------------------------------------------------------------
\* The refinement of JobLifecycle.

\* What stream_job shows of a log, and start_job of a state.
View(ev) == [i \in 1..Cardinality(DOMAIN ev) |-> ev[i - 1].state]
Shown(s) == IF s \in {"queued", "dispatched", "acknowledged"} THEN "waiting" ELSE s

\* The log w is v and t after it.
Grown(v, w, t) == w = Append(v, t)

\* The mapped variables are the views of the tables.
LEMMA ViewIs ==
  ASSUME NEW j \in Jobs
  PROVE  /\ AdminLog[j] = View(events[j]) /\ AdminLog'[j] = View(events'[j])
         /\ AdminStatus[j] = Shown(job[j].state) /\ AdminStatus'[j] = Shown(job'[j].state)
  BY DEF AdminLog, LifecycleLog, EventCount, View, AdminStatus, LifecycleStatus, Shown

\* A log of n events shows n states.
LEMMA ViewOfLength ==
  ASSUME NEW s, NEW ev, NEW n \in Nat, LogOfLength(s, ev, n)
  PROVE  /\ View(ev) = [i \in 1..n |-> ev[i - 1].state]
         /\ View(ev) \in Seq(JobStates) /\ Len(View(ev)) = n
<1>1. View(ev) = [i \in 1..n |-> ev[i - 1].state]
  BY CountOf DEF View, LogOfLength
<1>2. ASSUME NEW i \in 1..n PROVE ev[i - 1].state \in JobStates
  <2>1. i - 1 \in 0..(n - 1)
    OBVIOUS
  <2> QED
    BY <2>1 DEF LogOfLength, EventRows
<1>3. View(ev) \in [1..n -> JobStates]
  BY <1>1, <1>2
<1>4. View(ev) \in Seq(JobStates)
  BY <1>3, SeqDef
<1> QED
  BY <1>1, <1>3, <1>4, LenProperties

\* An event at the end of the log is shown at the end.
LEMMA ViewExtended ==
  ASSUME NEW s, NEW t \in JobStates, NEW b \in Nat, NEW ev, NEW n \in Nat,
         LogOfLength(s, ev, n), NEW w, w = Extended(ev, n, EventRow(t, b)),
         NEW N \in Nat, N = n + 1, LogOfLength(t, w, N)
  PROVE  Grown(View(ev), View(w), t)
<1>1. /\ View(ev) = [i \in 1..n |-> ev[i - 1].state]
      /\ View(ev) \in Seq(JobStates) /\ Len(View(ev)) = n
  BY ViewOfLength
<1>2. View(w) = [i \in 1..(n + 1) |-> w[i - 1].state]
  <2>1. View(w) = [i \in 1..N |-> w[i - 1].state]
    BY ViewOfLength
  <2> QED
    BY <2>1
<1>3. w[n].state = t /\ \A m \in 0..(n - 1) : w[m] = ev[m]
  BY EventRowFields DEF LogOfLength, Extended
<1>4. /\ Append(View(ev), t) \in Seq(JobStates)
      /\ Len(Append(View(ev), t)) = n + 1
      /\ \A i \in 1..n : Append(View(ev), t)[i] = View(ev)[i]
      /\ Append(View(ev), t)[n + 1] = t
  BY <1>1, AppendProperties
<1>5. DOMAIN Append(View(ev), t) = 1..(n + 1)
  BY <1>4, LenProperties
<1>6. ASSUME NEW i \in 1..(n + 1) PROVE View(w)[i] = Append(View(ev), t)[i]
  <2>1. CASE i = n + 1
    <3>1. n + 1 \in 1..(n + 1) /\ (n + 1) - 1 = n
      OBVIOUS
    <3>2. View(w)[n + 1] = w[n].state
      BY <1>2, <3>1
    <3> QED
      BY <1>3, <1>4, <2>1, <3>2
  <2>2. CASE i \in 1..n
    <3>1. i - 1 \in 0..(n - 1)
      BY <2>2
    <3> QED
      BY <1>1, <1>2, <1>3, <1>4, <2>2, <3>1
  <2>3. i = n + 1 \/ i \in 1..n
    OBVIOUS
  <2> QED
    BY <2>1, <2>2, <2>3
<1>7. Append(View(ev), t) \in [1..(n + 1) -> JobStates]
  BY <1>4, LenProperties
<1>8. View(w) = Append(View(ev), t)
  BY <1>2, <1>6, <1>7
<1> QED
  BY <1>8 DEF Grown

\* The initial tables show no job.
LEMMA InitRefines == Init => Lifecycle!Init
<1> SUFFICES ASSUME Init PROVE Lifecycle!Init
  OBVIOUS
<1>1. ASSUME NEW j \in Jobs PROVE job[j].state = "absent" /\ DOMAIN events[j] = {}
  BY DEF Init, AbsentRow
<1>2. AdminStatus = [j \in Jobs |-> "absent"]
  BY <1>1 DEF AdminStatus, LifecycleStatus
<1>3. AdminLog = [j \in Jobs |-> << >>]
  <2>1. ASSUME NEW j \in Jobs PROVE LifecycleLog(j) = << >>
    <3>1. EventCount(j) = 0
      BY <1>1, FS_EmptySet DEF EventCount
    <3>2. 1..0 = {}
      OBVIOUS
    <3> QED
      BY <3>1, <3>2 DEF LifecycleLog
  <2> QED
    BY <2>1 DEF AdminLog
<1> QED
  BY <1>2, <1>3 DEF Lifecycle!Init

\* The two mapped variables change only where a job is shown differently.
LEMMA ShownAt ==
  ASSUME NEW j \in Jobs,
         \A k \in Jobs : k # j => job'[k].state = job[k].state /\ events'[k] = events[k]
  PROVE  /\ AdminStatus' = [AdminStatus EXCEPT ![j] = Shown(job'[j].state)]
         /\ AdminLog' = [AdminLog EXCEPT ![j] = View(events'[j])]
<1>1. /\ DOMAIN AdminStatus = Jobs /\ DOMAIN AdminLog = Jobs
      /\ AdminStatus' = [k \in Jobs |-> Shown(job'[k].state)]
      /\ AdminLog' = [k \in Jobs |-> View(events'[k])]
  BY DEF AdminLog, LifecycleLog, EventCount, View, AdminStatus, LifecycleStatus, Shown
<1>2. ASSUME NEW k \in Jobs, k # j
      PROVE  Shown(job'[k].state) = AdminStatus[k] /\ View(events'[k]) = AdminLog[k]
  BY <1>2, ViewIs
<1> QED
  BY <1>1, <1>2

\* Nothing an Admin sees changes.
LEMMA ShownSame ==
  ASSUME \A k \in Jobs : Shown(job'[k].state) = Shown(job[k].state) /\ events'[k] = events[k]
  PROVE  UNCHANGED <<AdminStatus, AdminLog>>
<1>1. /\ AdminStatus' = [k \in Jobs |-> Shown(job'[k].state)]
      /\ AdminStatus = [k \in Jobs |-> Shown(job[k].state)]
      /\ AdminLog' = [k \in Jobs |-> View(events'[k])]
      /\ AdminLog = [k \in Jobs |-> View(events[k])]
  BY DEF AdminLog, LifecycleLog, EventCount, View, AdminStatus, LifecycleStatus, Shown
<1> QED
  BY <1>1

\* Every transaction is a lifecycle step or invisible.
LEMMA StepRefines ==
  ASSUME StoreInv, [Next]_storeVars
  PROVE  [Lifecycle!Next]_<<AdminStatus, AdminLog>>
<1> DEFINE Goal == [Lifecycle!Next]_<<AdminStatus, AdminLog>>
<1>1. RowsTyped /\ LogsFit
  BY InvParts
<1>2. ASSUME NEW j \in Jobs PROVE LogFits(job[j].state, events[j])
  BY <1>1 DEF LogsFit
<1>3. ASSUME NEW j \in Jobs, NEW c \in Clients, NEW p \in Payloads, StartJob(j, c, p)
      PROVE  Goal
  <2>1. CASE UNCHANGED job
    <3>1. UNCHANGED <<AdminStatus, AdminLog>>
      BY <1>1, <1>3, <2>1, StartJobRow, ShownSame
    <3> QED
      BY <3>1
  <2>2. CASE job[j].state = "absent" /\ job'[j].state = "queued"
    <3>1. /\ AdminStatus' = [AdminStatus EXCEPT ![j] = "waiting"]
          /\ AdminLog' = [AdminLog EXCEPT ![j] = AdminLog[j]]
          /\ AdminStatus[j] = "absent"
      BY <1>1, <1>3, <2>2, StartJobRow, ShownAt, ViewIs DEF Shown
    <3>2. UNCHANGED AdminLog
      BY <3>1 DEF AdminLog
    <3>3. Lifecycle!Accept(j)
      BY <3>1, <3>2 DEF Lifecycle!Accept
    <3> QED
      BY <3>3 DEF Lifecycle!Next
  <2> QED
    BY <1>1, <1>3, <2>1, <2>2, StartJobRow
<1>4. ASSUME NEW c \in Clients, NEW j \in Jobs, ClaimNextJob(c, j) PROVE Goal
  <2>1. /\ job[j].state = "queued" /\ job'[j].state = "dispatched"
        /\ \A k \in Jobs : k # j => job'[k] = job[k] /\ events'[k] = events[k]
    BY <1>1, <1>4, ClaimRow
  <2>2. CASE 0 \in DOMAIN events[j]
    <3>1. events'[j] = events[j]
      BY <1>1, <1>4, <2>2, ClaimRow
    <3>2. UNCHANGED <<AdminStatus, AdminLog>>
      BY <2>1, <3>1, ShownSame DEF Shown
    <3> QED
      BY <3>2
  <2>3. CASE 0 \notin DOMAIN events[j]
    <3>1. events'[j] = Extended(events[j], 0, EventRow("dispatched", 0))
      BY <1>1, <1>4, <2>3, ClaimRow DEF WithEvent, Extended
    <3>2. /\ LogOfLength("queued", events[j], 0)
          /\ LogOfLength("dispatched", events'[j], 1)
      BY <1>2, <2>1, <2>3, <3>1, LogMarked
    <3>3. /\ View(events[j]) \in Seq(JobStates) /\ Len(View(events[j])) = 0
          /\ View(events'[j]) = Append(View(events[j]), "dispatched")
      <4>1. "dispatched" \in JobStates /\ 0 + 1 = 1
        BY DEF JobStates, Live
      <4>2. Grown(View(events[j]), View(events'[j]), "dispatched")
        BY <3>1, <3>2, <4>1, ViewExtended
      <4> QED
        BY <3>2, <4>2, ViewOfLength DEF Grown
    <3>4. View(events[j]) = << >>
      BY <3>3, EmptySeq
    <3>5. View(events'[j]) = << "dispatched" >>
      BY <3>3, <3>4
    <3>6. /\ AdminStatus' = [AdminStatus EXCEPT ![j] = AdminStatus[j]]
          /\ AdminStatus[j] = "waiting" /\ AdminLog[j] = << >>
          /\ AdminLog' = [AdminLog EXCEPT ![j] = << "dispatched" >>]
      BY <2>1, <3>4, <3>5, ShownAt, ViewIs DEF Shown
    <3>7. UNCHANGED AdminStatus
      BY <3>6 DEF AdminStatus
    <3>8. Lifecycle!Dispatch(j)
      BY <3>6, <3>7 DEF Lifecycle!Dispatch
    <3> QED
      BY <3>8 DEF Lifecycle!Next
  <2> QED
    BY <2>2, <2>3
<1>5. ASSUME NEW c \in Clients, NEW j \in Jobs, NEW d, AcknowledgeJobDelivery(c, j, d)
      PROVE  Goal
  <2>1. ASSUME NEW k \in Jobs
        PROVE  Shown(job'[k].state) = Shown(job[k].state) /\ events'[k] = events[k]
    BY <1>1, <1>5, AcknowledgeRow DEF Shown
  <2>2. UNCHANGED <<AdminStatus, AdminLog>>
    BY <2>1, ShownSame
  <2> QED
    BY <2>2
<1>6. ASSUME NEW c \in Clients, NEW j \in Jobs, NEW e \in ClientEvents, PersistJobEvent(c, j, e)
      PROVE  Goal
  <2>1. PICK n \in Nat : LogOfLength(job[j].state, events[j], n)
    BY <1>2 DEF LogFits
  <2>2. /\ \A k \in Jobs : k # j => job'[k] = job[k] /\ events'[k] = events[k]
        /\ job[j].state \in {"acknowledged", "running"} /\ job'[j].state = e.state
        /\ e.state \in {"running", "succeeded", "failed"} /\ e.bytes \in Nat
    BY <1>1, <1>6, PersistRow
  <2>3. /\ events'[j] = Extended(events[j], n, EventRow(e.state, e.bytes))
        /\ LogOfLength(e.state, events'[j], n + 1)
    BY <1>1, <1>6, <2>1, <2>2, PersistLog
  <2>4. View(events'[j]) = Append(View(events[j]), e.state)
    <3>1. e.state \in JobStates
      BY <2>2 DEF JobStates, Live, Terminal
    <3>2. Grown(View(events[j]), View(events'[j]), e.state)
      BY <2>1, <2>2, <2>3, <3>1, ViewExtended
    <3> QED
      BY <3>2 DEF Grown
  <2>5. /\ AdminStatus' = [AdminStatus EXCEPT ![j] = e.state]
        /\ AdminLog' = [AdminLog EXCEPT ![j] = Append(AdminLog[j], e.state)]
        /\ AdminStatus[j] \in {"waiting", "running"}
    BY <2>2, <2>4, ShownAt, ViewIs DEF Shown
  <2>6. AdminLog[j] # << >>
    <3>1. n > 0
      BY <2>1, <2>2 DEF LogOfLength
    <3>2. Len(View(events[j])) = n
      BY <2>1, ViewOfLength
    <3> QED
      BY <3>1, <3>2, ViewIs
  <2>7. Lifecycle!Report(j, e.state)
    BY <2>5, <2>6 DEF Lifecycle!Report, Lifecycle!Open
  <2> QED
    BY <2>2, <2>7 DEF Lifecycle!Next
<1>7. ASSUME MaintenanceOnce PROVE Goal
  <2> DEFINE S == {j \in Jobs : Expired(job[j])}
  <2>1. ASSUME NEW k \in Jobs, ~Expired(job[k])
        PROVE  AdminStatus'[k] = AdminStatus[k] /\ AdminLog'[k] = AdminLog[k]
    <3>1. /\ events'[k] = events[k]
          /\ \/ job'[k].state = job[k].state
             \/ job[k].state \in {"dispatched", "acknowledged"} /\ job'[k].state = "queued"
      BY <1>1, <1>7, <2>1, SweptRow
    <3> QED
      BY <3>1, ViewIs DEF Shown
  <2>2. ASSUME NEW k \in Jobs, Expired(job[k])
        PROVE  /\ AdminStatus[k] \in {"waiting", "running"} /\ AdminStatus'[k] = "timed_out"
               /\ AdminLog'[k] = Append(AdminLog[k], "timed_out")
    <3>1. PICK n \in Nat : LogOfLength(job[k].state, events[k], n)
      BY <1>2 DEF LogFits
    <3>2. /\ events'[k] = Extended(events[k], n, EventRow("timed_out", 0))
          /\ LogOfLength("timed_out", events'[k], n + 1)
      BY <1>1, <1>7, <2>2, <3>1, TimeoutLog
    <3>3. View(events'[k]) = Append(View(events[k]), "timed_out")
      <4>1. "timed_out" \in JobStates /\ 0 \in Nat
        BY DEF JobStates, Terminal
      <4>2. Grown(View(events[k]), View(events'[k]), "timed_out")
        BY <3>1, <3>2, <4>1, ViewExtended
      <4> QED
        BY <4>2 DEF Grown
    <3>4. job[k].state \in Live /\ job'[k].state = "timed_out"
      BY <1>1, <1>7, <2>2, SweptRow
    <3> QED
      BY <3>3, <3>4, ViewIs DEF Shown, Live
  <2>3. AdminStatus' = [j \in Jobs |-> IF j \in S THEN "timed_out" ELSE AdminStatus[j]]
    <3>1. AdminStatus' = [j \in Jobs |-> AdminStatus'[j]]
      BY DEF AdminStatus
    <3> QED
      BY <2>1, <2>2, <3>1
  <2>4. AdminLog' = [j \in Jobs |-> IF j \in S THEN Append(AdminLog[j], "timed_out")
                                    ELSE AdminLog[j]]
    <3>1. AdminLog' = [j \in Jobs |-> AdminLog'[j]]
      BY DEF AdminLog
    <3> QED
      BY <2>1, <2>2, <3>1
  <2>5. Lifecycle!TimeOut(S)
    BY <2>2, <2>3, <2>4 DEF Lifecycle!TimeOut, Lifecycle!Open
  <2>6. S \in SUBSET Jobs
    OBVIOUS
  <2> HIDE DEF S
  <2> QED
    BY <2>5, <2>6 DEF Lifecycle!Next
<1>8. ASSUME UNCHANGED <<job, events>> PROVE Goal
  <2>1. UNCHANGED <<AdminStatus, AdminLog>>
    BY <1>8, ShownSame
  <2> QED
    BY <2>1
<1> QED
  <2> HIDE DEF Goal
  <2>1. Goal
    BY <1>1, <1>3, <1>4, <1>5, <1>6, <1>7, <1>8, OtherSteps DEF Next
  <2> QED
    BY <2>1 DEF Goal

\* What an Admin is shown of the tables is the lifecycle: the log only grows at
\* its end, a redelivery is invisible, and a job is over exactly once, whatever
\* transactions of start_job, claim_next_job, acknowledge_job_delivery,
\* persist_job_event and maintenance_once interleave.
THEOREM StoreImplementsLifecycle == Spec => ImplementsLifecycle
<1>1. StoreInv /\ [Next]_storeVars => [Lifecycle!Next]_<<AdminStatus, AdminLog>>
  BY StepRefines
<1> QED
  BY <1>1, InitRefines, StoreInvariant, PTL
     DEF Spec, ImplementsLifecycle, Lifecycle!Spec, Lifecycle!lifecycleVars
=============================================================================
