------------------------- MODULE JobPipelineProofs -------------------------
(***************************************************************************)
(* Proofs about JobPipeline.  LinkInv (the rows are typed and carry their  *)
(* deadlines, grants are counted, only signed grants travel on the         *)
(* streams) makes every step of the pipeline a step of the broker's        *)
(* specification or none, so the broker's invariants, proved in            *)
(* BrokerProofs, hold here too.  TruthInv adds that every frame, answer    *)
(* and row that calls a job succeeded is true, which gives the end-to-end  *)
(* property.                                                               *)
(***************************************************************************)
EXTENDS JobPipeline, SequenceTheorems, FiniteSetTheorems, TLAPS

\* The proofs about the two components, in the pipeline's terms.
SP == INSTANCE JobStoreProofs
BP == INSTANCE BrokerProofs WITH born <- [j \in Jobs |-> Born(j)], grants <- issued

-----------------------------------------------------------------------------
\* BrokerOf and BP are two instances of the same definitions, which the provers
\* take for different ones.

\* Cardinality means the same in the instances as here.
LEMMA SameCard == 
  ASSUME NEW S
  PROVE  /\ BrokerOf!Cardinality(S) = Cardinality(S)
         /\ BP!Cardinality(S) = Cardinality(S)
<1>1. BrokerOf!Cardinality(S) = Cardinality(S)
  BY DEF BrokerOf!Cardinality, Cardinality
<1>2. BP!Cardinality(S) = Cardinality(S)
  BY DEF BP!Cardinality, Cardinality
<1> QED BY <1>1, <1>2

\* lookup of the instances finds the same.
LEMMA SameLookup == \A j, t : BrokerOf!Lookup(j, t) = BP!Lookup(j, t)
<1>1. \A t : BrokerOf!Committed(t) = BP!Committed(t)
  BY DEF BrokerOf!Committed, BP!Committed
<1>2. \A S : BrokerOf!LastLine(S) = BP!LastLine(S)
  BY DEF BrokerOf!LastLine, BP!LastLine
<1>3. \A j, t : BrokerOf!Records(j, t) = BP!Records(j, t)
  BY <1>1 DEF BrokerOf!Records, BP!Records
<1> QED
  BY <1>2, <1>3 DEF BrokerOf!Lookup, BP!Lookup

\* Goto and Answer of the instances are the same.
LEMMA SameMoves ==
  ASSUME NEW w, NEW x
  PROVE  /\ BrokerOf!Goto(w, x) <=> BP!Goto(w, x)
         /\ BrokerOf!Answer(w, x) <=> BP!Answer(w, x)
<1>1. BrokerOf!Goto(w, x) <=> BP!Goto(w, x)
  BY DEF BrokerOf!Goto, BP!Goto
<1>2. BrokerOf!Answer(w, x) <=> BP!Answer(w, x)
  BY DEF BrokerOf!Answer, BP!Answer
<1> QED BY <1>1, <1>2

\* append_record of the instances, with its compaction, is the same.
LEMMA SameAppend ==
  ASSUME NEW r, NEW how
  PROVE BrokerOf!AppendRecord(r, how) <=> BP!AppendRecord(r, how)
<1> DEFINE added == IF how \in {"done", "whole"} THEN {r} ELSE {}
<1>1. \A t : BrokerOf!Committed(t) = BP!Committed(t)
  BY DEF BrokerOf!Committed, BP!Committed
<1>2. \A S : BrokerOf!LastLine(S) = BP!LastLine(S)
  BY DEF BrokerOf!LastLine, BP!LastLine
<1>3. \A j, t : BrokerOf!Records(j, t) = BP!Records(j, t)
  BY <1>1 DEF BrokerOf!Records, BP!Records
<1>4. BrokerOf!LatestPerJob = BP!LatestPerJob
  BY <1>1, <1>2, <1>3 DEF BrokerOf!LatestPerJob, BP!LatestPerJob
<1>5. BrokerOf!Markers = BP!Markers
  BY <1>4 DEF BrokerOf!Markers, BP!Markers
<1>6. ASSUME NEW M PROVE BrokerOf!NewestMarkers(M) = BP!NewestMarkers(M)
  <2> DEFINE Q == {K \in SUBSET M : /\ Cardinality(K) = MaxMarkers
                                    /\ \A k \in K, m \in M \ K : m.recorded <= k.recorded}
  <2>1. BrokerOf!NewestMarkers(M) = IF Cardinality(M) <= MaxMarkers THEN {M} ELSE Q
    BY SameCard DEF BrokerOf!NewestMarkers
  <2>2. BP!NewestMarkers(M) = IF Cardinality(M) <= MaxMarkers THEN {M} ELSE Q
    BY SameCard DEF BP!NewestMarkers
  <2> HIDE DEF Q
  <2> QED BY <2>1, <2>2
<1>7. \A K : BrokerOf!Compacted(K) = BP!Compacted(K)
  BY <1>4, <1>5 DEF BrokerOf!Compacted, BP!Compacted
<1>8. /\ BrokerOf!NewestMarkers(BrokerOf!Markers) = BP!NewestMarkers(BP!Markers)
      /\ \A K : BrokerOf!Compacted(K) \union added = BP!Compacted(K) \union added
      /\ \A K : {m.job : m \in BrokerOf!Markers \ K} = {m.job : m \in BP!Markers \ K}
  BY <1>5, <1>6, <1>7
<1> DEFINE Common == /\ lines < MaxLines /\ lines' = lines + 1 /\ tail' = (how = "part")
                     /\ UNCHANGED <<journal, torn>>
           Kept(N, C(_), J(_)) ==
              \E K \in N : /\ ledger' = C(K)
                          /\ lost' = lost \union (J(K) \ {x.job : x \in added})
           CO(K) == BrokerOf!Compacted(K) \union added
           CB(K) == BP!Compacted(K) \union added
           JO(K) == {m.job : m \in BrokerOf!Markers \ K}
           JB(K) == {m.job : m \in BP!Markers \ K}
           NO == BrokerOf!NewestMarkers(BrokerOf!Markers)
           NB == BP!NewestMarkers(BP!Markers)
           Plain == ledger' = ledger \union added /\ UNCHANGED lost
<1>9. BrokerOf!AppendRecord(r, how) <=>
         Common /\ (IF Cardinality(ledger) > MaxLedger THEN Kept(NO, CO, JO) ELSE Plain)
  BY SameCard DEF BrokerOf!AppendRecord
<1>10. BP!AppendRecord(r, how) <=>
         Common /\ (IF Cardinality(ledger) > MaxLedger THEN Kept(NB, CB, JB) ELSE Plain)
  BY SameCard DEF BP!AppendRecord
<1>11. Kept(NO, CO, JO) <=> Kept(NB, CB, JB)
  <2>1. NO = NB /\ (\A K : CO(K) = CB(K)) /\ (\A K : JO(K) = JB(K))
    BY <1>8
  <2> HIDE DEF NO, NB, CO, CB, JO, JB, added
  <2> QED BY <2>1
<1> HIDE DEF Common, Kept, Plain
<1> QED
  BY <1>9, <1>10, <1>11

\* The instances have the same state.
LEMMA SameVars ==
  /\ BrokerOf!brokerVars = BP!brokerVars
  /\ UNCHANGED BrokerOf!brokerVars <=> UNCHANGED BP!brokerVars
  BY DEF BrokerOf!brokerVars, BP!brokerVars

\* The instances start the same.
LEMMA SameInit == BrokerOf!Init <=> BP!Init
  BY DEF BrokerOf!Init, BP!Init, BrokerOf!NULL, BP!NULL, BrokerOf!Idle, BP!Idle

\* A recovery of the ledger that stops leaves the same in both instances.
LEMMA SameStops ==
  ASSUME NEW kept
  PROVE  BrokerOf!RecoveryStops(kept) <=> BP!RecoveryStops(kept)
  BY DEF BrokerOf!RecoveryStops, BP!RecoveryStops

\* The broker may run a job again in the same cases.
LEMMA SameExcuse ==
  ASSUME NEW j
  PROVE  BrokerOf!Excused(j) <=> BP!Excused(j)
  BY DEF BrokerOf!Excused, BP!Excused, BrokerOf!RetentionCovers, BP!RetentionCovers

\* What a worker of the broker does is the same in both instances.
LEMMA SameServe ==
  ASSUME NEW w, BrokerOf!Serve(w) PROVE BP!Serve(w)
<1> USE DEF BrokerOf!NULL, BP!NULL, BrokerOf!Idle, BP!Idle, BrokerOf!disk, BP!disk,
            BrokerOf!server, BP!server, BrokerOf!RunResults, BP!RunResults,
            BrokerOf!Writes, BP!Writes, BrokerOf!Reading, BP!Reading
<1>1. ASSUME BrokerOf!VerifyAndConsume(w) PROVE BP!VerifyAndConsume(w)
  <2>1. \A t : BrokerOf!Unexpired(t) = BP!Unexpired(t)
    BY DEF BrokerOf!Unexpired, BP!Unexpired
  <2> QED BY <1>1, <2>1, SameMoves, SameCard DEF BrokerOf!VerifyAndConsume, BP!VerifyAndConsume
<1>2. ASSUME NEW x, BrokerOf!RecordConsumedGrant(w, x) PROVE BP!RecordConsumedGrant(w, x)
  BY <1>2, SameMoves DEF BrokerOf!RecordConsumedGrant, BP!RecordConsumedGrant
<1>3. ASSUME BrokerOf!LookupFirst(w) PROVE BP!LookupFirst(w)
  BY <1>3, SameMoves, SameLookup DEF BrokerOf!LookupFirst, BP!LookupFirst
<1>4. ASSUME BrokerOf!TakeLock(w) PROVE BP!TakeLock(w)
  BY <1>4, SameMoves DEF BrokerOf!TakeLock, BP!TakeLock
<1>5. ASSUME NEW x, BrokerOf!MarkExecuting(w, x) PROVE BP!MarkExecuting(w, x)
  <2>1. \A j, t : BrokerOf!Marker(j, t) = BP!Marker(j, t)
    BY DEF BrokerOf!Marker, BP!Marker
  <2> QED BY <1>5, <2>1, SameMoves, SameLookup, SameAppend
          DEF BrokerOf!MarkExecuting, BP!MarkExecuting
<1>6. ASSUME BrokerOf!StartRun(w) PROVE BP!StartRun(w)
  BY <1>6, SameMoves DEF BrokerOf!StartRun, BP!StartRun
<1>7. ASSUME NEW x, BrokerOf!FinishRun(w, x) PROVE BP!FinishRun(w, x)
  BY <1>7, SameMoves DEF BrokerOf!FinishRun, BP!FinishRun
<1>8. ASSUME NEW x, NEW y, BrokerOf!RecordCompleted(w, x, y) PROVE BP!RecordCompleted(w, x, y)
  <2>1. \A j, r, t : BrokerOf!Completion(j, r, t) = BP!Completion(j, r, t)
    BY DEF BrokerOf!Completion, BP!Completion
  <2> QED BY <1>8, <2>1, SameMoves, SameLookup, SameAppend
          DEF BrokerOf!RecordCompleted, BP!RecordCompleted
<1>9. ASSUME BrokerOf!Respond(w) PROVE BP!Respond(w)
  BY <1>9 DEF BrokerOf!Respond, BP!Respond
<1>10. ASSUME BrokerOf!RecoverTornFinalRecord(w) PROVE BP!RecoverTornFinalRecord(w)
  BY <1>10 DEF BrokerOf!RecoverTornFinalRecord, BP!RecoverTornFinalRecord
<1>11. ASSUME NEW kept, BrokerOf!RecoveryFails(w, kept) PROVE BP!RecoveryFails(w, kept)
  <2>1. BP!RecoveryStops(kept)
    BY <1>11, SameStops DEF BrokerOf!RecoveryFails
  <2>2. BrokerOf!Unlocked(w) = BP!Unlocked(w)
    BY DEF BrokerOf!Unlocked, BP!Unlocked
  <2>3. BP!Answer(w, IF thread[w].pc = "ran" THEN "unknown" ELSE "refused")
    BY <1>11, SameMoves DEF BrokerOf!RecoveryFails
  <2> QED BY <1>11, <2>1, <2>2, <2>3 DEF BrokerOf!RecoveryFails, BP!RecoveryFails
<1> QED
  BY <1>1, <1>2, <1>3, <1>4, <1>5, <1>6, <1>7, <1>8, <1>9, <1>10, <1>11
  DEF BrokerOf!Serve, BP!Serve

\* A step of the broker in the pipeline is a step the broker's proofs speak of.
LEMMA SameNext ==
  ASSUME BrokerOf!Next PROVE BP!Next
<1> USE DEF BrokerOf!NULL, BP!NULL, BrokerOf!Idle, BP!Idle, BrokerOf!disk, BP!disk,
            BrokerOf!server, BP!server
<1>1. ASSUME NEW j, BrokerOf!CreateJob(j) PROVE BP!CreateJob(j)
  BY <1>1 DEF BrokerOf!CreateJob, BP!CreateJob
<1>2. ASSUME NEW j, BrokerOf!SignGrant(j) PROVE BP!SignGrant(j)
  BY <1>2, SameCard DEF BrokerOf!SignGrant, BP!SignGrant
<1>3. ASSUME NEW w, NEW g, NEW m, BrokerOf!Accept(w, g, m) PROVE BP!Accept(w, g, m)
  BY <1>3 DEF BrokerOf!Accept, BP!Accept
<1>4. ASSUME NEW x, NEW kept, BrokerOf!Crash(x, kept) PROVE BP!Crash(x, kept)
  BY <1>4, SameStops DEF BrokerOf!Crash, BP!Crash, BrokerOf!Reading, BP!Reading
<1>5. ASSUME BrokerOf!Restart PROVE BP!Restart
  BY <1>5 DEF BrokerOf!Restart, BP!Restart
<1>6. ASSUME BrokerOf!Tick PROVE BP!Tick
  BY <1>6 DEF BrokerOf!Tick, BP!Tick
<1> QED
  BY <1>1, <1>2, <1>3, <1>4, <1>5, <1>6, SameServe
  DEF BrokerOf!Next, BP!Next, BrokerOf!Within, BP!Within

\* Broker asks of its constants what the pipeline asks of them.
LEMMA BrokerConstants ==
  /\ /\ JobTTL \in Nat \ {0}
     /\ GrantValidity \in Nat \ {0}
     /\ RecordRetention \in Nat \ {0}
     /\ MarkerTTL \in Nat \ {0}
     /\ RequestBound \in Nat \ {0}
  /\ /\ MaxReplayEntries \in Nat
     /\ MaxLedger \in Nat
     /\ MaxMarkers \in Nat
     /\ MaxTime \in Nat
     /\ MaxGrants \in Nat
     /\ MaxLines \in Nat
     /\ MaxCrashes \in Nat
  /\ BP!NULL \notin Workers
  BY PipelineTimes, PipelineBounds, PipelineWorkers DEF MaxGrants, MaxCrashes, BP!NULL

-----------------------------------------------------------------------------
\* Streams.

\* The ends and the contents of a control stream with grants of I and frames of F.
Ends(I, F) == [connected : BOOLEAN, clientEnd : BOOLEAN, serverEnd : BOOLEAN,
               toClient : Seq(I), toServer : Seq(F)]

\* More grants and more frames are possible.
LEMMA LinksGrow ==
  ASSUME NEW I, NEW J, NEW F, NEW G, I \subseteq J, F \subseteq G, NEW st \in Seq(Ends(I, F))
  PROVE  st \in Seq(Ends(J, G))
<1>1. Seq(I) \subseteq Seq(J) /\ Seq(F) \subseteq Seq(G)
  BY SeqMonotonic
<1>2. Ends(I, F) \subseteq Ends(J, G)
  BY <1>1 DEF Ends
<1> QED BY <1>2, SeqMonotonic

\* One stream changes.
LEMMA LinkSet ==
  ASSUME NEW I, NEW F, NEW st \in Seq(Ends(I, F)), NEW s \in DOMAIN st, NEW e \in Ends(I, F),
         NEW new, new = [st EXCEPT ![s] = e]
  PROVE  new \in Seq(Ends(I, F)) /\ DOMAIN new = DOMAIN st
<1>1. s \in 1..Len(st) /\ DOMAIN st = 1..Len(st)
  BY LenProperties
<1> QED BY <1>1, ExceptSeq, LenProperties

\* The ends of one stream change, or what is on it is dropped or read.
LEMMA EndsChange ==
  ASSUME NEW I, NEW F, NEW e \in Ends(I, F)
  PROVE  /\ [e EXCEPT !.connected = FALSE, !.toClient = << >>] \in Ends(I, F)
         /\ [e EXCEPT !.clientEnd = FALSE] \in Ends(I, F)
         /\ [e EXCEPT !.serverEnd = FALSE, !.toServer = << >>] \in Ends(I, F)
         /\ [e EXCEPT !.serverEnd = FALSE, !.connected = FALSE,
                      !.toServer = << >>, !.toClient = << >>] \in Ends(I, F)
         /\ [e EXCEPT !.connected = FALSE, !.clientEnd = FALSE, !.toClient = << >>] \in Ends(I, F)
         /\ \A q \in Seq(F) : [e EXCEPT !.toServer = q] \in Ends(I, F)
         /\ \A q \in Seq(I) : [e EXCEPT !.toClient = q] \in Ends(I, F)
<1>1. << >> \in Seq(I) /\ << >> \in Seq(F)
  BY EmptySeq
<1> QED BY <1>1 DEF Ends

\* Steps that send nothing.
LEMMA StreamEndsMove ==
  ASSUME NEW I, NEW F, stream \in Seq(Ends(I, F)), NEW s \in Streams,
         \/ Break(s) \/ ClientNotices(s) \/ ServerNotices(s) \/ ServerCloses(s)
         \/ Consumed(s) /\ stream[s].toServer # << >>
  PROVE  stream' \in Seq(Ends(I, F)) /\ DOMAIN stream' = DOMAIN stream
<1>1. stream[s] \in Ends(I, F)
  BY LenProperties, ElementOfSeq DEF Streams
<1>2. \E e \in Ends(I, F) : stream' = [stream EXCEPT ![s] = e]
  <2>1. CASE Break(s)
    BY <1>1, <2>1, EndsChange DEF Break
  <2>2. CASE ClientNotices(s)
    BY <1>1, <2>2, EndsChange DEF ClientNotices
  <2>3. CASE ServerNotices(s)
    BY <1>1, <2>3, EndsChange DEF ServerNotices
  <2>4. CASE ServerCloses(s)
    BY <1>1, <2>4, EndsChange DEF ServerCloses
  <2>5. CASE Consumed(s) /\ stream[s].toServer # << >>
    <3>1. stream[s].toServer \in Seq(F)
      BY <1>1 DEF Ends
    <3>2. Tail(stream[s].toServer) \in Seq(F)
      BY <2>5, <3>1, HeadTailProperties
    <3> QED BY <1>1, <2>5, <3>2, EndsChange DEF Consumed
  <2> QED BY <2>1, <2>2, <2>3, <2>4, <2>5
<1> QED BY <1>2, LinkSet DEF Streams

\* The client sends a frame.
LEMMA StreamSends ==
  ASSUME NEW I, NEW F, stream \in Seq(Ends(I, F)), NEW s \in Streams, NEW q \in Seq(F)
  PROVE  /\ Sending(s, q) \in Seq(Ends(I, F)) /\ DOMAIN Sending(s, q) = DOMAIN stream
         /\ Sending(s, q)[s].toClient = stream[s].toClient
<1>1. stream[s] \in Ends(I, F)
  BY LenProperties, ElementOfSeq DEF Streams
<1> DEFINE e == [stream[s] EXCEPT !.toServer = @ \o q]
<1>2. stream[s].toServer \o q \in Seq(F)
  BY <1>1, ConcatProperties DEF Ends
<1>3. e \in Ends(I, F) /\ e.toClient = stream[s].toClient
  BY <1>1, <1>2 DEF Ends
<1>4. CASE stream[s].connected
  <2>1. Sending(s, q) = [stream EXCEPT ![s] = e]
    BY <1>4 DEF Sending
  <2> HIDE DEF e
  <2>2. [stream EXCEPT ![s] = e][s] = e
    BY DEF Streams
  <2> QED BY <1>3, <2>1, <2>2, LinkSet DEF Streams
<1>5. CASE ~stream[s].connected
  BY <1>5 DEF Sending
<1> QED BY <1>4, <1>5

\* A stream is opened.
LEMMA StreamOpens ==
  ASSUME NEW I, NEW F, stream \in Seq(Ends(I, F)), Connect
  PROVE  stream' \in Seq(Ends(I, F)) /\ DOMAIN stream \subseteq DOMAIN stream'
<1> DEFINE e == [connected |-> TRUE, clientEnd |-> TRUE, serverEnd |-> TRUE,
                 toClient |-> << >>, toServer |-> << >>]
<1>1. e \in Ends(I, F)
  BY EmptySeq DEF Ends
<1>2. stream' = Append(stream, e)
  BY DEF Connect
<1> HIDE DEF e
<1> QED BY <1>1, <1>2, AppendProperties, LenProperties

\* The server sends a grant.
LEMMA StreamGrants ==
  ASSUME NEW I, NEW F, stream \in Seq(Ends(I, F)), NEW s \in Streams, NEW g \in I,
         stream' = IF stream[s].connected
                   THEN [stream EXCEPT ![s].toClient = Append(@, g)]
                   ELSE stream
  PROVE  stream' \in Seq(Ends(I, F)) /\ DOMAIN stream' = DOMAIN stream
<1>1. stream[s] \in Ends(I, F)
  BY LenProperties, ElementOfSeq DEF Streams
<1>2. Append(stream[s].toClient, g) \in Seq(I)
  BY <1>1, AppendProperties DEF Ends
<1>3. CASE stream[s].connected
  <2>1. \E e \in Ends(I, F) : stream' = [stream EXCEPT ![s] = e]
    BY <1>1, <1>2, <1>3, EndsChange
  <2> QED BY <2>1, LinkSet DEF Streams
<1> QED BY <1>3

\* The daemon takes a delivery and reports that it runs, or hangs up.
LEMMA StreamDelivers ==
  ASSUME NEW I, NEW F, stream \in Seq(Ends(I, F)), NEW s \in Streams, HandleJob(s),
         NEW g, g = Head(stream[s].toClient),
         AckFrame(g.job, g.id) \in F, EventFrame(g.job, 1, "running") \in F
  PROVE  stream' \in Seq(Ends(I, F)) /\ DOMAIN stream' = DOMAIN stream
<1> DEFINE q == << AckFrame(g.job, g.id), EventFrame(g.job, 1, "running") >>
<1>1. stream[s] \in Ends(I, F)
  BY LenProperties, ElementOfSeq DEF Streams
<1>2. stream[s].toClient \in Seq(I) /\ stream[s].toClient # << >>
  BY <1>1 DEF Ends, HandleJob
<1>3. Tail(stream[s].toClient) \in Seq(I)
  BY <1>2, HeadTailProperties
<1>4. q \in Seq(F)
  OBVIOUS
<1>5. CASE now > g.expires
  <2>1. stream' = [stream EXCEPT ![s].connected = FALSE, ![s].clientEnd = FALSE,
                                 ![s].toClient = << >>]
    BY <1>5 DEF HandleJob
  <2>2. \E e \in Ends(I, F) : stream' = [stream EXCEPT ![s] = e]
    BY <1>1, <2>1, EndsChange
  <2> QED BY <2>2, LinkSet DEF Streams
<1>6. CASE ~(now > g.expires)
  <2>1. stream' = [Sending(s, q) EXCEPT ![s].toClient = Tail(@)]
    BY <1>6 DEF HandleJob
  <2> HIDE DEF q
  <2>2. PICK st \in Seq(Ends(I, F)) : /\ st = Sending(s, q) /\ DOMAIN st = DOMAIN stream
                                      /\ st[s].toClient = stream[s].toClient
    BY <1>4, StreamSends
  <2>3. st[s] \in Ends(I, F)
    BY <2>2, LenProperties, ElementOfSeq DEF Streams
  <2>4. \E e \in Ends(I, F) : stream' = [st EXCEPT ![s] = e]
    BY <1>3, <2>1, <2>2, <2>3, EndsChange
  <2> QED BY <2>2, <2>4, LinkSet DEF Streams
<1> QED BY <1>5, <1>6

\* The daemon dies with its ends of all streams.
LEMMA StreamsDie ==
  ASSUME NEW I, NEW F, stream \in Seq(Ends(I, F)), DaemonCrash
  PROVE  stream' \in Seq(Ends(I, F)) /\ DOMAIN stream' = DOMAIN stream
<1>1. Len(stream) \in Nat /\ DOMAIN stream = 1..Len(stream)
  BY LenProperties
<1>2. stream' = [s \in Streams |-> [stream[s] EXCEPT !.connected = FALSE, !.clientEnd = FALSE,
                                                     !.toClient = << >>]]
  BY DEF DaemonCrash
<1>3. \A s \in 1..Len(stream) : stream[s] \in Ends(I, F)
  BY ElementOfSeq
<1>4. \A s \in Streams : [stream[s] EXCEPT !.connected = FALSE, !.clientEnd = FALSE,
                                           !.toClient = << >>] \in Ends(I, F)
  BY <1>1, <1>3, EndsChange DEF Streams
<1>5. stream' \in [1..Len(stream) -> Ends(I, F)]
  BY <1>1, <1>2, <1>4 DEF Streams
<1> QED BY <1>1, <1>5, SeqDef
-----------------------------------------------------------------------------
\* The server's tables.

\* JobStore asks of its constants what the pipeline asks of them.
LEMMA StoreConstants ==
  /\ JobTTL \in Nat \ {0} /\ DeliveryLease \in Nat \ {0} /\ StartLease \in Nat \ {0}
  /\ GrantValidity \in Nat \ {0}
  /\ MaxJobEvents \in Nat \ {0} /\ MaxRetained \in Nat /\ EventBytes \subseteq Nat
  /\ MaxTime \in Nat /\ MaxStarts \in Nat /\ MaxDeliveries \in Nat
  BY PipelineTimes, PipelineBounds DEF MaxJobEvents, MaxRetained, EventBytes, MaxStarts

\* A job expires JobTTL after its creation.
RowsOK ==
  /\ SP!RowsTyped
  /\ \A j \in Jobs : job[j].state # "absent" => job[j].expires = job[j].created + JobTTL

\* The creation times, as the broker's module sees them.
BornAll == [j \in Jobs |-> Born(j)]

\* A step that inserts no row moves no date.
LEMMA RowsKeep ==
  ASSUME RowsOK, SP!RowsTyped',
         \A k \in Jobs : /\ SP!SameDates(job[k], job'[k])
                         /\ job'[k].state = "absent" <=> job[k].state = "absent"
  PROVE  RowsOK' /\ UNCHANGED BornAll
<1>1. \A k \in Jobs : job'[k].created = job[k].created /\ job'[k].expires = job[k].expires
  BY DEF SP!SameDates
<1>2. UNCHANGED BornAll
  BY <1>1 DEF BornAll, Born
<1> QED BY <1>1, <1>2 DEF RowsOK

\* Which jobs a step of the tables calls succeeded.
NewlySucceeded == {k \in Jobs : job'[k].state = "succeeded" /\ job[k].state # "succeeded"}

\* start_job creates a job, or nothing.
LEMMA TablesStart ==
  ASSUME RowsOK, NEW j \in Jobs, Store!StartJob(j, Client, Payload)
  PROVE  /\ RowsOK' /\ NewlySucceeded = {} /\ UNCHANGED <<now, deliveries>>
         /\ \/ UNCHANGED BornAll
            \/ BornAll[j] = NULL /\ BornAll' = [BornAll EXCEPT ![j] = now]
<1>1. SP!StartJob(j, Client, Payload)
  BY DEF Store!StartJob, SP!StartJob, SP!NULL, Store!NULL
<1>2. SP!RowsTyped /\ Client \in Clients /\ Payload \in Payloads
  BY DEF RowsOK, Clients, Payloads
<1>3. /\ SP!RowsTyped'
      /\ \A k \in Jobs : k # j => job'[k] = job[k]
      /\ \/ /\ job[j].state = "absent" /\ job'[j].state = "queued"
            /\ job'[j].created = now /\ job'[j].expires = now + JobTTL
         \/ UNCHANGED job
  BY <1>1, <1>2, StoreConstants, SP!StartJobRow
<1>4. UNCHANGED <<now, deliveries>>
  BY DEF Store!StartJob
<1>5. CASE UNCHANGED job
  BY <1>3, <1>4, <1>5 DEF RowsOK, BornAll, Born, NewlySucceeded
<1>6. CASE /\ job[j].state = "absent" /\ job'[j].state = "queued"
           /\ job'[j].created = now /\ job'[j].expires = now + JobTTL
  <2>1. RowsOK' /\ NewlySucceeded = {}
    BY <1>3, <1>6 DEF RowsOK, NewlySucceeded
  <2>2. BornAll[j] = NULL /\ BornAll' = [BornAll EXCEPT ![j] = now]
    BY <1>3, <1>6 DEF BornAll, Born
  <2> QED BY <1>4, <2>1, <2>2
<1> QED BY <1>3, <1>5, <1>6

\* claim_next_job delivers a job before its expiry.
LEMMA TablesClaim ==
  ASSUME RowsOK, NEW j \in Jobs, Store!ClaimNextJob(Client, j)
  PROVE  /\ RowsOK' /\ NewlySucceeded = {} /\ UNCHANGED BornAll /\ UNCHANGED now
         /\ deliveries' = deliveries + 1 /\ deliveries < MaxDeliveries
         /\ BornAll[j] # NULL /\ now < BornAll[j] + JobTTL
<1>1. SP!ClaimNextJob(Client, j)
  BY DEF Store!ClaimNextJob, SP!ClaimNextJob, Store!Oldest, SP!Oldest, Store!Claimable, SP!Claimable,
         Store!WithEvent, SP!WithEvent, Store!EventRow, SP!EventRow, Store!IsTerminal, SP!IsTerminal,
         Store!Terminal, SP!Terminal
<1>2. SP!RowsTyped /\ Client \in Clients
  BY DEF RowsOK, Clients
<1>3. /\ SP!RowsTyped'
      /\ \A k \in Jobs : k # j => job'[k] = job[k]
      /\ job[j].state = "queued" /\ job'[j].state = "dispatched"
      /\ SP!SameDates(job[j], job'[j])
  BY <1>1, <1>2, StoreConstants, SP!ClaimRow
<1>4. RowsOK' /\ UNCHANGED BornAll
  BY <1>3, RowsKeep DEF RowsOK, SP!SameDates
<1>5. NewlySucceeded = {}
  BY <1>3 DEF NewlySucceeded
<1>6. UNCHANGED now /\ deliveries' = deliveries + 1 /\ deliveries < MaxDeliveries
  BY DEF Store!ClaimNextJob
<1>7. job[j].expires > now
  BY DEF Store!ClaimNextJob, Store!Oldest, Store!Claimable
<1>8. job[j].created \in Nat /\ job[j].expires = job[j].created + JobTTL /\ now \in Nat
  BY <1>3 DEF RowsOK, SP!RowsTyped, SP!Rows
<1>9. BornAll[j] = job[j].created
  BY <1>3 DEF BornAll, Born
<1> QED BY <1>4, <1>5, <1>6, <1>7, <1>8, <1>9, StoreConstants DEF NULL, Store!NULL

\* acknowledge_job_delivery.
LEMMA TablesAcknowledge ==
  ASSUME RowsOK, NEW j \in Jobs, NEW d, Store!AcknowledgeJobDelivery(Client, j, d)
  PROVE  RowsOK' /\ NewlySucceeded = {} /\ UNCHANGED BornAll /\ UNCHANGED <<now, deliveries>>
<1>1. SP!AcknowledgeJobDelivery(Client, j, d)
  BY DEF Store!AcknowledgeJobDelivery, SP!AcknowledgeJobDelivery, Store!AckAccepted, SP!AckAccepted,
         Store!NULL, SP!NULL
<1>2. SP!RowsTyped /\ Client \in Clients
  BY DEF RowsOK, Clients
<1>3. /\ SP!RowsTyped'
      /\ \A k \in Jobs : k # j => job'[k] = job[k]
      /\ job[j].state = "dispatched" /\ job'[j].state = "acknowledged"
      /\ SP!SameDates(job[j], job'[j])
  BY <1>1, <1>2, StoreConstants, SP!AcknowledgeRow
<1>4. RowsOK' /\ UNCHANGED BornAll
  BY <1>3, RowsKeep DEF RowsOK, SP!SameDates
<1>5. NewlySucceeded = {} /\ UNCHANGED <<now, deliveries>>
  BY <1>3 DEF NewlySucceeded, Store!AcknowledgeJobDelivery
<1> QED BY <1>4, <1>5

\* persist_job_event calls a job succeeded only when the event says so.
LEMMA TablesPersist ==
  ASSUME RowsOK, NEW j \in Jobs, NEW e \in SP!ClientEvents, Store!PersistJobEvent(Client, j, e)
  PROVE  /\ RowsOK' /\ UNCHANGED BornAll /\ UNCHANGED <<now, deliveries>>
         /\ NewlySucceeded \subseteq {k \in {j} : e.state = "succeeded"}
<1>1. SP!PersistJobEvent(Client, j, e)
  <2>1. SP!EventAccepted(Client, j, e)
    <3>1. \A S : SP!Cardinality(S) = Store!Cardinality(S)
      BY DEF SP!Cardinality, Store!Cardinality
    <3>2. SP!RetainedBytes(j) = Store!RetainedBytes(j)
      BY DEF SP!RetainedBytes, Store!RetainedBytes, SP!FoldFunction, Store!FoldFunction,
             SP!FoldFunctionOnSet, Store!FoldFunctionOnSet, SP!MapThenFoldSet,
             Store!MapThenFoldSet
    <3> QED
      BY <3>1, <3>2
      DEF Store!PersistJobEvent, Store!EventAccepted, SP!EventAccepted, Store!ValidateJobEventShape,
          SP!ValidateJobEventShape, Store!ValidateJobTransition, SP!ValidateJobTransition,
          Store!TerminalSeen, SP!TerminalSeen, Store!IsTerminal, SP!IsTerminal, Store!Terminal,
          SP!Terminal, Store!LastSequence, SP!LastSequence, Store!NULL, SP!NULL,
          Store!EventCount, SP!EventCount
  <2> QED
    BY <2>1 DEF Store!PersistJobEvent, SP!PersistJobEvent, Store!WithEvent, SP!WithEvent,
                Store!EventRow, SP!EventRow, Store!IsTerminal, SP!IsTerminal, Store!Terminal,
                SP!Terminal, Store!NULL, SP!NULL
<1>2. SP!RowsTyped /\ Client \in Clients
  BY DEF RowsOK, Clients
<1>3. /\ SP!RowsTyped'
      /\ \A k \in Jobs : k # j => job'[k] = job[k]
      /\ job[j].state \in {"acknowledged", "running"} /\ job'[j].state = e.state
      /\ e.state \in {"running", "succeeded", "failed"}
      /\ SP!SameDates(job[j], job'[j])
  BY <1>1, <1>2, StoreConstants, SP!PersistRow
<1>4. RowsOK' /\ UNCHANGED BornAll
  BY <1>3, RowsKeep DEF RowsOK, SP!SameDates
<1>5. UNCHANGED <<now, deliveries>>
  BY DEF Store!PersistJobEvent
<1>6. NewlySucceeded \subseteq {k \in {j} : e.state = "succeeded"}
  BY <1>3 DEF NewlySucceeded
<1> QED BY <1>4, <1>5, <1>6

\* maintenance_once.
LEMMA TablesSweep ==
  ASSUME RowsOK, Store!MaintenanceOnce
  PROVE  RowsOK' /\ NewlySucceeded = {} /\ UNCHANGED BornAll /\ UNCHANGED <<now, deliveries>>
<1>1. SP!MaintenanceOnce
  BY DEF Store!MaintenanceOnce, SP!MaintenanceOnce, SP!NULL, Store!NULL, Store!Swept, SP!Swept,
         Store!LapsedDelivery, SP!LapsedDelivery, Store!LapsedStart, SP!LapsedStart,
         Store!Expired, SP!Expired, Store!WithEvent, SP!WithEvent, Store!TimeoutSequence,
         SP!TimeoutSequence, Store!LastSequence, SP!LastSequence, Store!EventRow, SP!EventRow,
         Store!IsTerminal, SP!IsTerminal, Store!Live, SP!Live, Store!Terminal, SP!Terminal
<1>2. SP!RowsTyped
  BY DEF RowsOK
<1>3. /\ SP!RowsTyped'
      /\ \A k \in Jobs :
            /\ SP!SameDates(job[k], job'[k])
            /\ SP!Expired(job[k]) => job[k].state \in SP!Live /\ job'[k].state = "timed_out"
            /\ ~SP!Expired(job[k]) =>
                  \/ job'[k].state = job[k].state
                  \/ job[k].state \in {"dispatched", "acknowledged"} /\ job'[k].state = "queued"
  BY <1>1, <1>2, StoreConstants, SP!SweptRow
<1>4. \A k \in Jobs : job'[k].state = "absent" <=> job[k].state = "absent"
  BY <1>3 DEF SP!Live
<1>5. RowsOK' /\ UNCHANGED BornAll
  BY <1>3, <1>4, RowsKeep
<1>6. NewlySucceeded = {} /\ UNCHANGED <<now, deliveries>>
  BY <1>3 DEF NewlySucceeded, Store!MaintenanceOnce
<1> QED BY <1>5, <1>6

\* Steps that leave the rows alone.
LEMMA TablesQuiet ==
  ASSUME RowsOK, UNCHANGED <<job, events, deliveries, active, starts>>, now' \in Nat,
         capable' \subseteq Clients
  PROVE  RowsOK' /\ NewlySucceeded = {} /\ UNCHANGED BornAll
  BY DEF RowsOK, SP!RowsTyped, NewlySucceeded, BornAll, Born
-----------------------------------------------------------------------------
\* Server, streams and daemon hand the broker only grants the server signed.

\* Frames a client sends.
Frames == [kind : {"ack"}, job : Jobs, delivery : Nat]
             \union [kind : {"event"}, job : Jobs, event : SP!ClientEvents]

\* Delivery ids are counted, so no two grants are the same.
IssuedOK ==
  /\ issued \subseteq [id : Nat, job : Jobs, expires : Nat]
  /\ IsFiniteSet(issued)
  /\ Cardinality(issued) = deliveries
  /\ \A g \in issued : g.id <= deliveries

\* The daemon works on a grant that was signed, for a stream that was opened.
DaemonLinked ==
  daemon.pc \in {"submit", "await"} => daemon.stream \in Streams /\ daemon.grant \in issued

LinkInv == RowsOK /\ IssuedOK /\ stream \in Seq(Ends(issued, Frames)) /\ DaemonLinked

\* The frames handle_job sends.
LEMMA FrameTypes ==
  ASSUME NEW j \in Jobs, NEW n \in {1, 2}, NEW state \in {"running", "succeeded", "failed"},
         NEW d \in Nat
  PROVE  /\ AckFrame(j, d) \in Frames
         /\ EventFrame(j, n, state) \in Frames
         /\ EventFrame(j, n, state).event.state = state
         /\ EventFrame(j, n, state).job = j
         /\ AckFrame(j, d).kind = "ack"
<1>1. AckFrame(j, d) \in Frames /\ AckFrame(j, d).kind = "ack"
  BY DEF AckFrame, Frames
<1> DEFINE e == [sequence |-> n, state |-> state, bytes |-> 0,
                 terminal |-> Store!IsTerminal(state), exit |-> IF state = "failed" THEN 1 ELSE 0]
<1>2. Store!IsTerminal(state) \in BOOLEAN
  BY DEF Store!IsTerminal
<1>3. n \in 0..(MaxJobEvents + 1) /\ state \in SP!JobStates /\ 0 \in EventBytes
  BY DEF MaxJobEvents, SP!JobStates, SP!Live, SP!Terminal, EventBytes
<1>4. e \in SP!ClientEvents /\ e.state = state
  BY <1>2, <1>3 DEF SP!ClientEvents
<1>5. EventFrame(j, n, state) = [kind |-> "event", job |-> j, event |-> e]
  BY DEF EventFrame
<1> HIDE DEF e
<1>6. EventFrame(j, n, state) \in Frames /\ EventFrame(j, n, state).event = e
      /\ EventFrame(j, n, state).job = j
  BY <1>4, <1>5 DEF Frames
<1> QED BY <1>1, <1>4, <1>6

\* The daemon reports and is free again.
LEMMA ReportSends ==
  ASSUME NEW I, NEW F, stream \in Seq(Ends(I, F)), daemon.stream \in Streams,
         NEW state, EventFrame(daemon.grant.job, 2, state) \in F, Report(state)
  PROVE  /\ stream' \in Seq(Ends(I, F)) /\ DOMAIN stream' = DOMAIN stream
         /\ daemon' = Idle
<1>0. << EventFrame(daemon.grant.job, 2, state) >> \in Seq(F)
  OBVIOUS
<1>1. PICK q \in Seq(F) : q = << EventFrame(daemon.grant.job, 2, state) >>
  BY <1>0
<1>2. stream' = Sending(daemon.stream, q) /\ daemon' = Idle
  BY <1>1 DEF Report
<1>3. /\ Sending(daemon.stream, q) \in Seq(Ends(I, F))
      /\ DOMAIN Sending(daemon.stream, q) = DOMAIN stream
  BY StreamSends
<1> QED BY <1>2, <1>3

\* A step that signs nothing and keeps the rows, the streams and the daemon in
\* order.
LEMMA LinkKeeps ==
  ASSUME LinkInv, RowsOK', UNCHANGED <<deliveries, issued>>,
         stream' \in Seq(Ends(issued, Frames)), DOMAIN stream \subseteq DOMAIN stream',
         \/ UNCHANGED daemon
         \/ daemon'.pc \in {"idle", "down"}
         \/ daemon'.stream \in DOMAIN stream /\ daemon'.grant \in issued
  PROVE  LinkInv'
<1>1. IssuedOK'
  BY DEF LinkInv, IssuedOK
<1>2. DaemonLinked'
  BY DEF LinkInv, DaemonLinked, Streams
<1>3. (stream \in Seq(Ends(issued, Frames)))'
  <2>1. Frames' = Frames
    BY DEF Frames
  <2>2. issued' = issued
    OBVIOUS
  <2> QED BY <2>1, <2>2 DEF Ends
<1> QED BY <1>1, <1>2, <1>3 DEF LinkInv

\* What the broker sees of a step that leaves it alone.
LEMMA BrokerAlone ==
  ASSUME UNCHANGED <<now, brokerSelf, issued>>, UNCHANGED BornAll
  PROVE  UNCHANGED BrokerOf!brokerVars
  BY DEF BrokerOf!brokerVars, brokerSelf, brokerDisk, BornAll

\* The broker is told of a job.
LEMMA LinkStartJob ==
  ASSUME LinkInv, NEW j \in Jobs, StartJob(j)
  PROVE  LinkInv' /\ (BrokerOf!CreateJob(j) \/ UNCHANGED BrokerOf!brokerVars) /\ NewlySucceeded = {}
<1>1. /\ RowsOK' /\ NewlySucceeded = {} /\ UNCHANGED <<now, deliveries>>
      /\ \/ UNCHANGED BornAll
         \/ BornAll[j] = NULL /\ BornAll' = [BornAll EXCEPT ![j] = now]
  BY TablesStart DEF LinkInv, StartJob
<1>2. UNCHANGED <<brokerSelf, issued, stream, daemon, daemonCrashes>>
  BY DEF StartJob, client
<1>3. LinkInv'
  BY <1>1, <1>2, LinkKeeps DEF LinkInv
<1>4. BrokerOf!CreateJob(j) \/ UNCHANGED BrokerOf!brokerVars
  <2>1. CASE UNCHANGED BornAll
    BY <1>1, <1>2, <2>1, BrokerAlone
  <2>2. CASE BornAll[j] = NULL /\ BornAll' = [BornAll EXCEPT ![j] = now]
    BY <1>1, <1>2, <2>2
    DEF BrokerOf!CreateJob, BrokerOf!NULL, NULL, Store!NULL, BornAll, BrokerOf!disk, brokerSelf,
        brokerDisk
  <2> QED BY <1>1, <2>1, <2>2
<1> QED BY <1>1, <1>3, <1>4

\* A delivery is a grant signed before the job's expiry.
LEMMA LinkHeartbeat ==
  ASSUME LinkInv, NEW s \in Streams, NEW j \in Jobs, HandleHeartbeat(s, j)
  PROVE  LinkInv' /\ BrokerOf!SignGrant(j) /\ NewlySucceeded = {}
<1>1. /\ RowsOK' /\ NewlySucceeded = {} /\ UNCHANGED BornAll /\ UNCHANGED now
      /\ deliveries' = deliveries + 1 /\ deliveries < MaxDeliveries
      /\ BornAll[j] # NULL /\ now < BornAll[j] + JobTTL
  BY TablesClaim DEF LinkInv, HandleHeartbeat
<1> DEFINE g == Store!NextGrant(j)
<1>2. /\ issued' = issued \union {g}
      /\ stream' = IF stream[s].connected
                   THEN [stream EXCEPT ![s].toClient = Append(@, g)] ELSE stream
      /\ UNCHANGED <<brokerSelf, daemon, daemonCrashes>>
  BY DEF HandleHeartbeat
<1>3. g = [id |-> deliveries + 1, job |-> j, expires |-> now + GrantValidity]
  BY DEF Store!NextGrant
<1>4. deliveries \in Nat /\ now \in Nat
  BY DEF LinkInv, RowsOK, SP!RowsTyped
<1>5. g \in [id : Nat, job : Jobs, expires : Nat] /\ g.id = deliveries + 1
  BY <1>3, <1>4, StoreConstants
<1>6. BrokerOf!SignGrant(j)
  <2>1. BrokerOf!Cardinality(issued) = deliveries
    BY SameCard DEF LinkInv, IssuedOK
  <2> QED
    BY <1>1, <1>2, <1>3, <2>1
    DEF BrokerOf!SignGrant, BrokerOf!NULL, NULL, Store!NULL, BornAll, BrokerOf!disk, brokerSelf,
        brokerDisk, MaxGrants
<1> HIDE DEF g
<1>7. IssuedOK'
  <2>1. g \notin issued
    BY <1>4, <1>5 DEF LinkInv, IssuedOK
  <2>2. IsFiniteSet(issued \union {g}) /\ Cardinality(issued \union {g}) = deliveries + 1
    BY <2>1, FS_AddElement DEF LinkInv, IssuedOK
  <2>3. issued \union {g} \subseteq [id : Nat, job : Jobs, expires : Nat]
    BY <1>5 DEF LinkInv, IssuedOK
  <2>4. \A h \in issued \union {g} : h.id <= deliveries + 1
    BY <1>4, <1>5 DEF LinkInv, IssuedOK
  <2> QED BY <1>1, <1>2, <2>2, <2>3, <2>4 DEF IssuedOK
<1>8. stream \in Seq(Ends(issued', Frames))
  BY <1>2, LinksGrow DEF LinkInv
<1>9. stream' \in Seq(Ends(issued', Frames)) /\ DOMAIN stream' = DOMAIN stream
  BY <1>2, <1>8, StreamGrants
<1>10. DaemonLinked'
  BY <1>2, <1>9 DEF LinkInv, DaemonLinked, Streams
<1>11. (stream \in Seq(Ends(issued, Frames)))'
  <2>1. Frames' = Frames
    BY DEF Frames
  <2> QED BY <1>9, <2>1 DEF Ends
<1> QED BY <1>1, <1>6, <1>7, <1>10, <1>11 DEF LinkInv

\* Streams open, break and are noticed to be gone.
LEMMA LinkStreams ==
  ASSUME LinkInv,
         \/ Connect
         \/ \E s \in Streams : Break(s) \/ ClientNotices(s) \/ ServerNotices(s)
  PROVE  LinkInv' /\ UNCHANGED BrokerOf!brokerVars /\ NewlySucceeded = {}
<1>1. CASE Connect
  <2>1. stream' \in Seq(Ends(issued, Frames)) /\ DOMAIN stream \subseteq DOMAIN stream'
    BY <1>1, StreamOpens DEF LinkInv
  <2>2. /\ UNCHANGED <<brokerSelf, issued, daemon>>
        /\ UNCHANGED <<now, job, events, deliveries, active, starts>>
        /\ capable' = capable \union {Client}
    BY <1>1 DEF Connect, Store!HandleClientHello
  <2>3. capable' \subseteq Clients /\ now' \in Nat
    BY <2>2 DEF LinkInv, RowsOK, SP!RowsTyped, Clients
  <2>4. RowsOK' /\ NewlySucceeded = {} /\ UNCHANGED BornAll
    BY <2>2, <2>3, TablesQuiet DEF LinkInv
  <2> QED BY <2>1, <2>2, <2>4, LinkKeeps, BrokerAlone
<1>2. ASSUME NEW s \in Streams, Break(s) \/ ClientNotices(s) \/ ServerNotices(s)
      PROVE  LinkInv' /\ UNCHANGED BrokerOf!brokerVars /\ NewlySucceeded = {}
  <2>0. stream \in Seq(Ends(issued, Frames))
    BY DEF LinkInv
  <2>1. stream' \in Seq(Ends(issued, Frames)) /\ DOMAIN stream' = DOMAIN stream
    BY <1>2, <2>0, StreamEndsMove
  <2>2. UNCHANGED <<now, store, brokerSelf, issued, daemon>>
    BY <1>2 DEF Break, ClientNotices, ServerNotices
  <2>3. capable' \subseteq Clients /\ now' \in Nat
    BY <2>2 DEF LinkInv, RowsOK, SP!RowsTyped, store
  <2>4. RowsOK' /\ NewlySucceeded = {} /\ UNCHANGED BornAll
    BY <2>2, <2>3, TablesQuiet DEF LinkInv, store
  <2> QED BY <2>1, <2>2, <2>4, LinkKeeps, BrokerAlone DEF store
<1> QED BY <1>1, <1>2

\* A frame of the client is handled, or ends its stream.
LEMMA LinkFrame ==
  ASSUME LinkInv, NEW s \in Streams, HandleClientFrame(s)
  PROVE  /\ LinkInv' /\ UNCHANGED BrokerOf!brokerVars
         /\ NewlySucceeded \subseteq
               {k \in Jobs : \E f \in Frames : /\ f = Head(stream[s].toServer) /\ f.job = k
                                               /\ f.kind = "event" /\ f.event.state = "succeeded"}
<1> DEFINE f == Head(stream[s].toServer)
<1>1. stream \in Seq(Ends(issued, Frames))
  BY DEF LinkInv
<1>2. stream[s] \in Ends(issued, Frames)
  BY <1>1, LenProperties, ElementOfSeq DEF Streams
<1>3. stream[s].toServer \in Seq(Frames) /\ stream[s].toServer # << >>
  BY <1>2 DEF Ends, HandleClientFrame
<1>4. f \in Frames
  BY <1>3, HeadTailProperties
<1>5. UNCHANGED <<brokerSelf, issued, daemon>>
  BY DEF HandleClientFrame
<1>6. ServerCloses(s) \/ Consumed(s)
  BY DEF HandleClientFrame
<1>7. stream' \in Seq(Ends(issued, Frames)) /\ DOMAIN stream' = DOMAIN stream
  BY <1>1, <1>3, <1>6, StreamEndsMove
<1>8. \/ UNCHANGED <<now, store>>
      \/ f.kind = "ack" /\ Store!AcknowledgeJobDelivery(Client, f.job, f.delivery)
      \/ f.kind # "ack" /\ Store!PersistJobEvent(Client, f.job, f.event)
  BY DEF HandleClientFrame
<1>9. f.job \in Jobs /\ (f.kind # "ack" => f.kind = "event" /\ f.event \in SP!ClientEvents)
  BY <1>4 DEF Frames
<1>10. RowsOK
  BY DEF LinkInv
<1> HIDE DEF f
<1>11. /\ RowsOK' /\ UNCHANGED BornAll /\ UNCHANGED <<now, deliveries>>
       /\ NewlySucceeded \subseteq {k \in {f.job} : f.kind = "event" /\ f.event.state = "succeeded"}
  <2>1. CASE UNCHANGED <<now, store>>
    <3>1. capable' \subseteq Clients /\ now' \in Nat
      BY <1>10, <2>1 DEF RowsOK, SP!RowsTyped, store
    <3> QED BY <1>10, <2>1, <3>1, TablesQuiet DEF store
  <2>2. CASE f.kind = "ack" /\ Store!AcknowledgeJobDelivery(Client, f.job, f.delivery)
    BY <1>9, <1>10, <2>2, TablesAcknowledge
  <2>3. CASE f.kind # "ack" /\ Store!PersistJobEvent(Client, f.job, f.event)
    BY <1>9, <1>10, <2>3, TablesPersist
  <2> QED BY <1>8, <2>1, <2>2, <2>3
<1>12. LinkInv' /\ UNCHANGED BrokerOf!brokerVars
  BY <1>5, <1>7, <1>11, LinkKeeps, BrokerAlone
<1> QED BY <1>4, <1>9, <1>11, <1>12 DEF f

\* The grant that the daemon takes from a stream.
LEMMA HeadGrant ==
  ASSUME LinkInv, NEW s \in Streams, HandleJob(s)
  PROVE  LET g == Head(stream[s].toClient) IN g \in issued /\ g.job \in Jobs /\ g.id \in Nat
<1> DEFINE g == Head(stream[s].toClient)
<1>1. stream \in Seq(Ends(issued, Frames)) /\ issued \subseteq [id : Nat, job : Jobs, expires : Nat]
  BY DEF LinkInv, IssuedOK
<1>2. stream[s] \in Ends(issued, Frames)
  BY <1>1, LenProperties, ElementOfSeq DEF Streams
<1>3. stream[s].toClient \in Seq(issued) /\ stream[s].toClient # << >>
  BY <1>2 DEF Ends, HandleJob
<1>4. g \in issued
  BY <1>3, HeadTailProperties
<1>5. g.job \in Jobs /\ g.id \in Nat
  BY <1>1, <1>4
<1> QED BY <1>4, <1>5

\* The daemon takes a delivery.
LEMMA LinkHandleJob ==
  ASSUME LinkInv, NEW s \in Streams, HandleJob(s)
  PROVE  LinkInv' /\ UNCHANGED BrokerOf!brokerVars /\ NewlySucceeded = {}
<1> DEFINE g == Head(stream[s].toClient)
<1>1. stream \in Seq(Ends(issued, Frames))
  BY DEF LinkInv
<1>2. g \in issued /\ g.job \in Jobs /\ g.id \in Nat
  BY HeadGrant
<1>3. AckFrame(g.job, g.id) \in Frames /\ EventFrame(g.job, 1, "running") \in Frames
  BY <1>2, FrameTypes
<1>4. stream' \in Seq(Ends(issued, Frames)) /\ DOMAIN stream' = DOMAIN stream
  BY <1>1, <1>3, StreamDelivers
<1>5. UNCHANGED <<now, store, brokerSelf, issued>>
  BY DEF HandleJob
<1>6. UNCHANGED daemon \/ daemon' = [pc |-> "submit", stream |-> s, grant |-> g]
  BY DEF HandleJob
<1>7. RowsOK' /\ NewlySucceeded = {} /\ UNCHANGED BornAll
  <2>1. capable' \subseteq Clients /\ now' \in Nat /\ RowsOK
    BY <1>5 DEF LinkInv, RowsOK, SP!RowsTyped, store
  <2> QED BY <1>5, <2>1, TablesQuiet DEF store
<1>8. UNCHANGED daemon \/ (daemon'.stream \in DOMAIN stream /\ daemon'.grant \in issued)
  BY <1>2, <1>6 DEF Streams
<1> QED BY <1>4, <1>5, <1>7, <1>8, LinkKeeps, BrokerAlone DEF store

\* The sweep, and a daemon that starts or dies.
LEMMA LinkOthers ==
  ASSUME LinkInv, Maintenance \/ DaemonStart \/ DaemonCrash
  PROVE  LinkInv' /\ UNCHANGED BrokerOf!brokerVars /\ NewlySucceeded = {}
<1>1. stream \in Seq(Ends(issued, Frames)) /\ RowsOK
  BY DEF LinkInv
<1>2. CASE Maintenance
  <2>1. RowsOK' /\ NewlySucceeded = {} /\ UNCHANGED BornAll /\ UNCHANGED <<now, deliveries>>
    BY <1>1, <1>2, TablesSweep DEF Maintenance
  <2>2. UNCHANGED <<brokerSelf, issued, stream, daemon>>
    BY <1>2 DEF Maintenance, client
  <2> QED BY <1>1, <2>1, <2>2, LinkKeeps, BrokerAlone
<1>3. CASE DaemonStart \/ DaemonCrash
  <2>1. UNCHANGED <<now, store, brokerSelf, issued>> /\ daemon' \in {Idle, Offline}
    BY <1>3 DEF DaemonStart, DaemonCrash
  <2>2. daemon'.pc \in {"idle", "down"}
    BY <2>1 DEF Idle, Offline
  <2>3. stream' \in Seq(Ends(issued, Frames)) /\ DOMAIN stream' = DOMAIN stream
    BY <1>1, <1>3, StreamsDie DEF DaemonStart
  <2>4. RowsOK' /\ NewlySucceeded = {} /\ UNCHANGED BornAll
    <3>1. capable' \subseteq Clients /\ now' \in Nat
      BY <1>1, <2>1 DEF RowsOK, SP!RowsTyped, store
    <3> QED BY <1>1, <2>1, <3>1, TablesQuiet DEF store
  <2> QED BY <2>1, <2>2, <2>3, <2>4, LinkKeeps, BrokerAlone DEF store
<1> QED BY <1>2, <1>3

\* The broker or the clock moves, and the daemon may report.
LEMMA LinkMoves ==
  ASSUME LinkInv, UNCHANGED <<store, issued>>, now' \in Nat,
         \/ UNCHANGED <<stream, daemon>>
         \/ /\ daemon.pc \in {"submit", "await"}
            /\ \E state \in {"succeeded", "failed"} : Report(state)
         \/ /\ UNCHANGED stream
            /\ daemon'.stream \in Streams /\ daemon'.grant \in issued
  PROVE  LinkInv' /\ NewlySucceeded = {} /\ UNCHANGED BornAll
<1>1. stream \in Seq(Ends(issued, Frames)) /\ RowsOK
  BY DEF LinkInv
<1>2. RowsOK' /\ NewlySucceeded = {} /\ UNCHANGED BornAll
  <2>1. capable' \subseteq Clients
    BY <1>1 DEF RowsOK, SP!RowsTyped, store
  <2> QED BY <1>1, <2>1, TablesQuiet DEF store
<1>3. CASE UNCHANGED <<stream, daemon>>
  BY <1>1, <1>2, <1>3, LinkKeeps DEF store
<1>4. ASSUME daemon.pc \in {"submit", "await"}, NEW state \in {"succeeded", "failed"}, Report(state)
      PROVE  LinkInv'
  <2>1. daemon.stream \in Streams /\ daemon.grant \in issued
    BY <1>4 DEF LinkInv, DaemonLinked
  <2>2. daemon.grant.job \in Jobs
    BY <2>1 DEF LinkInv, IssuedOK
  <2>3. EventFrame(daemon.grant.job, 2, state) \in Frames
    BY <2>2, FrameTypes
  <2>4. /\ stream' \in Seq(Ends(issued, Frames)) /\ DOMAIN stream' = DOMAIN stream
        /\ daemon' = Idle
    BY <1>1, <1>4, <2>1, <2>3, ReportSends
  <2>5. daemon'.pc = "idle"
    BY <2>4 DEF Idle
  <2> QED BY <1>2, <2>4, <2>5, LinkKeeps DEF store
<1>5. CASE UNCHANGED stream /\ daemon'.stream \in Streams /\ daemon'.grant \in issued
  BY <1>1, <1>2, <1>5, LinkKeeps DEF store, Streams
<1> QED BY <1>2, <1>3, <1>4, <1>5

\* The round trip to the broker begins, or fails.
LEMMA LinkSubmit ==
  ASSUME LinkInv, (\E w \in Workers : Submit(w)) \/ SubmitFails
  PROVE  /\ LinkInv' /\ NewlySucceeded = {}
         /\ BrokerOf!Next \/ UNCHANGED BrokerOf!brokerVars
<1>0. now \in Nat
  BY DEF LinkInv, RowsOK, SP!RowsTyped
<1>1. ASSUME NEW w \in Workers, Submit(w) PROVE LinkInv' /\ NewlySucceeded = {} /\ BrokerOf!Next
  <2>1. /\ UNCHANGED <<store, issued, stream>>
        /\ daemon.pc = "submit"
        /\ BrokerOf!Accept(w, daemon.grant, TRUE)
        /\ daemon' = [pc |-> "await", stream |-> daemon.stream, grant |-> daemon.grant,
                      worker |-> w, since |-> now]
    BY <1>1 DEF Submit
  <2>2. daemon.stream \in Streams /\ daemon.grant \in issued
    BY <2>1 DEF LinkInv, DaemonLinked
  <2>3. now' = now
    BY <2>1 DEF BrokerOf!Accept
  <2>4. daemon'.stream \in Streams /\ daemon'.grant \in issued
    BY <2>1, <2>2
  <2>5. LinkInv' /\ NewlySucceeded = {}
    BY <1>0, <2>1, <2>3, <2>4, LinkMoves
  <2>6. BrokerOf!Next
    BY <2>1, <2>2 DEF BrokerOf!Next
  <2> QED BY <2>5, <2>6
<1>2. ASSUME SubmitFails
      PROVE  LinkInv' /\ NewlySucceeded = {} /\ UNCHANGED BrokerOf!brokerVars
  <2>1. /\ UNCHANGED <<now, store, brokerSelf, issued>>
        /\ daemon.pc \in {"submit", "await"} /\ Report("failed")
    BY <1>2 DEF SubmitFails
  <2>2. LinkInv' /\ NewlySucceeded = {} /\ UNCHANGED BornAll
    BY <1>0, <2>1, LinkMoves
  <2> QED BY <2>1, <2>2, BrokerAlone
<1> QED BY <1>1, <1>2

\* The broker serves, answers, dies and is restarted, and time passes.
LEMMA LinkBroker ==
  ASSUME LinkInv,
         \/ \E w \in Workers : BrokerWorks(w) \/ BrokerAnswers(w)
         \/ \E within \in BrokerOf!Within, kept \in SUBSET ledger : BrokerCrash(within, kept)
         \/ BrokerRestart \/ Tick
  PROVE  LinkInv' /\ NewlySucceeded = {} /\ BrokerOf!Next
<1>0. now \in Nat
  BY DEF LinkInv, RowsOK, SP!RowsTyped
<1>1. ASSUME NEW w \in Workers, BrokerWorks(w) PROVE LinkInv' /\ NewlySucceeded = {} /\ BrokerOf!Next
  <2>1. UNCHANGED <<store, issued, stream, daemon>>
    BY <1>1 DEF BrokerWorks, client
  <2>2. BrokerOf!Serve(w)
    BY <1>1 DEF BrokerWorks, BrokerOf!Serve
  <2>3. now' = now
    BY <1>1 DEF BrokerWorks, BrokerOf!VerifyAndConsume, BrokerOf!RecordConsumedGrant,
       BrokerOf!RecoverTornFinalRecord, BrokerOf!RecoveryFails,
       BrokerOf!LookupFirst, BrokerOf!TakeLock, BrokerOf!MarkExecuting, BrokerOf!StartRun,
       BrokerOf!FinishRun, BrokerOf!RecordCompleted
  <2> QED BY <1>0, <2>1, <2>2, <2>3, LinkMoves DEF BrokerOf!Next
<1>2. ASSUME NEW w \in Workers, BrokerAnswers(w)
      PROVE  LinkInv' /\ NewlySucceeded = {} /\ BrokerOf!Next
  <2>1. UNCHANGED <<store, issued>> /\ BrokerOf!Respond(w)
    BY <1>2 DEF BrokerAnswers
  <2>2. \/ UNCHANGED <<stream, daemon>>
        \/ daemon.pc = "await" /\ \E state \in {"succeeded", "failed"} : Report(state)
    BY <1>2 DEF BrokerAnswers, Awaited
  <2>3. now' = now /\ BrokerOf!Serve(w)
    BY <2>1 DEF BrokerOf!Respond, BrokerOf!Serve
  <2> QED BY <1>0, <2>1, <2>2, <2>3, LinkMoves DEF BrokerOf!Next
<1>3. ASSUME NEW x \in BrokerOf!Within, NEW kept \in SUBSET ledger, BrokerCrash(x, kept)
      PROVE  LinkInv' /\ NewlySucceeded = {} /\ BrokerOf!Next
  <2>1. UNCHANGED <<store, issued>> /\ BrokerOf!Crash(x, kept)
    BY <1>3 DEF BrokerCrash
  <2>2. \/ UNCHANGED <<stream, daemon>>
        \/ daemon.pc = "await" /\ \E state \in {"succeeded", "failed"} : Report(state)
    BY <1>3 DEF BrokerCrash
  <2>3. now' = now
    BY <2>1 DEF BrokerOf!Crash
  <2> QED BY <1>0, <2>1, <2>2, <2>3, LinkMoves DEF BrokerOf!Next
<1>4. ASSUME BrokerRestart \/ Tick PROVE LinkInv' /\ NewlySucceeded = {} /\ BrokerOf!Next
  <2>1. UNCHANGED <<store, issued, stream, daemon>> /\ (BrokerOf!Restart \/ BrokerOf!Tick)
    BY <1>4 DEF BrokerRestart, Tick, client
  <2>2. now' \in Nat
    BY <1>0, <2>1 DEF BrokerOf!Restart, BrokerOf!Tick
  <2> QED BY <2>1, <2>2, LinkMoves DEF BrokerOf!Next
<1> QED BY <1>1, <1>2, <1>3, <1>4

\* Nothing was created, signed or sent before the server started.
LEMMA LinkInit == Init => LinkInv
<1> SUFFICES ASSUME Init PROVE LinkInv
  OBVIOUS
<1>1. Store!Init /\ BrokerOf!Init /\ stream = << >> /\ daemon = Idle
  BY DEF Init
<1>2. SP!Init
  BY <1>1 DEF Store!Init, SP!Init, Store!AbsentRow, SP!AbsentRow, Store!NULL, SP!NULL
<1>3. SP!StoreInv
  BY <1>2, StoreConstants, SP!InitHolds
<1>4. RowsOK
  <2>1. SP!RowsTyped
    BY <1>3, StoreConstants, SP!InvParts
  <2>2. \A j \in Jobs : job[j].state = "absent"
    BY <1>1 DEF Store!Init, Store!AbsentRow
  <2> QED BY <2>1, <2>2 DEF RowsOK
<1>5. IssuedOK
  <2>1. issued = {} /\ deliveries = 0
    BY <1>1 DEF BrokerOf!Init, Store!Init
  <2> QED BY <2>1, FS_EmptySet DEF IssuedOK
<1>6. stream \in Seq(Ends(issued, Frames))
  BY <1>1, EmptySeq
<1>7. DaemonLinked
  BY <1>1 DEF DaemonLinked, Idle
<1> QED BY <1>4, <1>5, <1>6, <1>7 DEF LinkInv

\* Frame f reports that job k succeeded.
ReportsSuccess(f, k) == f.kind = "event" /\ f.event.state = "succeeded" /\ f.job = k

\* The server calls job k succeeded when such a frame is handled.
ToldOf(k) ==
  \E s \in Streams : HandleClientFrame(s) /\ ReportsSuccess(Head(stream[s].toServer), k)

\* Every step of the pipeline is a step of the broker's specification, or none;
\* and what it calls succeeded, a frame reported.
LEMMA LinkNext ==
  ASSUME LinkInv, [Next]_vars
  PROVE  /\ LinkInv'
         /\ BrokerOf!Next \/ UNCHANGED BrokerOf!brokerVars
         /\ \A k \in NewlySucceeded : ToldOf(k)
<1> DEFINE Goal == /\ LinkInv'
                   /\ BrokerOf!Next \/ UNCHANGED BrokerOf!brokerVars
                   /\ \A k \in NewlySucceeded : ToldOf(k)
<1>1. ASSUME NEW j \in Jobs, StartJob(j) PROVE Goal
  BY <1>1, LinkStartJob DEF BrokerOf!Next
<1>2. ASSUME NEW s \in Streams, NEW j \in Jobs, HandleHeartbeat(s, j) PROVE Goal
  BY <1>2, LinkHeartbeat DEF BrokerOf!Next
<1>3. ASSUME UNCHANGED vars PROVE Goal
  <2>1. UNCHANGED <<now, store, brokerSelf, issued, stream, daemon>>
    BY <1>3 DEF vars, client
  <2>2. now' \in Nat
    BY <2>1 DEF LinkInv, RowsOK, SP!RowsTyped
  <2>3. LinkInv' /\ UNCHANGED BornAll /\ NewlySucceeded = {}
    BY <2>1, <2>2, LinkMoves
  <2> QED BY <2>1, <2>3, BrokerAlone
<1>4. ASSUME NEW s \in Streams, HandleClientFrame(s) PROVE Goal
  <2>1. LinkInv' /\ UNCHANGED BrokerOf!brokerVars
    BY <1>4, LinkFrame
  <2>2. ASSUME NEW k \in NewlySucceeded PROVE ToldOf(k)
    BY <1>4, LinkFrame DEF ToldOf, ReportsSuccess
  <2> QED BY <2>1, <2>2
<1>5. ASSUME \/ Connect
             \/ \E s \in Streams : \/ Break(s) \/ ClientNotices(s) \/ ServerNotices(s)
                                   \/ HandleJob(s)
             \/ Maintenance \/ DaemonStart \/ DaemonCrash
      PROVE  Goal
  BY <1>5, LinkStreams, LinkHandleJob, LinkOthers
<1>6. ASSUME \/ \E w \in Workers : Submit(w) \/ BrokerWorks(w) \/ BrokerAnswers(w)
             \/ SubmitFails
             \/ \E within \in BrokerOf!Within, kept \in SUBSET ledger : BrokerCrash(within, kept)
             \/ BrokerRestart \/ Tick
      PROVE  Goal
  BY <1>6, LinkSubmit, LinkBroker
<1> HIDE DEF Goal
<1>7. Goal
  BY <1>1, <1>2, <1>3, <1>4, <1>5, <1>6 DEF Next
<1> QED BY <1>7 DEF Goal

\* The tables, the streams and the daemon, with all their faults, give the
\* broker the server its specification describes: the composition implements
\* that specification, whatever the constants are.
THEOREM PipelineImplementsBroker == Spec => ImplementsBroker
<1>1. Init => LinkInv /\ BrokerOf!Init
  BY LinkInit DEF Init
<1>2. LinkInv /\ [Next]_vars =>
         LinkInv' /\ [UNCHANGED BrokerOf!brokerVars \/ BrokerOf!Next]_(BrokerOf!brokerVars)
  BY LinkNext
<1> QED BY <1>1, <1>2, PTL DEF Spec, ImplementsBroker

\* What the broker's proofs say of its specification holds of the pipeline.
LEMMA BrokerKeeps ==
  ASSUME LinkInv, BP!BrokerInv, BP!Truth, [Next]_vars
  PROVE  /\ BP!BrokerInv' /\ BP!Truth'
         /\ \A j \in Jobs : BP!Succeeded(j) => BP!Succeeded(j)'
<1>1. [BP!Next]_(BP!brokerVars)
  BY LinkNext, SameNext, SameVars
<1>2. BP!BrokerInv' /\ BP!Truth'
  BY <1>1, BrokerConstants, BP!NextBrokerInv, BP!NextTruth
<1>3. \A j \in Jobs : BP!Succeeded(j) => BP!Succeeded(j)'
  BY <1>1, BrokerConstants, BP!SuccessStands
<1> QED BY <1>2, <1>3

\* Whatever the server, the network and the daemon do, no operation is entered
\* twice for one job, unless the broker's ledger lost the job's record or, where
\* the retention does not cover the life of requests, the job is older than it.
THEOREM PipelineAtMostOnce == Spec => []BrokerOf!AtMostOnce
<1> DEFINE I == LinkInv /\ BP!BrokerInv /\ BP!Truth
<1>1. Init => I
  <2>1. Init => BP!Init
    BY SameInit DEF Init
  <2> QED BY <2>1, LinkInit, BrokerConstants, BP!InitBrokerInv, BP!InitTruth
<1>2. I /\ [Next]_vars => I'
  BY LinkNext, BrokerKeeps
<1>3. I => BrokerOf!AtMostOnce
  <2>1. I => \A j \in Jobs : runs[j] <= 1 \/ BP!Excused(j)
    BY DEF BP!BrokerInv, BP!AtMostOnce
  <2> QED BY <2>1, SameExcuse DEF BrokerOf!AtMostOnce
<1> HIDE DEF I
<1> QED BY <1>1, <1>2, <1>3, PTL DEF Spec

-----------------------------------------------------------------------------
\* What the server is told is true.

\* Frames that call a job succeeded only if it did succeed.
TrueFrames == {f \in Frames : \A k \in Jobs : ReportsSuccess(f, k) => BP!Succeeded(k)}

\* The worker the daemon waits for serves the grant that the daemon submitted.
AwaitOK ==
  daemon.pc = "await" =>
     /\ daemon.worker \in Workers
     /\ thread[daemon.worker].pc # "idle"
     /\ thread[daemon.worker].grant = daemon.grant

RowsTrue == \A j \in Jobs : job[j].state = "succeeded" => BP!Succeeded(j)

StreamsTrue == stream \in Seq(Ends(issued, TrueFrames))

TruthInv == LinkInv /\ BP!BrokerInv /\ BP!Truth /\ StreamsTrue /\ AwaitOK /\ RowsTrue

\* Acknowledgements, and events of other states, say nothing of success.
LEMMA PlainFrames ==
  ASSUME NEW j \in Jobs, NEW d \in Nat
  PROVE  /\ AckFrame(j, d) \in TrueFrames
         /\ EventFrame(j, 1, "running") \in TrueFrames
         /\ EventFrame(j, 2, "failed") \in TrueFrames
<1>1. AckFrame(j, d) \in Frames /\ AckFrame(j, d).kind = "ack"
  BY FrameTypes
<1>2. EventFrame(j, 1, "running") \in Frames /\ EventFrame(j, 1, "running").event.state = "running"
  BY FrameTypes
<1>3. EventFrame(j, 2, "failed") \in Frames /\ EventFrame(j, 2, "failed").event.state = "failed"
  BY FrameTypes
<1> QED BY <1>1, <1>2, <1>3 DEF TrueFrames, ReportsSuccess

\* The report of a job that succeeded.
LEMMA SuccessFrame ==
  ASSUME NEW j \in Jobs, BP!Succeeded(j)
  PROVE  EventFrame(j, 2, "succeeded") \in TrueFrames
<1>1. EventFrame(j, 2, "succeeded") \in Frames /\ EventFrame(j, 2, "succeeded").job = j
  BY FrameTypes
<1> QED BY <1>1 DEF TrueFrames, ReportsSuccess

\* True frames stay true.
LEMMA TrueFramesGrow ==
  ASSUME \A j \in Jobs : BP!Succeeded(j) => BP!Succeeded(j)'
  PROVE  TrueFrames \subseteq TrueFrames'
<1>1. Frames' = Frames
  BY DEF Frames
<1> QED BY <1>1 DEF TrueFrames, ReportsSuccess

\* What is told was true.
LEMMA ToldTrue ==
  ASSUME TruthInv, NEW k \in Jobs, ToldOf(k)
  PROVE  BP!Succeeded(k)
<1>1. PICK s \in Streams : HandleClientFrame(s) /\ ReportsSuccess(Head(stream[s].toServer), k)
  BY DEF ToldOf
<1>2. stream[s] \in Ends(issued, TrueFrames)
  BY LenProperties, ElementOfSeq DEF Streams, TruthInv, StreamsTrue
<1>3. stream[s].toServer \in Seq(TrueFrames) /\ stream[s].toServer # << >>
  BY <1>1, <1>2 DEF Ends, HandleClientFrame
<1>4. Head(stream[s].toServer) \in TrueFrames
  BY <1>3, HeadTailProperties
<1> QED BY <1>1, <1>4 DEF TrueFrames

\* The answer that the daemon passes on.
LEMMA AnswerTrue ==
  ASSUME TruthInv, NEW w \in Workers, BrokerAnswers(w), Awaited(w)
  PROVE  /\ daemon.stream \in Streams /\ daemon.grant.job \in Jobs
         /\ \/ Report("failed")
            \/ Report("succeeded") /\ BP!Succeeded(daemon.grant.job)
<1>1. daemon.pc = "await" /\ daemon.worker = w
  BY DEF Awaited
<1>2. daemon.stream \in Streams /\ daemon.grant.job \in Jobs
  BY <1>1 DEF TruthInv, LinkInv, DaemonLinked, IssuedOK
<1>3. thread[w].grant = daemon.grant
  BY <1>1 DEF TruthInv, AwaitOK
<1>4. thread[w].pc = "reply"
  BY DEF BrokerAnswers, BrokerOf!Respond
<1>5. thread[w].reply = "success" => BP!Succeeded(daemon.grant.job)
  BY <1>3, <1>4 DEF TruthInv, BP!Truth, BP!RequestTrue, BP!Succeeded
<1>6. Report(IF thread[w].reply = "success" THEN "succeeded" ELSE "failed")
  BY DEF BrokerAnswers
<1> QED BY <1>2, <1>5, <1>6

\* Nothing false is put on a stream.
LEMMA StreamsStayTrue ==
  ASSUME TruthInv, [Next]_vars, TrueFrames \subseteq TrueFrames'
  PROVE  StreamsTrue'
<1> DEFINE I == issued'
           F == TrueFrames'
<1>0. issued \subseteq issued'
  BY DEF Next, StartJob, HandleHeartbeat, Break, ClientNotices, ServerNotices, HandleClientFrame,
         HandleJob, Maintenance, Connect, Submit, BrokerWorks, BrokerAnswers, SubmitFails,
         DaemonCrash, DaemonStart, BrokerCrash, BrokerRestart, Tick, vars
<1>1. stream \in Seq(Ends(I, F))
  BY <1>0, LinksGrow DEF TruthInv, StreamsTrue
<1>2. SUFFICES stream' \in Seq(Ends(I, F))
  BY DEF StreamsTrue, Ends
<1>3. \A j \in Jobs, d \in Nat : AckFrame(j, d) \in F /\ EventFrame(j, 1, "running") \in F
                                                      /\ EventFrame(j, 2, "failed") \in F
  BY PlainFrames
<1>4. \A j \in Jobs : BP!Succeeded(j) => EventFrame(j, 2, "succeeded") \in F
  BY SuccessFrame
<1>5. daemon.pc \in {"submit", "await"} => daemon.stream \in Streams /\ daemon.grant.job \in Jobs
  BY DEF TruthInv, LinkInv, DaemonLinked, IssuedOK
<1> HIDE DEF I, F
<1>6. ASSUME daemon.pc \in {"submit", "await"}, Report("failed")
      PROVE  stream' \in Seq(Ends(I, F))
  <2>1. EventFrame(daemon.grant.job, 2, "failed") \in F
    BY <1>3, <1>5, <1>6
  <2> QED BY <1>1, <1>5, <1>6, <2>1, ReportSends
<1>7. ASSUME UNCHANGED stream PROVE stream' \in Seq(Ends(I, F))
  BY <1>1, <1>7
<1>8. ASSUME NEW s \in Streams, NEW j \in Jobs, HandleHeartbeat(s, j)
      PROVE  stream' \in Seq(Ends(I, F))
  <2>1. Store!NextGrant(j) \in I
    BY <1>8 DEF HandleHeartbeat, I
  <2> QED BY <1>1, <1>8, <2>1, StreamGrants DEF HandleHeartbeat
<1>9. ASSUME NEW s \in Streams, \/ Break(s) \/ ClientNotices(s) \/ ServerNotices(s)
                                \/ HandleClientFrame(s)
      PROVE  stream' \in Seq(Ends(I, F))
  <2>1. HandleClientFrame(s) => (ServerCloses(s) \/ Consumed(s)) /\ stream[s].toServer # << >>
    BY DEF HandleClientFrame
  <2> QED BY <1>1, <1>9, <2>1, StreamEndsMove
<1>10. ASSUME NEW s \in Streams, HandleJob(s) PROVE stream' \in Seq(Ends(I, F))
  <2> DEFINE g == Head(stream[s].toClient)
  <2>1. g.job \in Jobs /\ g.id \in Nat
    BY <1>10, HeadGrant DEF TruthInv
  <2>2. AckFrame(g.job, g.id) \in F /\ EventFrame(g.job, 1, "running") \in F
    BY <1>3, <2>1
  <2> QED BY <1>1, <1>10, <2>2, StreamDelivers
<1>11. ASSUME Connect \/ DaemonCrash PROVE stream' \in Seq(Ends(I, F))
  BY <1>1, <1>11, StreamOpens, StreamsDie
<1>12. ASSUME NEW w \in Workers, BrokerAnswers(w) PROVE stream' \in Seq(Ends(I, F))
  <2>1. CASE Awaited(w)
    <3>1. CASE Report("failed")
      BY <1>6, <2>1, <3>1 DEF Awaited
    <3>2. CASE Report("succeeded") /\ BP!Succeeded(daemon.grant.job)
      <4>1. daemon.stream \in Streams /\ EventFrame(daemon.grant.job, 2, "succeeded") \in F
        BY <1>4, <1>12, <2>1, <3>2, AnswerTrue
      <4> QED BY <1>1, <3>2, <4>1, ReportSends
    <3> QED BY <1>12, <2>1, <3>1, <3>2, AnswerTrue
  <2>2. CASE ~Awaited(w)
    BY <1>7, <1>12, <2>2 DEF BrokerAnswers
  <2> QED BY <2>1, <2>2
<1>13. ASSUME \/ SubmitFails
              \/ \E within \in BrokerOf!Within, kept \in SUBSET ledger : BrokerCrash(within, kept)
       PROVE  stream' \in Seq(Ends(I, F))
  BY <1>6, <1>7, <1>13 DEF SubmitFails, BrokerCrash
<1>14. ASSUME \/ \E j \in Jobs : StartJob(j)
              \/ Maintenance
              \/ \E w \in Workers : Submit(w) \/ BrokerWorks(w)
              \/ DaemonStart \/ BrokerRestart \/ Tick \/ UNCHANGED vars
       PROVE  stream' \in Seq(Ends(I, F))
  BY <1>7, <1>14 DEF StartJob, Maintenance, Submit, BrokerWorks, DaemonStart, BrokerRestart, Tick,
                     vars, client
<1> QED
  BY <1>8, <1>9, <1>10, <1>11, <1>12, <1>13, <1>14 DEF Next

\* A waiting daemon keeps the worker it waits for until it has the answer, the
\* connection ends, or it gives up.
LEMMA AwaitKept ==
  ASSUME TruthInv, [Next]_vars
  PROVE  AwaitOK'
<1>0. AwaitOK /\ BP!BrokerInv
  BY DEF TruthInv
<1>1. ASSUME daemon'.pc # "await" PROVE AwaitOK'
  BY <1>1 DEF AwaitOK
<1>2. ASSUME UNCHANGED <<thread, daemon>> PROVE AwaitOK'
  BY <1>0, <1>2 DEF AwaitOK
<1>3. ASSUME NEW state, Report(state) PROVE AwaitOK'
  <2>1. daemon'.pc = "idle"
    BY <1>3 DEF Report, Idle
  <2> QED BY <1>1, <2>1
<1>4. thread \in [Workers -> BP!Requests \union {BP!Idle}]
  BY <1>0 DEF BP!BrokerInv, BP!TypeOK
<1>5. ASSUME NEW w \in Workers, Submit(w) PROVE AwaitOK'
  <2>1. /\ BrokerOf!Accept(w, daemon.grant, TRUE)
        /\ daemon' = [pc |-> "await", stream |-> daemon.stream, grant |-> daemon.grant,
                      worker |-> w, since |-> now]
    BY <1>5 DEF Submit
  <2>2. thread'[w].pc = "verify" /\ thread'[w].grant = daemon.grant
    BY <1>4, <2>1 DEF BrokerOf!Accept
  <2>3. daemon'.worker = w /\ daemon'.grant = daemon.grant
    BY <2>1
  <2> QED BY <2>2, <2>3 DEF AwaitOK
<1>6. ASSUME NEW w \in Workers, BrokerWorks(w) PROVE AwaitOK'
  <2>1. UNCHANGED daemon
    BY <1>6 DEF BrokerWorks, client
  <2>2. BrokerOf!Serve(w) /\ thread[w].pc # "reply"
    BY <1>6 DEF BrokerWorks, BrokerOf!Serve, BrokerOf!VerifyAndConsume,
       BrokerOf!RecordConsumedGrant, BrokerOf!RecoverTornFinalRecord, BrokerOf!RecoveryFails,
       BrokerOf!Reading, BrokerOf!LookupFirst, BrokerOf!TakeLock, BrokerOf!MarkExecuting,
       BrokerOf!StartRun, BrokerOf!FinishRun, BrokerOf!RecordCompleted
  <2>3. BP!Serve(w)
    BY <2>2, SameServe
  <2>4. ASSUME NEW v \in Workers, thread[v].pc # "idle"
        PROVE  thread'[v].pc # "idle" /\ thread'[v].grant = thread[v].grant
    BY <1>0, <2>2, <2>3, <2>4, BrokerConstants, BP!RequestStays
  <2> QED BY <1>0, <2>1, <2>4 DEF AwaitOK
<1>7. ASSUME NEW w \in Workers, BrokerAnswers(w) PROVE AwaitOK'
  <2>1. CASE Awaited(w)
    BY <1>3, <1>7, <2>1 DEF BrokerAnswers
  <2>2. CASE ~Awaited(w)
    <3>1. UNCHANGED daemon /\ \E q : thread' = [thread EXCEPT ![w] = q]
      BY <1>7, <2>2 DEF BrokerAnswers, BrokerOf!Respond
    <3>2. daemon.pc = "await" => thread'[daemon.worker] = thread[daemon.worker]
      BY <1>0, <1>4, <2>2, <3>1 DEF AwaitOK, Awaited
    <3> QED BY <1>0, <3>1, <3>2 DEF AwaitOK
  <2> QED BY <2>1, <2>2
<1>8. ASSUME NEW within \in BrokerOf!Within, NEW kept \in SUBSET ledger, BrokerCrash(within, kept)
      PROVE  AwaitOK'
  <2>1. CASE daemon.pc = "await"
    BY <1>0, <1>3, <1>8, <2>1 DEF BrokerCrash, AwaitOK
  <2>2. CASE daemon.pc # "await"
    BY <1>1, <1>8, <2>2 DEF BrokerCrash
  <2> QED BY <2>1, <2>2
<1>9. ASSUME NEW s \in Streams, HandleJob(s) PROVE AwaitOK'
  <2>1. /\ daemon.pc = "idle"
        /\ \/ daemon' = daemon
           \/ \E g : daemon' = [pc |-> "submit", stream |-> s, grant |-> g]
    BY ONLY HandleJob(s), Zenon DEF HandleJob
  <2>2. daemon' = daemon \/ daemon'.pc = "submit"
    BY ONLY <2>1, SMT
  <2> QED BY <1>1, <2>1, <2>2
<1>10. ASSUME SubmitFails \/ DaemonCrash \/ DaemonStart PROVE AwaitOK'
  <2>1. CASE DaemonCrash \/ DaemonStart
    <3>1. daemon' \in {Idle, Offline}
      BY <2>1 DEF DaemonCrash, DaemonStart
    <3>2. daemon'.pc \in {"idle", "down"}
      BY <3>1 DEF Idle, Offline
    <3> QED BY <1>1, <3>2
  <2> QED BY <1>3, <1>10, <2>1 DEF SubmitFails
<1>11. ASSUME \/ \E j \in Jobs : StartJob(j)
              \/ \E s \in Streams, j \in Jobs : HandleHeartbeat(s, j)
              \/ \E s \in Streams : \/ Break(s) \/ ClientNotices(s) \/ ServerNotices(s)
                                    \/ HandleClientFrame(s)
              \/ Maintenance \/ Connect \/ UNCHANGED vars
       PROVE  AwaitOK'
  BY <1>2, <1>11 DEF StartJob, HandleHeartbeat, Break, ClientNotices, ServerNotices,
                     HandleClientFrame, Maintenance, Connect, vars, client, brokerSelf
<1>12. ASSUME BrokerRestart \/ Tick PROVE AwaitOK'
  BY <1>2, <1>12 DEF BrokerRestart, Tick, BrokerOf!Restart, BrokerOf!Tick, client
<1> QED
  BY <1>5, <1>6, <1>7, <1>8, <1>9, <1>10, <1>11, <1>12 DEF Next

\* The whole invariant is kept.
LEMMA TruthNext ==
  ASSUME TruthInv, [Next]_vars
  PROVE  TruthInv'
<1>1. LinkInv /\ BP!BrokerInv /\ BP!Truth
  BY DEF TruthInv
<1>2. LinkInv' /\ \A k \in NewlySucceeded : ToldOf(k)
  BY <1>1, LinkNext
<1>3. /\ BP!BrokerInv' /\ BP!Truth'
      /\ \A j \in Jobs : BP!Succeeded(j) => BP!Succeeded(j)'
  BY <1>1, BrokerKeeps
<1>4. StreamsTrue'
  BY <1>3, TrueFramesGrow, StreamsStayTrue
<1>5. ASSUME NEW j \in Jobs, job'[j].state = "succeeded" PROVE BP!Succeeded(j)'
  <2>1. CASE job[j].state = "succeeded"
    BY <1>3, <2>1 DEF TruthInv, RowsTrue
  <2>2. CASE job[j].state # "succeeded"
    <3>1. ToldOf(j)
      BY <1>2, <1>5, <2>2 DEF NewlySucceeded
    <3> QED BY <1>3, <3>1, ToldTrue
  <2> QED BY <2>1, <2>2
<1>6. RowsTrue'
  BY <1>5 DEF RowsTrue
<1> QED BY <1>2, <1>3, <1>4, <1>6, AwaitKept DEF TruthInv

\* Nothing has succeeded, or is said to have, before the first job.
LEMMA TruthInit == Init => TruthInv
<1> SUFFICES ASSUME Init PROVE TruthInv
  OBVIOUS
<1>1. Store!Init /\ BrokerOf!Init /\ stream = << >> /\ daemon = Idle
  BY DEF Init
<1>2. BP!Init
  BY <1>1, SameInit
<1>3. BP!BrokerInv /\ BP!Truth
  BY <1>2, BrokerConstants, BP!InitBrokerInv, BP!InitTruth
<1>4. StreamsTrue
  BY <1>1, EmptySeq DEF StreamsTrue
<1>5. AwaitOK
  BY <1>1 DEF AwaitOK, Idle
<1>6. RowsTrue
  BY <1>1 DEF RowsTrue, Store!Init, Store!AbsentRow
<1> QED BY <1>3, <1>4, <1>5, <1>6, LinkInit DEF TruthInv

\* End to end: the server calls a job succeeded only if its operation was
\* entered and succeeded, and entered exactly once unless the broker's ledger
\* lost the job's record or kept it for too short a time; across redeliveries,
\* late frames of old streams, replayed answers and crashes.
THEOREM PipelineSucceededTrue == Spec => []SucceededIsTrue
<1>1. TruthInv /\ [Next]_vars => TruthInv'
  BY TruthNext
<1>2. TruthInv => SucceededIsTrue
  <2> SUFFICES ASSUME TruthInv, NEW j \in Jobs, job[j].state = "succeeded"
               PROVE  "success" \in outcome[j] /\ (runs[j] = 1 \/ BrokerOf!Excused(j))
    BY DEF SucceededIsTrue
  <2>1. runs[j] >= 1 /\ "success" \in outcome[j]
    BY DEF TruthInv, RowsTrue, BP!Succeeded
  <2>2. (runs[j] <= 1 \/ BP!Excused(j)) /\ runs[j] \in Nat
    BY DEF TruthInv, BP!BrokerInv, BP!AtMostOnce, BP!TypeOK
  <2> QED BY <2>1, <2>2, SameExcuse
<1> QED BY <1>1, <1>2, TruthInit, PTL DEF Spec

=============================================================================
