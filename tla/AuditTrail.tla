------------------------------ MODULE AuditTrail ------------------------------
(***************************************************************************)
(* The audit trail of the server: the hash chain in PostgreSQL             *)
(* (append_audit in services.rs, append_local_audit in manage.rs), the     *)
(* journal in which root's own commands are recorded while the database    *)
(* may be away and its reconciliation at startup (local_audit.rs), and the *)
(* verified export into files (audit_export.rs).                           *)
(*                                                                         *)
(* A hash is represented by the id of the entry it was computed for, and   *)
(* what it covers by the field "hashed". An entry about an identity that   *)
(* is being enrolled names it by the entry's own id.                       *)
(***************************************************************************)
EXTENDS Naturals, Sequences, FiniteSets, SequencesExt

CONSTANTS
  Writers,         \* transactions of the server's handlers and of the TUI
  Recorders,       \* local commands that record into the journal
  Server,          \* the daemon, which reconciles it at startup
  Exporters,       \* TUIs that export the chain
  Nil,
  Kinds,           \* of transactions: "plain", "enroll", "activate"
  Limits,          \* batch sizes an export may ask for
  MaxIds,          \* bound: audit records
  MaxDisruptions   \* bound: crashes, failed writes and rolled back transactions

ASSUME AuditAssumption ==
  /\ Kinds \subseteq {"plain", "enroll", "activate"}
  /\ Limits \subseteq Nat \ {0}
  /\ MaxIds \in Nat /\ MaxDisruptions \in Nat
  /\ Server \notin Recorders \cup Writers
  /\ Nil \notin Recorders \cup Writers \cup {Server}

RecordIds == 1..MaxIds

VARIABLES
  entries,      \* the rows of audit_entries
  nextSeq,      \* the sequence behind audit_entries.sequence
  chainLock,    \* holder of the advisory lock of the audit chain
  writer,       \* writer[w]: its step, kind, subject, tail read, id and number
  pending,      \* identities enrolled and not yet activated
  staged,       \* rows the reconciling transaction has not committed
  journal,      \* lines of the local journal; the last one may be torn
  configLock,   \* holder of the ConfigFileLock
  step,         \* what the holder does next with the journal
  batch,        \* the record it writes, or the ones still to reconcile
  acked,        \* local records whose caller was told they are durable
  up,           \* the daemon has finished starting
  files,        \* exported files: their range, last entry and ids
  exporter,     \* exporter[e]: its step, previous tail and rows
  nextId, disruptions,
  truncated     \* history: a process died while it rewrote the journal

db == <<entries, nextSeq, chainLock, writer, pending, staged>>
local == <<journal, configLock, step, batch, acked, up, truncated>>
exports == <<files, exporter>>
auditVars == <<db, local, exports, nextId, disruptions>>

Entry == [id : RecordIds, seq : Nat \ {0}, prev : RecordIds \cup {Nil},
          subject : RecordIds \cup {Nil}, hashed : RecordIds \cup {Nil}]
\* A torn line lacks its newline; a line appended to it makes both unreadable.
Line == [id : RecordIds, is : {"whole", "torn", "garbled"}]
NotWriting == [pc |-> "idle", kind |-> "plain", who |-> Nil, prev |-> Nil,
         id |-> Nil, seq |-> 0]
NotExporting == [pc |-> "idle", from |-> 0, tail |-> Nil, rows |-> {}]

(* Only the holder of the configuration lock touches the journal.           *)
AuditTypeOK ==
  /\ entries \subseteq Entry
  /\ staged \subseteq Entry
  /\ nextSeq \in Nat \ {0}
  /\ chainLock \in Writers \cup {Server, Nil}
  /\ writer \in [Writers -> [pc : {"idle", "begun", "locked", "read", "inserted"},
                             kind : {"plain", "enroll", "activate"},
                             who : RecordIds \cup {Nil}, prev : RecordIds \cup {Nil},
                             id : RecordIds \cup {Nil}, seq : Nat]]
  /\ pending \subseteq RecordIds
  /\ journal \in Seq(Line)
  /\ configLock \in Recorders \cup {Server, Nil}
  /\ step \in {"idle", "repair", "rewrite", "append", "sync", "parse", "lock",
               "insert", "remove"}
  /\ (configLock = Nil) <=> (step = "idle")
  /\ batch \in Seq(RecordIds) /\ acked \subseteq RecordIds /\ up \in BOOLEAN
  /\ files \subseteq [from : Nat, to : Nat, tail : RecordIds, ids : SUBSET RecordIds]
  /\ exporter \in [Exporters -> [pc : {"idle", "tail", "rows"},
                                 from : Nat, tail : RecordIds \cup {Nil},
                                 rows : SUBSET Entry]]
  /\ nextId \in 1..(MaxIds + 1) /\ disruptions \in 0..MaxDisruptions
  /\ truncated \in BOOLEAN

AuditInit ==
  /\ entries = {} /\ nextSeq = 1 /\ chainLock = Nil
  /\ writer = [w \in Writers |-> NotWriting] /\ pending = {} /\ staged = {}
  /\ journal = <<>> /\ configLock = Nil /\ step = "idle"
  /\ batch = <<>> /\ acked = {} /\ up = FALSE
  /\ files = {} /\ exporter = [e \in Exporters |-> NotExporting]
  /\ nextId = 1 /\ disruptions = 0 /\ truncated = FALSE

Disrupt == disruptions < MaxDisruptions /\ disruptions' = disruptions + 1

LastOf(rows) == CHOOSE x \in rows : \A y \in rows : y.seq <= x.seq

\* SELECT entry_hash FROM audit_entries ORDER BY sequence DESC LIMIT 1; the
\* hash before the first of the rows if there are none.
TailOf(rows, before) == IF rows = {} THEN before ELSE LastOf(rows).id

ChainTail == TailOf(entries, Nil)

-----------------------------------------------------------------------------
(* append_audit inside the transaction of a handler.                        *)

\* Activation works on a row it has locked.
Begin(w, k, i) ==
  /\ writer[w].pc = "idle" /\ k \in Kinds
  /\ nextId <= MaxIds /\ nextId' = nextId + 1
  /\ IF k = "activate"
     THEN i \in pending /\ \A v \in Writers : writer[v].who # i
     ELSE i = Nil
  /\ writer' = [writer EXCEPT ![w] =
        [pc |-> "begun", kind |-> k, who |-> i, prev |-> Nil, id |-> nextId, seq |-> 0]]
  /\ UNCHANGED <<entries, nextSeq, chainLock, pending, staged, local, exports,
                 disruptions>>

\* Mutant: appends without pg_advisory_xact_lock.
DoNotLockAudit(w) ==
  /\ writer[w].pc = "begun"
  /\ writer' = [writer EXCEPT ![w].pc = "locked"]
  /\ UNCHANGED <<entries, nextSeq, chainLock, pending, staged, local, exports, nextId,
                 disruptions>>

LockAudit(w) ==
  /\ writer[w].pc = "begun" /\ chainLock = Nil
  /\ chainLock' = w
  /\ writer' = [writer EXCEPT ![w].pc = "locked"]
  /\ UNCHANGED <<entries, nextSeq, pending, staged, local, exports, nextId, disruptions>>

ReadTail(w) ==
  /\ writer[w].pc = "locked"
  /\ writer' = [writer EXCEPT ![w].pc = "read", ![w].prev = ChainTail]
  /\ UNCHANGED <<entries, nextSeq, chainLock, pending, staged, local, exports, nextId,
                 disruptions>>

Insert(w) ==
  /\ writer[w].pc = "read"
  /\ writer' = [writer EXCEPT ![w].pc = "inserted", ![w].seq = nextSeq]
  /\ nextSeq' = nextSeq + 1
  /\ UNCHANGED <<entries, chainLock, pending, staged, local, exports, nextId,
                 disruptions>>

Unlocked(w) == IF chainLock = w THEN Nil ELSE chainLock

\* An enrollment's entry names the identity as actor and as target.
CommitEntry(w) ==
  /\ writer[w].pc = "inserted"
  /\ LET t == writer[w]
         about == CASE t.kind = "enroll" -> t.id
                    [] t.kind = "activate" -> t.who
                    [] t.kind = "plain" -> Nil
     IN /\ entries' = entries \cup
             {[id |-> t.id, seq |-> t.seq, prev |-> t.prev,
               subject |-> about, hashed |-> about]}
        /\ pending' = CASE t.kind = "enroll" -> pending \cup {t.id}
                        [] t.kind = "activate" -> pending \ {t.who}
                        [] t.kind = "plain" -> pending
  /\ chainLock' = Unlocked(w)
  /\ writer' = [writer EXCEPT ![w] = NotWriting]
  /\ UNCHANGED <<nextSeq, staged, local, exports, nextId, disruptions>>

\* The transaction fails or its connection is lost; its number is used up.
RollBack(w) ==
  /\ writer[w].pc # "idle" /\ Disrupt
  /\ chainLock' = Unlocked(w)
  /\ writer' = [writer EXCEPT ![w] = NotWriting]
  /\ UNCHANGED <<entries, nextSeq, pending, staged, local, exports, nextId>>

\* maintenance_once deletes an enrollment that was not activated in time; the
\* foreign keys of audit_entries are ON DELETE SET NULL.
Expire(i) ==
  /\ i \in pending
  /\ \A w \in Writers : writer[w].who # i
  /\ pending' = pending \ {i}
  /\ entries' = {IF e.subject = i THEN [e EXCEPT !.subject = Nil] ELSE e
                 : e \in entries}
  /\ UNCHANGED <<nextSeq, chainLock, writer, staged, local, exports, nextId, disruptions>>

-----------------------------------------------------------------------------
(* record and recover_torn_final_record, under the configuration lock.      *)

Torn == journal # <<>> /\ Last(journal).is = "torn"

Unlock == configLock' = Nil /\ step' = "idle" /\ batch' = <<>>

BeginRecord(p) ==
  /\ configLock = Nil /\ configLock' = p /\ step' = "repair"
  /\ nextId <= MaxIds /\ batch' = <<nextId>> /\ nextId' = nextId + 1
  /\ UNCHANGED <<db, journal, acked, up, truncated, exports, disruptions>>

Whole == Front(journal)
AfterRepair == IF configLock = Server THEN "parse" ELSE "append"

\* Mutant: appends to the journal as it is.
RepairNothing ==
  /\ step = "repair" /\ step' = AfterRepair
  /\ UNCHANGED <<db, journal, configLock, batch, acked, up, truncated, exports, nextId,
                 disruptions>>

\* The torn tail is copied to a file of its own; then the journal is truncated
\* and its whole lines are written back.
Repair ==
  /\ step = "repair"
  /\ step' = IF Torn THEN "rewrite" ELSE AfterRepair
  /\ UNCHANGED <<db, journal, configLock, batch, acked, up, truncated, exports, nextId,
                 disruptions>>

Rewrite ==
  /\ step = "rewrite"
  /\ journal' = Whole /\ step' = AfterRepair
  /\ UNCHANGED <<db, configLock, batch, acked, up, truncated, exports, nextId, disruptions>>

CrashInRewrite ==
  /\ step = "rewrite" /\ Disrupt /\ truncated' = TRUE
  /\ \E n \in 0..Len(Whole) : journal' = SubSeq(Whole, 1, n)
  /\ Unlock /\ up' = IF configLock = Server THEN FALSE ELSE up
  /\ UNCHANGED <<db, acked, exports, nextId>>

AppendedTo(lines, line) ==
  IF lines # <<>> /\ Last(lines).is = "torn"
  THEN Append(Front(lines), [line EXCEPT !.is = "garbled"])
  ELSE Append(lines, line)

AppendLine ==
  /\ step = "append"
  /\ journal' = AppendedTo(journal, [id |-> batch[1], is |-> "whole"])
  /\ step' = "sync"
  /\ UNCHANGED <<db, configLock, batch, acked, up, truncated, exports, nextId, disruptions>>

\* The disk is full, or the process dies in write_all.
TearLine ==
  /\ step = "append" /\ Disrupt
  /\ journal' = AppendedTo(journal, [id |-> batch[1], is |-> "torn"])
  /\ Unlock
  /\ UNCHANGED <<db, acked, up, truncated, exports, nextId>>

Recorded ==
  /\ step = "sync"
  /\ acked' = acked \cup {batch[1]}
  /\ Unlock
  /\ UNCHANGED <<db, journal, up, truncated, exports, nextId, disruptions>>

Record == Repair \/ Rewrite \/ AppendLine \/ Recorded

-----------------------------------------------------------------------------
(* reconcile, at every start of the daemon.                                 *)

Start ==
  /\ ~up /\ configLock # Server
  /\ \/ journal = <<>> /\ up' = TRUE /\ UNCHANGED <<configLock, step>>
     \/ /\ journal # <<>> /\ configLock = Nil
        /\ configLock' = Server /\ step' = "repair" /\ UNCHANGED up
  /\ UNCHANGED <<db, journal, batch, acked, truncated, exports, nextId, disruptions>>

Unreadable == \E i \in DOMAIN journal : journal[i].is # "whole"

Parse ==
  /\ step = "parse"
  /\ CASE Unreadable -> Unlock /\ UNCHANGED <<journal, up>>
       [] journal = <<>> -> Unlock /\ up' = TRUE /\ UNCHANGED journal
       [] OTHER ->
            /\ batch' = [i \in DOMAIN journal |-> journal[i].id]
            /\ step' = "lock" /\ UNCHANGED <<configLock, journal, up>>
  /\ UNCHANGED <<db, acked, truncated, exports, nextId, disruptions>>

Stored == {x.id : x \in entries}

LockChain ==
  /\ step = "lock" /\ chainLock = Nil
  /\ chainLock' = Server /\ step' = "insert"
  /\ UNCHANGED <<entries, nextSeq, writer, pending, staged, journal, configLock,
                 batch, acked, up, truncated, exports, nextId, disruptions>>

\* What the reconciling transaction sees.
Visible == entries \cup staged

\* The primary key of audit_entries refuses a record that is there already,
\* and the transaction is over.
AppendRecord(i) ==
  IF \E x \in Visible : x.id = i
  THEN /\ Unlock /\ chainLock' = Nil /\ staged' = {}
       /\ UNCHANGED nextSeq
  ELSE /\ staged' = staged \cup
            {[id |-> i, seq |-> nextSeq, prev |-> TailOf(Visible, Nil),
              subject |-> Nil, hashed |-> Nil]}
       /\ nextSeq' = nextSeq + 1 /\ batch' = Tail(batch)
       /\ UNCHANGED <<chainLock, configLock, step>>

\* Mutant: every record of the journal is inserted.
NoneExists(i) == FALSE

\* SELECT EXISTS(SELECT 1 FROM audit_entries WHERE id = $1)
Exists(i) == \E x \in Visible : x.id = i

InsertMissing ==
  /\ step = "insert" /\ batch # <<>>
  /\ IF Exists(Head(batch))
     THEN /\ batch' = Tail(batch)
          /\ UNCHANGED <<staged, nextSeq, chainLock, configLock, step>>
     ELSE AppendRecord(Head(batch))
  /\ UNCHANGED <<entries, writer, pending, journal, acked, up, truncated, exports,
                 nextId, disruptions>>

CommitMissing ==
  /\ step = "insert" /\ batch = <<>>
  /\ entries' = Visible /\ staged' = {}
  /\ chainLock' = Nil /\ step' = "remove"
  /\ UNCHANGED <<nextSeq, writer, pending, journal, configLock, batch, acked, up,
                 truncated, exports, nextId, disruptions>>

RemoveJournal ==
  /\ step = "remove"
  /\ journal' = <<>> /\ up' = TRUE /\ Unlock
  /\ UNCHANGED <<db, acked, truncated, exports, nextId, disruptions>>

Reconcile == Parse \/ LockChain \/ InsertMissing \/ CommitMissing \/ RemoveJournal

\* The daemon or a local command dies between two of its steps.
Crash ==
  /\ configLock # Nil /\ step # "rewrite" /\ Disrupt
  /\ Unlock
  /\ up' = IF configLock = Server THEN FALSE ELSE up
  /\ chainLock' = IF configLock = Server THEN Unlocked(Server) ELSE chainLock
  /\ staged' = {}
  /\ UNCHANGED <<entries, nextSeq, writer, pending, journal, acked, truncated, exports,
                 nextId>>

Stop ==
  /\ up /\ up' = FALSE
  /\ UNCHANGED <<db, journal, configLock, step, batch, acked, truncated, exports, nextId,
                 disruptions>>

-----------------------------------------------------------------------------
(* export_audit_chain.                                                      *)

\* Mutant: continues from the oldest file.
Oldest == CHOOSE f \in files : \A g \in files : f.to <= g.to

Newest == CHOOSE f \in files : \A g \in files : g.to <= f.to

ExistingExportTail(e) ==
  /\ exporter[e].pc = "idle"
  /\ exporter' = [exporter EXCEPT ![e].pc = "tail",
        ![e].from = IF files = {} THEN 0 ELSE Newest.to,
        ![e].tail = IF files = {} THEN Nil ELSE Newest.tail]
  /\ UNCHANGED <<db, local, files, nextId, disruptions>>

After(n) == {x \in entries : x.seq > n}

\* ORDER BY sequence LIMIT limit: everything up to some row, unless there is
\* nothing; less than the limit only if that is all.
Windows(n, limit) ==
  {rows \in {{x \in After(n) : x.seq <= y.seq} : y \in After(n)} \cup {{}} :
     Cardinality(rows) <= limit /\ (Cardinality(rows) < limit => rows = After(n))}

FetchWindow(e, limit) ==
  /\ exporter[e].pc = "tail"
  /\ \E rows \in Windows(exporter[e].from, limit) :
       exporter' = [exporter EXCEPT ![e].pc = "rows", ![e].rows = rows]
  /\ UNCHANGED <<db, local, files, nextId, disruptions>>

\* verify_chain: the first row continues the previous export, every other row
\* the one before it, and each row still is what its hash covers.
Links(rows, tail) ==
  \A x \in rows : x.prev = TailOf({y \in rows : y.seq < x.seq}, tail)

Verifies(rows, tail) == Links(rows, tail) /\ \A x \in rows : x.hashed = x.subject

FirstOf(rows) == CHOOSE x \in rows : \A y \in rows : x.seq <= y.seq

FileOf(rows) ==
  [from |-> FirstOf(rows).seq, to |-> LastOf(rows).seq, tail |-> LastOf(rows).id,
   ids |-> {x.id : x \in rows}]

\* write_new_file refuses a name that exists.
NewName(rows) ==
  \A f \in files : <<f.from, f.to>> # <<FileOf(rows).from, FileOf(rows).to>>

WriteExport(e) ==
  /\ exporter[e].pc = "rows"
  /\ LET rows == exporter[e].rows IN
       files' = IF rows # {} /\ Verifies(rows, exporter[e].tail) /\ NewName(rows)
                THEN files \cup {FileOf(rows)} ELSE files
  /\ exporter' = [exporter EXCEPT ![e] = NotExporting]
  /\ UNCHANGED <<db, local, nextId, disruptions>>

-----------------------------------------------------------------------------
Writing(w) ==
  \/ \E k \in Kinds, i \in pending \cup {Nil} : Begin(w, k, i)
  \/ LockAudit(w) \/ ReadTail(w) \/ Insert(w) \/ CommitEntry(w) \/ RollBack(w)

AuditNext ==
  \/ \E w \in Writers : Writing(w)
  \/ \E i \in RecordIds : Expire(i)
  \/ \E p \in Recorders : BeginRecord(p)
  \/ Record \/ CrashInRewrite \/ TearLine
  \/ Start \/ Reconcile \/ Crash \/ Stop
  \/ \E e \in Exporters :
       \/ ExistingExportTail(e) \/ (\E n \in Limits : FetchWindow(e, n))
       \/ WriteExport(e)

AuditSpec == AuditInit /\ [][AuditNext]_auditVars

FairAuditSpec ==
  /\ AuditSpec
  /\ WF_auditVars(Record) /\ SF_auditVars(Reconcile) /\ SF_auditVars(Start) /\ WF_auditVars(Stop)
  /\ \A w \in Writers : WF_auditVars(ReadTail(w) \/ Insert(w) \/ CommitEntry(w))

-----------------------------------------------------------------------------
(***************************************************************************)
(* Properties                                                              *)
(***************************************************************************)

(* Whatever interleaves, fails or expires, the chain has no fork and no     *)
(* gap: every entry carries the hash of the one with the next lower number. *)
ChainIsLinked == Links(entries, Nil)

(* Every entry also still is what its hash covers, so that an export from   *)
(* the start, or from any entry, verifies (audit_export.rs: "Verified,      *)
(* append-only export of the PostgreSQL audit hash chain").                 *)
ChainVerifies == Verifies(entries, Nil)

(* A local record whose caller was told it is durable is in the journal,    *)
(* readable, or in the database, unless a process died while it rewrote the *)
(* journal.                                                                 *)
AckedIsKept ==
  ~truncated => \A i \in acked :
    \/ i \in Stored
    \/ \E n \in DOMAIN journal : journal[n] = [id |-> i, is |-> "whole"]

(* What an export has passed it has written, and once: no entry appears     *)
(* later with a number below the last one exported, and the windows of one  *)
(* exporter at a time are disjoint.                                         *)
ExportedOnce ==
  \A f \in files :
    /\ \A e \in entries : e.seq <= f.to => \E g \in files : e.id \in g.ids
    /\ \A g \in files : f # g => f.ids \cap g.ids = {}

(* Every local record that was acknowledged reaches the hash chain at one   *)
(* of the next starts of the daemon, however many attempts fail on the way; *)
(* the next attempt does not trip over what the last one committed.         *)
AckedIsReconciled ==
  []<>(acked \subseteq Stored \/ truncated)
=============================================================================
