-------------------------- MODULE IdentityRegistry --------------------------
(***************************************************************************)
(* The server's registry of who may connect: the tables enrollment_keys,   *)
(* identities and identity_certificates, and every transaction that        *)
(* changes them (crates/centrald-server/src/services.rs, and the local     *)
(* console's, manage.rs), run by concurrent request handlers.              *)
(*                                                                         *)
(* A transaction that locks the rows it decides on (SELECT ... FOR UPDATE, *)
(* a conditional UPDATE) is one step.  Where the code reads without a lock *)
(* and writes later, the reads are steps of their own and their results    *)
(* wait in req[w], the request's local variables: enrollment (Argon2id     *)
(* runs between the two), renewal (four reads, then an INSERT),            *)
(* replacement, and the console's revocation, which counts the Admins      *)
(* under an advisory lock before it revokes one.  A handler is dropped,    *)
(* and its open transaction rolled back, at any of these points.           *)
(***************************************************************************)
EXTENDS Integers, FiniteSets

CONSTANTS
    Keys,           \* ids of enrollment keys
    Ids,            \* ids of identities; a UUID is used once
    Certs,          \* fingerprints of certificates; each is issued once
    Workers,        \* request handlers and consoles running at once
    KeyTTL,         \* life of an enrollment key
    ActivationTTL,  \* IDENTITY_ACTIVATION_TTL_HOURS
    CertTTL,        \* life of an identity certificate
    Overlap,        \* the hour a superseded certificate stays usable
    MaxTime         \* bound: the clock stops here

ASSUME RegistryTimes ==
    /\ KeyTTL \in Nat \ {0}
    /\ ActivationTTL \in Nat \ {0}
    /\ CertTTL \in Nat \ {0}
    /\ Overlap \in Nat \ {0}
    /\ MaxTime \in Nat

VARIABLES
    now,       \* the clock
    key,       \* table enrollment_keys
    identity,  \* table identities
    cert,      \* table identity_certificates
    req,       \* the requests in progress
    advisory,  \* holder of the advisory lock AUDIT_LOCK_ID + 1, or None
    minted     \* history: the identities each key has enrolled

registryVars == <<now, key, identity, cert, req, advisory, minted>>

NULL == -1
None == "none"
Roles == {"client", "admin"}

ASSUME RegistryNone == None \notin Workers /\ None \notin Certs /\ None \notin Ids

----------------------------------------------------------------------------
(***************************************************************************)
(* Rows.  `row' says whether the row is there; a deleted row's id is not   *)
(* used again.                                                             *)
(***************************************************************************)
RowStates == {"unused", "present", "deleted"}

Times == Nat \cup {NULL}

KeyRow == [row : RowStates, role : Roles, expires : Times,
           consumed : BOOLEAN, revoked : BOOLEAN]

IdentityRow == [row : RowStates, role : Roles, activated : BOOLEAN,
                deadline : Times, revoked : BOOLEAN, current : Certs \cup {None}]

CertRow == [row : RowStates, owner : Ids \cup {None}, active : BOOLEAN,
            deadline : Times, expires : Times, retire : Times, revoked : BOOLEAN]

Requests ==
    [op : {"idle"}]
    \cup [op : {"enroll"}, key : Keys]
    \cup [op : {"renew"}, cert : Certs, at : {"authenticated", "named", "checked"}]
    \cup [op : {"replace"}, old : Ids]
    \cup [op : {"replacing"}, old : Ids, new : Ids]
    \cup [op : {"revoke"}, id : Ids]

Idle == [op |-> "idle"]

IsPresent(r) == r.row = "present"

\* The other columns keep their last values, which nothing reads.
Deleted(r) == [r EXCEPT !.row = "deleted"]

----------------------------------------------------------------------------
(***************************************************************************)
(* Conditions of the queries.                                              *)
(***************************************************************************)
KeyOpen(k) ==
    /\ IsPresent(key[k])
    /\ now < key[k].expires
    /\ ~key[k].consumed
    /\ ~key[k].revoked

\* An identity whose requests are served.
Standing(i) == IsPresent(identity[i]) /\ identity[i].activated /\ ~identity[i].revoked

PresentedIsActive(c) ==
    /\ IsPresent(cert[c])
    /\ cert[c].active
    /\ ~cert[c].revoked
    /\ now < cert[c].expires
    /\ cert[c].retire = NULL \/ now < cert[c].retire

\* The peer certificate c is let in.
Authenticate(c) == PresentedIsActive(c) /\ Standing(cert[c].owner)

ActiveAdmins == {i \in Ids : identity[i].role = "admin" /\ Standing(i)}

----------------------------------------------------------------------------
Init ==
    /\ now = 0
    /\ key = [k \in Keys |-> [row |-> "unused", role |-> "client", expires |-> NULL,
                              consumed |-> FALSE, revoked |-> FALSE]]
    /\ identity = [i \in Ids |-> [row |-> "unused", role |-> "client", activated |-> FALSE,
                                  deadline |-> NULL, revoked |-> FALSE, current |-> None]]
    /\ cert = [c \in Certs |-> [row |-> "unused", owner |-> None, active |-> FALSE,
                                deadline |-> NULL, expires |-> NULL, retire |-> NULL,
                                revoked |-> FALSE]]
    /\ req = [w \in Workers |-> Idle]
    /\ advisory = None
    /\ minted = [k \in Keys |-> {}]

\* The clock.
Tick ==
    /\ now < MaxTime
    /\ now' = now + 1
    /\ UNCHANGED <<key, identity, cert, req, advisory, minted>>

(***************************************************************************)
(* Enrollment keys.  An Admin creates client keys, the console any.        *)
(***************************************************************************)
CreateEnrollmentKey(k, r) ==
    /\ key[k].row = "unused"
    /\ now + KeyTTL <= MaxTime   \* bound
    /\ key' = [key EXCEPT ![k] = [row |-> "present", role |-> r, expires |-> now + KeyTTL,
                                  consumed |-> FALSE, revoked |-> FALSE]]
    /\ UNCHANGED <<now, identity, cert, req, advisory, minted>>

RevokeEnrollmentKey(k) ==
    /\ KeyOpen(k)
    /\ key' = [key EXCEPT ![k].revoked = TRUE]
    /\ UNCHANGED <<now, identity, cert, req, advisory, minted>>

(***************************************************************************)
(* enroll: the key is read and its secret verified outside a transaction;  *)
(* then the row is locked, checked again and consumed, with the identity   *)
(* and its pending certificate inserted in the same transaction.           *)
(***************************************************************************)
EnrollVerify(w, k) ==
    /\ req[w] = Idle
    /\ KeyOpen(k)
    /\ req' = [req EXCEPT ![w] = [op |-> "enroll", key |-> k]]
    /\ UNCHANGED <<now, key, identity, cert, advisory, minted>>

\* Mutant: the row is locked but not checked again.
KeyStillOpenUnchecked(k) == TRUE

\* The check made again once the row is locked.
KeyStillOpen(k) == KeyOpen(k)

PendingCertificate(i) ==
    [row |-> "present", owner |-> i, active |-> FALSE, deadline |-> now + ActivationTTL,
     expires |-> now + CertTTL, retire |-> NULL, revoked |-> FALSE]

EnrollCommit(w, i, c) ==
    /\ req[w].op = "enroll"
    /\ LET k == req[w].key IN
        /\ KeyStillOpen(k)
        /\ identity[i].row = "unused"
        /\ cert[c].row = "unused"
        /\ now + ActivationTTL <= MaxTime   \* bound
        /\ identity' = [identity EXCEPT ![i] =
               [row |-> "present", role |-> key[k].role, activated |-> FALSE,
                deadline |-> now + ActivationTTL, revoked |-> FALSE, current |-> c]]
        /\ cert' = [cert EXCEPT ![c] = PendingCertificate(i)]
        /\ key' = [key EXCEPT ![k].consumed = TRUE]
        /\ minted' = [minted EXCEPT ![k] = @ \cup {i}]
    /\ req' = [req EXCEPT ![w] = Idle]
    /\ UNCHANGED <<now, advisory>>

(***************************************************************************)
(* activate_identity_certificate, for either role.  Both rows are locked.  *)
(* Activating an active certificate again changes nothing.                 *)
(***************************************************************************)
ActivationOpen(c) ==
    LET i == cert[c].owner IN
    /\ IsPresent(cert[c])
    /\ IsPresent(identity[i])
    /\ ~identity[i].revoked
    /\ ~cert[c].revoked
    /\ now < cert[c].expires
    /\ ~cert[c].active
    /\ now < cert[c].deadline
    /\ identity[i].activated \/ now < identity[i].deadline

MinOf(a, b) == IF a < b THEN a ELSE b

\* retire_at = LEAST(COALESCE(retire_at, expires_at), NOW() + 1 hour)
RetireAt(r) == MinOf(IF r.retire = NULL THEN r.expires ELSE r.retire, now + Overlap)

\* Mutant: spares the certificate the identity records, not the new one.
SupersededUnrecorded(c, d) ==
    /\ d # identity[cert[c].owner].current
    /\ IsPresent(cert[d])
    /\ cert[d].owner = cert[c].owner
    /\ cert[d].active
    /\ ~cert[d].revoked
    /\ now < cert[d].expires

Superseded(c, d) ==
    /\ d # c
    /\ IsPresent(cert[d])
    /\ cert[d].owner = cert[c].owner
    /\ cert[d].active
    /\ ~cert[d].revoked
    /\ now < cert[d].expires

Activated(r, c) == [r EXCEPT !.activated = TRUE, !.deadline = NULL, !.current = c]

ActivateIdentityCertificate(c) ==
    /\ ActivationOpen(c)
    /\ cert' = [d \in Certs |->
           IF d = c THEN [cert[c] EXCEPT !.active = TRUE, !.deadline = NULL, !.retire = NULL]
           ELSE IF Superseded(c, d) THEN [cert[d] EXCEPT !.retire = RetireAt(cert[d])]
           ELSE cert[d]]
    /\ identity' = [identity EXCEPT ![cert[c].owner] = Activated(@, c)]
    /\ UNCHANGED <<now, key, req, advisory, minted>>

(***************************************************************************)
(* renew_certificate and renew_admin_certificate: authenticate, read the   *)
(* name, begin a transaction, read the presented certificate again, insert *)
(* the pending one.  None of the reads takes a lock.                       *)
(***************************************************************************)
RenewAuthenticate(w, c) ==
    /\ req[w] = Idle
    /\ Authenticate(c)
    /\ req' = [req EXCEPT ![w] = [op |-> "renew", cert |-> c, at |-> "authenticated"]]
    /\ UNCHANGED <<now, key, identity, cert, advisory, minted>>

RenewName(w) ==
    /\ req[w].op = "renew"
    /\ req[w].at = "authenticated"
    /\ Standing(cert[req[w].cert].owner)
    /\ req' = [req EXCEPT ![w].at = "named"]
    /\ UNCHANGED <<now, key, identity, cert, advisory, minted>>

RenewPresented(w) ==
    /\ req[w].op = "renew"
    /\ req[w].at = "named"
    /\ PresentedIsActive(req[w].cert)
    /\ req' = [req EXCEPT ![w].at = "checked"]
    /\ UNCHANGED <<now, key, identity, cert, advisory, minted>>

RenewInsert(w, c) ==
    /\ req[w].op = "renew"
    /\ req[w].at = "checked"
    /\ cert[c].row = "unused"
    /\ cert' = [cert EXCEPT ![c] = PendingCertificate(cert[req[w].cert].owner)]
    /\ req' = [req EXCEPT ![w] = Idle]
    /\ UNCHANGED <<now, key, identity, advisory, minted>>

----------------------------------------------------------------------------
(***************************************************************************)
(* Revocation.  The identity and all its unrevoked certificates, in one    *)
(* transaction.                                                            *)
(***************************************************************************)
\* Mutant: only the certificate the identity records.
RevokeCurrentOnly(i) ==
    /\ identity' = [identity EXCEPT ![i].revoked = TRUE]
    /\ cert' = [cert EXCEPT ![identity[i].current].revoked = TRUE]

Revoke(i) ==
    /\ identity' = [identity EXCEPT ![i].revoked = TRUE]
    /\ cert' = [c \in Certs |->
           IF IsPresent(cert[c]) /\ cert[c].owner = i
           THEN [cert[c] EXCEPT !.revoked = TRUE] ELSE cert[c]]

\* The Admin RPC.  Which Admin asks is not modelled: authenticate read the
\* registry some time before, so the asker may have been revoked since.
RevokeIdentity(i) ==
    /\ IsPresent(identity[i])
    /\ identity[i].role = "client"
    /\ ~identity[i].revoked
    /\ Revoke(i)
    /\ UNCHANGED <<now, key, req, advisory, minted>>

\* replace_identity: the device presents its old identity and names the new.
ReplaceAuthenticate(w, c) ==
    /\ req[w] = Idle
    /\ Authenticate(c)
    /\ identity[cert[c].owner].role = "client"
    /\ req' = [req EXCEPT ![w] = [op |-> "replace", old |-> cert[c].owner]]
    /\ UNCHANGED <<now, key, identity, cert, advisory, minted>>

ReplaceCheck(w, i) ==
    /\ req[w].op = "replace"
    /\ i # req[w].old
    /\ identity[i].role = "client"
    /\ Standing(i)
    /\ req' = [req EXCEPT ![w] = [op |-> "replacing", old |-> req[w].old, new |-> i]]
    /\ UNCHANGED <<now, key, identity, cert, advisory, minted>>

ReplaceCommit(w) ==
    /\ req[w].op = "replacing"
    /\ IsPresent(identity[req[w].old])
    /\ ~identity[req[w].old].revoked
    /\ Revoke(req[w].old)
    /\ req' = [req EXCEPT ![w] = Idle]
    /\ UNCHANGED <<now, key, advisory, minted>>

\* Mutant: no lock.
AdvisoryFreeUnlocked == TRUE

\* pg_advisory_xact_lock does not wait.
AdvisoryFree == advisory = None

\* revoke_identity_record, the console's: an Admin is revoked only if there
\* is more than one, counted under the advisory lock.
RevokeCount(w, i) ==
    /\ req[w] = Idle
    /\ AdvisoryFree
    /\ identity[i].row # "unused"
    /\ identity[i].role = "admin" => Cardinality(ActiveAdmins) > 1
    /\ advisory' = w
    /\ req' = [req EXCEPT ![w] = [op |-> "revoke", id |-> i]]
    /\ UNCHANGED <<now, key, identity, cert, minted>>

RevokeIdentityRecord(w) ==
    /\ req[w].op = "revoke"
    /\ IsPresent(identity[req[w].id])
    /\ ~identity[req[w].id].revoked
    /\ Revoke(req[w].id)
    /\ advisory' = IF advisory = w THEN None ELSE advisory
    /\ req' = [req EXCEPT ![w] = Idle]
    /\ UNCHANGED <<now, key, minted>>

\* A request ends without effect: a check fails, the peer disconnects, the
\* process dies.  The transaction rolls back and its lock is released.
Drop(w) ==
    /\ req[w] # Idle
    /\ req' = [req EXCEPT ![w] = Idle]
    /\ advisory' = IF advisory = w THEN None ELSE advisory
    /\ UNCHANGED <<now, key, identity, cert, minted>>

(***************************************************************************)
(* maintenance_once, its identity statements.  Deleting an identity takes  *)
(* its certificates with it (ON DELETE CASCADE).                           *)
(***************************************************************************)
LapsedIdentity(i) ==
    /\ IsPresent(identity[i])
    /\ ~identity[i].activated
    /\ identity[i].deadline <= now

LapsedCertificate(c) ==
    /\ IsPresent(cert[c])
    /\ ~cert[c].active
    /\ cert[c].deadline <= now

Swept(c) ==
    \/ LapsedCertificate(c)
    \/ IsPresent(cert[c]) /\ LapsedIdentity(cert[c].owner)

SomethingLapsed == \/ \E i \in Ids : LapsedIdentity(i)
                   \/ \E c \in Certs : LapsedCertificate(c)

MaintenanceOnce ==
    /\ SomethingLapsed
    /\ identity' = [i \in Ids |->
           IF LapsedIdentity(i) THEN Deleted(identity[i]) ELSE identity[i]]
    /\ cert' = [c \in Certs |-> IF Swept(c) THEN Deleted(cert[c]) ELSE cert[c]]
    /\ UNCHANGED <<now, key, req, advisory, minted>>

----------------------------------------------------------------------------
Next ==
    \/ Tick
    \/ \E k \in Keys : RevokeEnrollmentKey(k) \/ \E r \in Roles : CreateEnrollmentKey(k, r)
    \/ \E w \in Workers, k \in Keys : EnrollVerify(w, k)
    \/ \E w \in Workers, i \in Ids, c \in Certs : EnrollCommit(w, i, c)
    \/ \E c \in Certs : ActivateIdentityCertificate(c)
    \/ \E w \in Workers, c \in Certs :
          RenewAuthenticate(w, c) \/ RenewInsert(w, c) \/ ReplaceAuthenticate(w, c)
    \/ \E w \in Workers, i \in Ids : ReplaceCheck(w, i) \/ RevokeCount(w, i)
    \/ \E w \in Workers :
          \/ RenewName(w) \/ RenewPresented(w) \/ ReplaceCommit(w)
          \/ RevokeIdentityRecord(w) \/ Drop(w)
    \/ \E i \in Ids : RevokeIdentity(i)
    \/ MaintenanceOnce

Spec == Init /\ [][Next]_registryVars

----------------------------------------------------------------------------
(***************************************************************************)
(* Properties.                                                             *)
(***************************************************************************)

\* Every column has its type, and the CHECK constraints of 0001_initial.sql
\* hold in every state, so that no transaction is refused by one.
TypeOK ==
    /\ now \in 0..MaxTime
    /\ key \in [Keys -> KeyRow]
    /\ identity \in [Ids -> IdentityRow]
    /\ cert \in [Certs -> CertRow]
    /\ req \in [Workers -> Requests]
    /\ advisory \in Workers \cup {None}
    /\ minted \in [Keys -> SUBSET Ids]
    /\ \A k \in Keys : ~(key[k].consumed /\ key[k].revoked)
    /\ \A i \in Ids : IsPresent(identity[i]) =>
           (identity[i].activated <=> identity[i].deadline = NULL)
    /\ \A c \in Certs : IsPresent(cert[c]) =>
           (cert[c].active <=> cert[c].deadline = NULL)

\* An invitation is used at most once and a revoked one never, although its
\* secret is verified outside the transaction that consumes it: two requests
\* may verify the same key, and it may be revoked or expire meanwhile
\* (enroll; ARCHITECTURE.md: "one-time").
SingleUse ==
    \A k \in Keys :
        /\ \A i, j \in minted[k] : i = j
        /\ key[k].revoked => minted[k] = {}

\* An activated identity records its one certificate without a retirement
\* date: that certificate is active, and revoked only with the identity;
\* every other certificate of it that is active is revoked, expired or
\* retiring.  However renewals and activations interleave, the device is
\* never left without a certificate, nor with two that both last.
OneCurrentCertificate ==
    \A i \in Ids : IsPresent(identity[i]) /\ identity[i].activated =>
        LET m == identity[i].current IN
        /\ m \in Certs
        /\ IsPresent(cert[m]) /\ cert[m].owner = i /\ cert[m].active
        /\ cert[m].retire = NULL
        /\ cert[m].revoked <=> identity[i].revoked
        /\ \A c \in Certs :
              c # m /\ IsPresent(cert[c]) /\ cert[c].owner = i /\ cert[c].active =>
                  cert[c].revoked \/ cert[c].expires <= now \/ cert[c].retire # NULL

\* Revoking an identity ends it: it has no active certificate that is not
\* itself revoked, and none that could still be activated, even when a renewal
\* read the registry before the revocation and inserts its row after it.
RevokedIsInert ==
    \A c \in Certs :
        IsPresent(cert[c]) /\ IsPresent(identity[cert[c].owner])
                          /\ identity[cert[c].owner].revoked =>
            /\ cert[c].active => cert[c].revoked
            /\ ~ActivationOpen(c)

\* The last active Admin is never revoked, although the Admins are counted
\* before the revocation and two consoles may be at it (manage.rs: "refusing to
\* revoke the last active Admin").  There is no exception in the code:
\* docs/OPERATIONS.md has one, "unless the explicit local force path is chosen",
\* but no code reads force_last (cli.rs) or force_last_admin (the protocol).
LastAdminKept == [][ActiveAdmins # {} => ActiveAdmins' # {}]_registryVars
=============================================================================
