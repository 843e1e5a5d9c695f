----------------------------- MODULE ServerProofs -----------------------------
(***************************************************************************)
(* Safety of the server's shared state, for every value of the constants:  *)
(* the registry of identities, keys and certificates, the control streams  *)
(* of the clients, the audit trail and the shell sessions.  They do not    *)
(* interact here; each has a part of its own below.                        *)
(***************************************************************************)
EXTENDS IdentityRegistry, ControlStreams, AuditTrail, ShellSessions, FiniteSetTheorems,
        TLAPS

(***************************************************************************)
(* The registry's safety properties, for any number of keys, identities,   *)
(* certificates and concurrent requests, and any lifetimes.                *)
(*                                                                         *)
(* What the invariant adds to the properties is what a request still knows *)
(* of the tables when it comes back from a read it made without a lock.    *)
(***************************************************************************)

\* A key that has enrolled somebody is consumed, and enrolled nobody else.
KeysCounted ==
    \A k \in Keys :
        /\ minted[k] # {} => key[k].consumed /\ key[k].row # "unused"
        /\ \A i, j \in minted[k] : i = j

\* A certificate that was inserted belongs to an identity.
CertsOwned == \A c \in Certs : cert[c].row # "unused" => cert[c].owner \in Ids

\* What a renewal authenticated with was inserted, a replacement revokes a
\* client, and a console about to revoke holds the advisory lock: if it is to
\* be an Admin there is another one.
RequestSound(w) ==
    /\ req[w].op = "renew" => cert[req[w].cert].row # "unused"
    /\ req[w].op \in {"replace", "replacing"} =>
           identity[req[w].old].row # "unused" /\ identity[req[w].old].role = "client"
    /\ req[w].op = "revoke" =>
           /\ advisory = w
           /\ identity[req[w].id].row # "unused"
           /\ identity[req[w].id].role = "admin" => ActiveAdmins \ {req[w].id} # {}

RequestsSound == \A w \in Workers : RequestSound(w)

RegistryInv ==
    /\ TypeOK
    /\ KeysCounted
    /\ CertsOwned
    /\ RequestsSound
    /\ OneCurrentCertificate
    /\ RevokedIsInert

\* RevokedIsInert, without what ActivationOpen asks of the identity anyway.
Inert ==
    \A c \in Certs :
        IsPresent(cert[c]) /\ IsPresent(identity[cert[c].owner])
                           /\ identity[cert[c].owner].revoked
                           /\ cert[c].active => cert[c].revoked

\* TypeOK, table by table.
KeysTyped ==
    /\ key \in [Keys -> KeyRow]
    /\ \A k \in Keys : ~(key[k].consumed /\ key[k].revoked)

IdentitiesTyped ==
    /\ identity \in [Ids -> IdentityRow]
    /\ \A i \in Ids : IsPresent(identity[i]) =>
          (identity[i].activated <=> identity[i].deadline = NULL)

CertsTyped ==
    /\ cert \in [Certs -> CertRow]
    /\ \A c \in Certs : IsPresent(cert[c]) =>
          (cert[c].active <=> cert[c].deadline = NULL)

LocalsTyped ==
    /\ req \in [Workers -> Requests]
    /\ advisory \in Workers \cup {None}

----------------------------------------------------------------------------
USE RegistryTimes, RegistryNone

\* The fields a request has, by its operation.
LEMMA RequestFields ==
  ASSUME TypeOK, NEW w \in Workers
  PROVE  /\ req[w].op \in {"idle", "enroll", "renew", "replace", "replacing", "revoke"}
         /\ req[w].op = "enroll" => req[w].key \in Keys
         /\ req[w].op = "renew" =>
               req[w].cert \in Certs /\ req[w] = [op |-> "renew", cert |-> req[w].cert, at |-> req[w].at]
         /\ req[w].op \in {"replace", "replacing"} => req[w].old \in Ids
         /\ req[w].op = "revoke" => req[w].id \in Ids
<1>1. req[w] \in Requests
  BY DEF TypeOK
<1> QED
  BY <1>1 DEF Requests

\* RevokeCount leaves another Admin.
LEMMA AnotherAdmin ==
  ASSUME NEW i, Cardinality(ActiveAdmins) > 1
  PROVE  ActiveAdmins \ {i} # {}
<1>1. Cardinality({}) = 0 /\ Cardinality({i}) = 1
  BY FS_EmptySet, FS_Singleton
<1>2. ActiveAdmins \subseteq {i} => ActiveAdmins = {} \/ ActiveAdmins = {i}
  OBVIOUS
<1> QED
  BY <1>1, <1>2

\* The empty registry satisfies the invariant.
LEMMA InitHolds == Init => RegistryInv
<1> SUFFICES ASSUME Init PROVE RegistryInv
  OBVIOUS
<1>1. TypeOK
  BY DEF Init, TypeOK, KeyRow, IdentityRow, CertRow, Requests, Idle, Times, RowStates, Roles,
         NULL, IsPresent
<1>2. KeysCounted /\ CertsOwned /\ RequestsSound
  BY DEF Init, KeysCounted, CertsOwned, RequestsSound, RequestSound, Idle
<1>3. OneCurrentCertificate /\ RevokedIsInert
  BY DEF Init, OneCurrentCertificate, RevokedIsInert, IsPresent
<1> QED
  BY <1>1, <1>2, <1>3 DEF RegistryInv

\* TypeOK is the conjunction of the tables' types.
LEMMA TypeParts ==
  TypeOK <=> /\ KeysTyped /\ IdentitiesTyped /\ CertsTyped /\ LocalsTyped
             /\ now \in 0..MaxTime
             /\ minted \in [Keys -> SUBSET Ids]
  BY DEF TypeOK, KeysTyped, IdentitiesTyped, CertsTyped, LocalsTyped

\* The same of the next state.
LEMMA TypePartsNext ==
  TypeOK' <=> /\ KeysTyped' /\ IdentitiesTyped' /\ CertsTyped' /\ LocalsTyped'
              /\ now' \in 0..MaxTime
              /\ minted' \in [Keys -> SUBSET Ids]
  BY DEF TypeOK, KeysTyped, IdentitiesTyped, CertsTyped, LocalsTyped

----------------------------------------------------------------------------
\* Types and CHECK constraints.

\* Revoking keeps both tables typed.
LEMMA RevokeTyped ==
  ASSUME IdentitiesTyped, CertsTyped, NEW i \in Ids, Revoke(i)
  PROVE  IdentitiesTyped' /\ CertsTyped'
<1>1. IdentitiesTyped'
  BY ZenonT(60) DEF IdentitiesTyped, IsPresent, Revoke, IdentityRow
<1>2. CertsTyped'
  BY ZenonT(60) DEF CertsTyped, IsPresent, Revoke, CertRow
<1> QED
  BY <1>1, <1>2

\* So does activating, with the deadlines it clears and the retirement it sets.
LEMMA ActivateTyped ==
  ASSUME TypeOK, CertsOwned, NEW c \in Certs, ActivateIdentityCertificate(c)
  PROVE  IdentitiesTyped' /\ CertsTyped'
<1>1. cert[c].owner \in Ids
  BY DEF ActivateIdentityCertificate, ActivationOpen, CertsOwned, IsPresent
<1>2. IdentitiesTyped'
  <2> DEFINE r == identity[cert[c].owner]
  <2>1. r \in IdentityRow
    BY <1>1 DEF TypeOK
  <2>2. /\ Activated(r, c) \in IdentityRow
        /\ Activated(r, c).activated = TRUE
        /\ Activated(r, c).deadline = NULL
    BY <2>1 DEF Activated, IdentityRow, Times
  <2>3. identity' = [identity EXCEPT ![cert[c].owner] = Activated(r, c)]
    BY <1>1, TypeParts DEF ActivateIdentityCertificate, IdentitiesTyped
  <2> HIDE DEF r
  <2> QED
    BY <1>1, <2>2, <2>3, TypeParts DEF IdentitiesTyped, IsPresent
<1>3. ASSUME NEW d \in Certs PROVE RetireAt(cert[d]) \in Times
  BY DEF TypeOK, RetireAt, MinOf, CertRow, Times, NULL
<1>4. CertsTyped'
  <2>1. cert' \in [Certs -> CertRow]
    <3>1. ASSUME NEW r \in CertRow, NEW t \in Times
          PROVE  /\ [r EXCEPT !.active = TRUE, !.deadline = NULL, !.retire = NULL] \in CertRow
                 /\ [r EXCEPT !.retire = t] \in CertRow
      BY DEF CertRow, Times
    <3> QED
      BY <1>3, <3>1, TypeParts DEF CertsTyped, ActivateIdentityCertificate, Times
  <2>2. ASSUME NEW d \in Certs, IsPresent(cert'[d])
        PROVE  cert'[d].active <=> cert'[d].deadline = NULL
    BY <2>2, TypeParts DEF CertsTyped, ActivateIdentityCertificate, IsPresent, CertRow
  <2> QED
    BY <2>1, <2>2 DEF CertsTyped, IsPresent
<1> QED
  BY <1>2, <1>4

\* So does the transaction that consumes the key and inserts the two rows.
LEMMA EnrollTyped ==
  ASSUME TypeOK, NEW w \in Workers, NEW i \in Ids, NEW c \in Certs, EnrollCommit(w, i, c)
  PROVE  TypeOK'
<1>1. req[w].key \in Keys
  BY RequestFields DEF EnrollCommit
<1>2. KeysTyped'
  BY <1>1, TypeParts, ZenonT(60) DEF EnrollCommit, KeyStillOpen, KeyOpen, KeysTyped, KeyRow
<1>3. IdentitiesTyped'
  <2>1. key[req[w].key].role \in Roles /\ now \in Nat
    BY <1>1 DEF TypeOK, KeyRow
  <2> QED
    BY <2>1, TypeParts DEF EnrollCommit, IdentitiesTyped, IsPresent, IdentityRow, RowStates,
                           Times, NULL
<1>4. CertsTyped'
  <2>1. now \in Nat
    BY DEF TypeOK
  <2> QED
    BY <2>1, TypeParts DEF EnrollCommit, PendingCertificate, CertsTyped, IsPresent, CertRow,
                           RowStates, Times, NULL
<1>5. LocalsTyped' /\ minted' \in [Keys -> SUBSET Ids] /\ now' \in 0..MaxTime
  BY <1>1, TypeParts DEF EnrollCommit, LocalsTyped, Requests, Idle
<1> QED
  BY <1>2, <1>3, <1>4, <1>5, TypePartsNext

\* No step breaks a type or a CHECK constraint.
LEMMA TypeStep ==
  ASSUME TypeOK, CertsOwned, [Next]_registryVars
  PROVE  TypeOK'
<1> USE TypeParts, TypePartsNext
<1>1. CASE Tick
  BY <1>1 DEF Tick, TypeOK, IsPresent
<1>2. ASSUME NEW k \in Keys, RevokeEnrollmentKey(k) PROVE TypeOK'
  <2>1. KeysTyped'
    BY <1>2 DEF RevokeEnrollmentKey, KeyOpen, KeysTyped, KeyRow
  <2> QED
    BY <1>2, <2>1 DEF RevokeEnrollmentKey, IdentitiesTyped, CertsTyped, LocalsTyped, IsPresent
<1>3. ASSUME NEW k \in Keys, NEW r \in Roles, CreateEnrollmentKey(k, r) PROVE TypeOK'
  <2>1. KeysTyped'
    BY <1>3 DEF CreateEnrollmentKey, KeysTyped, KeyRow, RowStates, Times
  <2> QED
    BY <1>3, <2>1 DEF CreateEnrollmentKey, IdentitiesTyped, CertsTyped, LocalsTyped, IsPresent
<1>4. ASSUME UNCHANGED <<now, key, identity, cert, minted>>, LocalsTyped' PROVE TypeOK'
  BY <1>4 DEF KeysTyped, IdentitiesTyped, CertsTyped, IsPresent
<1>5. ASSUME NEW w \in Workers, NEW k \in Keys, EnrollVerify(w, k) PROVE TypeOK'
  BY <1>4, <1>5 DEF EnrollVerify, LocalsTyped, Requests
<1>6. ASSUME NEW w \in Workers, NEW i \in Ids, NEW c \in Certs, EnrollCommit(w, i, c)
      PROVE  TypeOK'
  BY <1>6, EnrollTyped
<1>7. ASSUME NEW c \in Certs, ActivateIdentityCertificate(c) PROVE TypeOK'
  BY <1>7, ActivateTyped DEF ActivateIdentityCertificate, KeysTyped, LocalsTyped
<1>8. ASSUME NEW w \in Workers, NEW c \in Certs, RenewAuthenticate(w, c) PROVE TypeOK'
  BY <1>4, <1>8 DEF RenewAuthenticate, LocalsTyped, Requests
<1>9. ASSUME NEW w \in Workers, NEW c \in Certs, RenewInsert(w, c) PROVE TypeOK'
  <2>1. req[w].cert \in Certs
    BY <1>9, RequestFields DEF RenewInsert
  <2>2. CertsTyped'
    BY <1>9, <2>1 DEF RenewInsert, PendingCertificate, CertsTyped, IsPresent, CertRow,
                      RowStates, Times, NULL
  <2>3. LocalsTyped'
    BY <1>9 DEF RenewInsert, LocalsTyped, Requests, Idle
  <2> QED
    BY <1>9, <2>2, <2>3 DEF RenewInsert, KeysTyped, IdentitiesTyped, IsPresent
<1>10. ASSUME NEW w \in Workers, NEW c \in Certs, ReplaceAuthenticate(w, c) PROVE TypeOK'
  <2>1. cert[c].owner \in Ids
    BY <1>10 DEF ReplaceAuthenticate, Authenticate, PresentedIsActive, CertsOwned, IsPresent
  <2> QED
    BY <1>4, <1>10, <2>1 DEF ReplaceAuthenticate, LocalsTyped, Requests
<1>11. ASSUME NEW w \in Workers, NEW i \in Ids, ReplaceCheck(w, i) PROVE TypeOK'
  <2>1. req[w].old \in Ids
    BY <1>11, RequestFields DEF ReplaceCheck
  <2> QED
    BY <1>4, <1>11, <2>1 DEF ReplaceCheck, LocalsTyped, Requests
<1>12. ASSUME NEW w \in Workers, NEW i \in Ids, RevokeCount(w, i) PROVE TypeOK'
  BY <1>4, <1>12 DEF RevokeCount, LocalsTyped, Requests
<1>13. ASSUME NEW w \in Workers, RenewName(w) \/ RenewPresented(w) PROVE TypeOK'
  <2>1. PICK at \in {"named", "checked"} : req' = [req EXCEPT ![w].at = at]
    BY <1>13 DEF RenewName, RenewPresented
  <2>2. req[w] = [op |-> "renew", cert |-> req[w].cert, at |-> req[w].at] /\ req[w].cert \in Certs
    BY <1>13, RequestFields DEF RenewName, RenewPresented
  <2>3. [req[w] EXCEPT !.at = at] = [op |-> "renew", cert |-> req[w].cert, at |-> at]
    BY <2>2
  <2>4. LocalsTyped'
    BY <1>13, <2>1, <2>2, <2>3 DEF RenewName, RenewPresented, LocalsTyped, Requests
  <2> QED
    BY <1>4, <1>13, <2>4 DEF RenewName, RenewPresented
<1>14. ASSUME NEW w \in Workers, ReplaceCommit(w) PROVE TypeOK'
  <2>1. req[w].old \in Ids
    BY <1>14, RequestFields DEF ReplaceCommit
  <2> QED
    BY <1>14, <2>1, RevokeTyped DEF ReplaceCommit, KeysTyped, LocalsTyped, Requests, Idle
<1>15. ASSUME NEW w \in Workers, RevokeIdentityRecord(w) PROVE TypeOK'
  <2>1. req[w].id \in Ids
    BY <1>15, RequestFields DEF RevokeIdentityRecord
  <2> QED
    BY <1>15, <2>1, RevokeTyped DEF RevokeIdentityRecord, KeysTyped, LocalsTyped, Requests, Idle
<1>16. ASSUME NEW w \in Workers, Drop(w) PROVE TypeOK'
  BY <1>4, <1>16 DEF Drop, LocalsTyped, Requests, Idle
<1>17. ASSUME NEW i \in Ids, RevokeIdentity(i) PROVE TypeOK'
  BY <1>17, RevokeTyped DEF RevokeIdentity, KeysTyped, LocalsTyped
<1>18. CASE MaintenanceOnce
  <2>1. IdentitiesTyped'
    BY <1>18, ZenonT(60) DEF MaintenanceOnce, Deleted, IdentitiesTyped, IsPresent, IdentityRow, RowStates
  <2>2. CertsTyped'
    BY <1>18 DEF MaintenanceOnce, Deleted, CertsTyped, IsPresent, CertRow, RowStates
  <2> QED
    BY <1>18, <2>1, <2>2 DEF MaintenanceOnce, KeysTyped, LocalsTyped
<1>19. CASE UNCHANGED registryVars
  BY <1>4, <1>19 DEF registryVars, LocalsTyped
<1> QED
  BY <1>1, <1>2, <1>3, <1>5, <1>6, <1>7, <1>8, <1>9, <1>10, <1>11, <1>12, <1>13, <1>14, <1>15,
     <1>16, <1>17, <1>18, <1>19 DEF Next

----------------------------------------------------------------------------
\* What the transactions do to a row, column by column.

\* What activate_identity_certificate checks of the two rows it locks.
LEMMA ActivateOwner ==
  ASSUME CertsOwned, NEW c \in Certs, ActivateIdentityCertificate(c)
  PROVE  /\ cert[c].owner \in Ids /\ cert[c].row = "present"
         /\ ~identity[cert[c].owner].revoked /\ ~cert[c].revoked
         /\ now' = now
  BY DEF ActivateIdentityCertificate, ActivationOpen, CertsOwned, IsPresent

\* What activating c does to the row of a certificate d.
LEMMA ActivateCertRow ==
  ASSUME TypeOK, NEW c \in Certs, ActivateIdentityCertificate(c), NEW d \in Certs
  PROVE  /\ cert'[d].row = cert[d].row
         /\ cert'[d].owner = cert[d].owner
         /\ cert'[d].revoked = cert[d].revoked
         /\ cert'[d].expires = cert[d].expires
         /\ d # c => cert'[d].active = cert[d].active
         /\ Superseded(c, d) => cert'[d].retire # NULL
         /\ d # c /\ ~Superseded(c, d) => cert'[d] = cert[d]
         /\ d = c => cert'[d].active = TRUE /\ cert'[d].retire = NULL
<1>1. cert \in [Certs -> CertRow] /\ now \in Nat
  BY DEF TypeOK
<1>2. /\ cert'[d].row = cert[d].row
      /\ cert'[d].owner = cert[d].owner
      /\ cert'[d].revoked = cert[d].revoked
      /\ cert'[d].expires = cert[d].expires
      /\ d # c => cert'[d].active = cert[d].active
      /\ d # c /\ ~Superseded(c, d) => cert'[d] = cert[d]
  BY <1>1 DEF ActivateIdentityCertificate, CertRow
<1>3. ASSUME Superseded(c, d) PROVE cert'[d].retire # NULL
  <2>1. cert'[d].retire = RetireAt(cert[d]) /\ now < cert[d].expires
    BY <1>1, <1>3 DEF ActivateIdentityCertificate, CertRow, Superseded
  <2>2. cert[d].expires \in Times /\ cert[d].retire \in Times
    BY <1>1 DEF CertRow
  <2> QED
    BY <1>1, <2>1, <2>2 DEF RetireAt, MinOf, Times, NULL
<1>4. d = c => cert'[d].active = TRUE /\ cert'[d].retire = NULL
  BY <1>1 DEF ActivateIdentityCertificate, CertRow
<1> QED
  BY <1>2, <1>3, <1>4

\* What activating c does to the row of an identity i.
LEMMA ActivateIdentityRow ==
  ASSUME TypeOK, CertsOwned, NEW c \in Certs, ActivateIdentityCertificate(c), NEW i \in Ids
  PROVE  /\ identity'[i].row = identity[i].row
         /\ identity'[i].role = identity[i].role
         /\ identity'[i].revoked = identity[i].revoked
         /\ i # cert[c].owner => identity'[i] = identity[i]
         /\ i = cert[c].owner => identity'[i].activated = TRUE /\ identity'[i].current = c
<1>1. cert[c].owner \in Ids
  BY ActivateOwner
<1>2. identity \in [Ids -> IdentityRow]
  BY DEF TypeOK
<1> QED
  BY <1>1, <1>2 DEF ActivateIdentityCertificate, Activated, IdentityRow

\* Revoking i touches only the revocation of i and of its certificates.
LEMMA RevokeRows ==
  ASSUME TypeOK, NEW i \in Ids, Revoke(i)
  PROVE  /\ \A d \in Certs : /\ cert'[d].row = cert[d].row
                             /\ cert'[d].owner = cert[d].owner
                             /\ cert'[d].active = cert[d].active
                             /\ cert'[d].expires = cert[d].expires
                             /\ cert'[d].retire = cert[d].retire
                             /\ IsPresent(cert[d]) /\ cert[d].owner = i => cert'[d].revoked
                             /\ cert[d].owner # i => cert'[d] = cert[d]
         /\ \A j \in Ids : /\ identity'[j].row = identity[j].row
                           /\ identity'[j].role = identity[j].role
                           /\ identity'[j].activated = identity[j].activated
                           /\ identity'[j].current = identity[j].current
                           /\ j # i => identity'[j] = identity[j]
         /\ identity'[i].revoked
<1>1. cert \in [Certs -> CertRow] /\ identity \in [Ids -> IdentityRow]
  BY DEF TypeOK
<1>2. ASSUME NEW d \in Certs
      PROVE  /\ cert'[d].row = cert[d].row
             /\ cert'[d].owner = cert[d].owner
             /\ cert'[d].active = cert[d].active
             /\ cert'[d].expires = cert[d].expires
             /\ cert'[d].retire = cert[d].retire
             /\ IsPresent(cert[d]) /\ cert[d].owner = i => cert'[d].revoked
             /\ cert[d].owner # i => cert'[d] = cert[d]
  BY <1>1 DEF Revoke, CertRow
<1>3. ASSUME NEW j \in Ids
      PROVE  /\ identity'[j].row = identity[j].row
             /\ identity'[j].role = identity[j].role
             /\ identity'[j].activated = identity[j].activated
             /\ identity'[j].current = identity[j].current
             /\ j # i => identity'[j] = identity[j]
  BY <1>1 DEF Revoke, IdentityRow
<1>4. identity'[i].revoked
  BY <1>1 DEF Revoke, IdentityRow
<1> QED
  BY <1>2, <1>3, <1>4

\* Maintenance deletes rows and changes no other column.
LEMMA SweepRows ==
  ASSUME TypeOK, MaintenanceOnce
  PROVE  /\ \A d \in Certs : /\ cert'[d].owner = cert[d].owner
                             /\ cert'[d].row = "unused" <=> cert[d].row = "unused"
                             /\ IsPresent(cert'[d]) => cert'[d] = cert[d] /\ ~Swept(d)
                             /\ ~Swept(d) => cert'[d] = cert[d]
         /\ \A j \in Ids : /\ identity'[j].role = identity[j].role
                           /\ identity'[j].row = "unused" <=> identity[j].row = "unused"
                           /\ IsPresent(identity'[j]) =>
                                 identity'[j] = identity[j] /\ ~LapsedIdentity(j)
                           /\ ~LapsedIdentity(j) => identity'[j] = identity[j]
<1>1. cert \in [Certs -> CertRow] /\ identity \in [Ids -> IdentityRow]
  BY DEF TypeOK
<1>2. ASSUME NEW d \in Certs
      PROVE  /\ cert'[d].owner = cert[d].owner
             /\ Swept(d) => cert'[d].row = "deleted" /\ cert[d].row = "present"
             /\ ~Swept(d) => cert'[d] = cert[d]
  BY <1>1 DEF MaintenanceOnce, Deleted, CertRow, Swept, LapsedCertificate, IsPresent
<1>3. ASSUME NEW j \in Ids
      PROVE  /\ identity'[j].role = identity[j].role
             /\ LapsedIdentity(j) => identity'[j].row = "deleted" /\ identity[j].row = "present"
             /\ ~LapsedIdentity(j) => identity'[j] = identity[j]
  BY <1>1 DEF MaintenanceOnce, Deleted, IdentityRow, LapsedIdentity, IsPresent
<1> QED
  BY <1>2, <1>3 DEF IsPresent

\* Only five kinds of transaction touch identities and certificates.
LEMMA TableSteps ==
  ASSUME [Next]_registryVars
  PROVE  \/ UNCHANGED <<identity, cert>>
         \/ \E w \in Workers, i \in Ids, c \in Certs : EnrollCommit(w, i, c)
         \/ \E c \in Certs : ActivateIdentityCertificate(c)
         \/ \E w \in Workers, c \in Certs : RenewInsert(w, c)
         \/ \E i \in Ids : RevokeIdentity(i)
         \/ \E w \in Workers : ReplaceCommit(w) \/ RevokeIdentityRecord(w)
         \/ MaintenanceOnce
  BY DEF Next, registryVars, Tick, RevokeEnrollmentKey, CreateEnrollmentKey, EnrollVerify,
         RenewAuthenticate, ReplaceAuthenticate, ReplaceCheck, RevokeCount, RenewName,
         RenewPresented, Drop

\* The clock never goes back.
LEMMA ClockAdvances ==
  ASSUME TypeOK, [Next]_registryVars
  PROVE  now \in Nat /\ now' \in Nat /\ now <= now'
<1>1. now \in Nat
  BY DEF TypeOK
<1>2. CASE Tick
  BY <1>1, <1>2 DEF Tick
<1>3. CASE UNCHANGED now
  BY <1>1, <1>3
<1> QED
  BY <1>2, <1>3 DEF Next, registryVars, RevokeEnrollmentKey, CreateEnrollmentKey, EnrollVerify,
         EnrollCommit, ActivateIdentityCertificate, RenewAuthenticate, RenewInsert,
         ReplaceAuthenticate, ReplaceCheck, RevokeCount, RenewName, RenewPresented,
         ReplaceCommit, RevokeIdentityRecord, Drop, RevokeIdentity, MaintenanceOnce

----------------------------------------------------------------------------
\* Invitations are consumed by their one enrollment.
LEMMA KeysCountedStep ==
  ASSUME TypeOK, KeysCounted, [Next]_registryVars
  PROVE  KeysCounted'
<1>1. key \in [Keys -> KeyRow] /\ minted \in [Keys -> SUBSET Ids]
  BY DEF TypeOK
<1>2. ASSUME NEW k \in Keys, RevokeEnrollmentKey(k) PROVE KeysCounted'
  BY <1>1, <1>2 DEF RevokeEnrollmentKey, KeysCounted, KeyRow
<1>3. ASSUME NEW k \in Keys, NEW r \in Roles, CreateEnrollmentKey(k, r) PROVE KeysCounted'
  BY <1>1, <1>3 DEF CreateEnrollmentKey, KeysCounted, KeyRow
<1>4. ASSUME NEW w \in Workers, NEW i \in Ids, NEW c \in Certs, EnrollCommit(w, i, c)
      PROVE  KeysCounted'
  <2> DEFINE k == req[w].key
  <2>1. k \in Keys
    BY <1>4, RequestFields DEF EnrollCommit
  <2>2. minted[k] = {} /\ key[k].row = "present"
    BY <1>4, <2>1 DEF EnrollCommit, KeyStillOpen, KeyOpen, IsPresent, KeysCounted
  <2>3. minted' = [minted EXCEPT ![k] = {i}]
    BY <1>1, <1>4, <2>1, <2>2 DEF EnrollCommit
  <2>4. /\ key'[k].consumed /\ key'[k].row = "present"
        /\ \A x \in Keys : x # k => key'[x] = key[x]
    BY <1>1, <1>4, <2>1, <2>2 DEF EnrollCommit, KeyRow
  <2> HIDE DEF k
  <2> QED
    BY <1>1, <2>1, <2>3, <2>4 DEF KeysCounted
<1>5. CASE UNCHANGED <<key, minted>>
  BY <1>5 DEF KeysCounted
<1> QED
  BY <1>2, <1>3, <1>4, <1>5 DEF Next, registryVars, Tick, EnrollVerify,
         ActivateIdentityCertificate, RenewAuthenticate, RenewInsert,
         ReplaceAuthenticate, ReplaceCheck, RevokeCount, RenewName, RenewPresented,
         ReplaceCommit, RevokeIdentityRecord, Drop, RevokeIdentity, MaintenanceOnce

\* A renewal inserts its certificate for the owner of one that was inserted.
LEMMA CertsOwnedStep ==
  ASSUME TypeOK, CertsOwned, RequestsSound, [Next]_registryVars
  PROVE  CertsOwned'
<1>1. cert \in [Certs -> CertRow]
  BY DEF TypeOK
<1>2. CASE UNCHANGED <<identity, cert>>
  BY <1>2 DEF CertsOwned
<1>3. ASSUME NEW w \in Workers, NEW i \in Ids, NEW c \in Certs, EnrollCommit(w, i, c)
      PROVE  CertsOwned'
  BY <1>1, <1>3 DEF EnrollCommit, PendingCertificate, CertsOwned
<1>4. ASSUME NEW c \in Certs, ActivateIdentityCertificate(c) PROVE CertsOwned'
  BY <1>4, ActivateCertRow DEF CertsOwned
<1>5. ASSUME NEW w \in Workers, NEW c \in Certs, RenewInsert(w, c) PROVE CertsOwned'
  <2>1. req[w].cert \in Certs /\ cert[req[w].cert].row # "unused"
    BY <1>5, RequestFields DEF RenewInsert, RequestsSound, RequestSound
  <2> QED
    BY <1>1, <1>5, <2>1 DEF RenewInsert, PendingCertificate, CertsOwned
<1>6. ASSUME NEW i \in Ids, Revoke(i) PROVE CertsOwned'
  BY <1>6, RevokeRows DEF CertsOwned
<1>7. CASE MaintenanceOnce
  BY <1>7, SweepRows DEF CertsOwned
<1> QED
  BY <1>2, <1>3, <1>4, <1>5, <1>6, <1>7, TableSteps, RequestFields
     DEF RevokeIdentity, ReplaceCommit, RevokeIdentityRecord

----------------------------------------------------------------------------
\* An identity keeps one certificate that lasts.
LEMMA OneCurrentStep ==
  ASSUME TypeOK, CertsOwned, OneCurrentCertificate, [Next]_registryVars
  PROVE  OneCurrentCertificate'
<1> USE DEF IsPresent
<1>1. /\ cert \in [Certs -> CertRow] /\ identity \in [Ids -> IdentityRow]
      /\ now \in Nat /\ now' \in Nat /\ now <= now'
  BY ClockAdvances DEF TypeOK
<1>2. ASSUME NEW c \in Certs PROVE cert[c].expires \in Int
  BY <1>1 DEF CertRow, Times, NULL
<1>3. CASE UNCHANGED <<identity, cert>>
  BY <1>1, <1>2, <1>3 DEF OneCurrentCertificate
<1>4. ASSUME NEW w \in Workers, NEW i \in Ids, NEW c \in Certs, EnrollCommit(w, i, c)
      PROVE  OneCurrentCertificate'
  <2>1. cert[c].row = "unused" /\ ~cert'[c].active
    BY <1>1, <1>4 DEF EnrollCommit, PendingCertificate
  <2>2. ~identity'[i].activated /\ now' = now
    BY <1>1, <1>4 DEF EnrollCommit
  <2>3. /\ \A d \in Certs : d # c => cert'[d] = cert[d]
        /\ \A j \in Ids : j # i => identity'[j] = identity[j]
    BY <1>1, <1>4 DEF EnrollCommit
  <2> QED
    BY <2>1, <2>2, <2>3 DEF OneCurrentCertificate
<1>5. ASSUME NEW c \in Certs, ActivateIdentityCertificate(c) PROVE OneCurrentCertificate'
  <2> DEFINE o == cert[c].owner
  <2>1. /\ o \in Ids /\ now' = now
        /\ ~identity[o].revoked /\ ~cert[c].revoked /\ cert[c].row = "present"
    BY <1>5, ActivateOwner
  <2>2. ASSUME NEW d \in Certs, d # c, cert'[d].row = "present", cert'[d].owner = o,
               cert'[d].active
        PROVE  cert'[d].revoked \/ cert'[d].expires <= now' \/ cert'[d].retire # NULL
    <3>1. /\ cert[d].row = "present" /\ cert[d].owner = o /\ cert[d].active
          /\ cert'[d].revoked = cert[d].revoked /\ cert'[d].expires = cert[d].expires
          /\ Superseded(c, d) => cert'[d].retire # NULL
      BY <1>5, <2>2, ActivateCertRow, ZenonT(60)
    <3>2. CASE Superseded(c, d)
      BY <3>1, <3>2
    <3>3. CASE ~Superseded(c, d)
      <4>1. cert[d].revoked \/ ~(now < cert[d].expires)
        BY <2>2, <3>1, <3>3 DEF Superseded
      <4> QED
        BY <1>1, <1>2, <2>1, <3>1, <4>1
    <3> QED
      BY <3>2, <3>3
  <2>3. ASSUME NEW i \in Ids, i # o, identity'[i].row = "present", identity'[i].activated
        PROVE  LET m == identity'[i].current IN
               /\ m \in Certs
               /\ cert'[m].row = "present" /\ cert'[m].owner = i /\ cert'[m].active
               /\ cert'[m].retire = NULL
               /\ cert'[m].revoked <=> identity'[i].revoked
               /\ \A d \in Certs :
                    d # m /\ cert'[d].row = "present" /\ cert'[d].owner = i /\ cert'[d].active =>
                       cert'[d].revoked \/ cert'[d].expires <= now' \/ cert'[d].retire # NULL
    <3>1. identity'[i] = identity[i]
      BY <1>5, <2>3, ActivateIdentityRow
    <3>2. ASSUME NEW d \in Certs
          PROVE  cert'[d].owner = cert[d].owner /\ (cert[d].owner = i => cert'[d] = cert[d])
      <4>1. /\ cert'[d].owner = cert[d].owner
            /\ d # c /\ ~Superseded(c, d) => cert'[d] = cert[d]
        BY <1>5, ActivateCertRow
      <4> QED
        BY <2>3, <4>1 DEF Superseded
    <3> HIDE DEF o
    <3> QED
      BY <2>1, <2>3, <3>1, <3>2 DEF OneCurrentCertificate
  <2>4. /\ cert'[c].row = "present" /\ cert'[c].owner = o /\ cert'[c].active
        /\ cert'[c].retire = NULL /\ ~cert'[c].revoked
        /\ identity'[o].current = c /\ ~identity'[o].revoked
    BY <1>5, <2>1, ActivateCertRow, ActivateIdentityRow, ZenonT(60)
  <2> HIDE DEF o
  <2> QED
    BY <2>2, <2>3, <2>4 DEF OneCurrentCertificate
<1>6. ASSUME NEW w \in Workers, NEW c \in Certs, RenewInsert(w, c) PROVE OneCurrentCertificate'
  <2>1. /\ cert[c].row = "unused" /\ ~cert'[c].active
        /\ \A d \in Certs : d # c => cert'[d] = cert[d]
        /\ UNCHANGED <<identity, now>>
    BY <1>1, <1>6 DEF RenewInsert, PendingCertificate
  <2> QED
    BY <2>1 DEF OneCurrentCertificate
<1>7. ASSUME NEW i \in Ids, Revoke(i), UNCHANGED now PROVE OneCurrentCertificate'
  BY <1>7, RevokeRows DEF OneCurrentCertificate
<1>8. CASE MaintenanceOnce
  <2>1. ASSUME NEW i \in Ids, identity'[i].row = "present", identity'[i].activated
        PROVE  cert'[identity[i].current] = cert[identity[i].current] /\ identity'[i] = identity[i]
    <3>1. identity'[i] = identity[i] /\ ~LapsedIdentity(i)
      BY <1>8, <2>1, SweepRows
    <3>2. LET m == identity[i].current IN
          m \in Certs /\ cert[m].row = "present" /\ cert[m].owner = i /\ cert[m].active
      BY <2>1, <3>1 DEF OneCurrentCertificate
    <3> QED
      BY <1>8, <3>1, <3>2, SweepRows DEF Swept, LapsedCertificate
  <2>2. UNCHANGED now
    BY <1>8 DEF MaintenanceOnce
  <2> QED
    BY <1>8, <2>1, <2>2, SweepRows DEF OneCurrentCertificate
<1> QED
  BY <1>3, <1>4, <1>5, <1>6, <1>7, <1>8, TableSteps, RequestFields
     DEF RevokeIdentity, ReplaceCommit, RevokeIdentityRecord

\* ActivationOpen refuses the certificates of a revoked identity.
LEMMA InertParts == RevokedIsInert <=> Inert
<1>1. ASSUME NEW c \in Certs, identity[cert[c].owner].revoked PROVE ~ActivationOpen(c)
  BY <1>1 DEF ActivationOpen
<1> QED
  BY <1>1 DEF RevokedIsInert, Inert

\* The same of the next state.
LEMMA InertPartsNext == RevokedIsInert' <=> Inert'
<1>1. ASSUME NEW c \in Certs, identity'[cert'[c].owner].revoked PROVE ~ActivationOpen(c)'
  BY <1>1 DEF ActivationOpen
<1> QED
  BY <1>1 DEF RevokedIsInert, Inert

\* Nothing revives a revoked identity.
LEMMA RevokedIsInertStep ==
  ASSUME TypeOK, CertsOwned, RequestsSound, RevokedIsInert, [Next]_registryVars
  PROVE  RevokedIsInert'
<1> USE DEF IsPresent
<1>1. /\ cert \in [Certs -> CertRow] /\ identity \in [Ids -> IdentityRow]
      /\ CertsOwned'
  BY CertsOwnedStep DEF TypeOK
<1>2. Inert
  BY InertParts
<1>3. ASSUME UNCHANGED <<identity, cert>> PROVE Inert'
  BY <1>2, <1>3 DEF Inert
<1>4. ASSUME NEW w \in Workers, NEW i \in Ids, NEW c \in Certs, EnrollCommit(w, i, c)
      PROVE  Inert'
  <2>1. /\ cert[c].row = "unused" /\ ~cert'[c].active
        /\ ~identity'[i].revoked
        /\ \A d \in Certs : d # c => cert'[d] = cert[d]
        /\ \A j \in Ids : j # i => identity'[j] = identity[j]
    BY <1>1, <1>4 DEF EnrollCommit, PendingCertificate
  <2> QED
    BY <1>1, <1>2, <2>1 DEF CertsOwned, Inert
<1>5. ASSUME NEW c \in Certs, ActivateIdentityCertificate(c) PROVE Inert'
  <2>1. ~identity[cert[c].owner].revoked
    BY <1>5 DEF ActivateIdentityCertificate, ActivationOpen
  <2>2. ASSUME NEW d \in Certs
        PROVE  /\ cert'[d].row = cert[d].row /\ cert'[d].owner = cert[d].owner
               /\ cert'[d].revoked = cert[d].revoked
               /\ d # c => cert'[d].active = cert[d].active
    BY <1>5, ActivateCertRow, ZenonT(60)
  <2>3. ASSUME NEW i \in Ids
        PROVE  identity'[i].row = identity[i].row /\ identity'[i].revoked = identity[i].revoked
    BY <1>5, ActivateIdentityRow
  <2> QED
    BY <1>1, <1>2, <2>1, <2>2, <2>3 DEF CertsOwned, Inert
<1>6. ASSUME NEW w \in Workers, NEW c \in Certs, RenewInsert(w, c) PROVE Inert'
  <2>1. /\ ~cert'[c].active
        /\ \A d \in Certs : d # c => cert'[d] = cert[d]
        /\ UNCHANGED identity
    BY <1>1, <1>6 DEF RenewInsert, PendingCertificate
  <2> QED
    BY <1>2, <2>1 DEF Inert
<1>7. ASSUME NEW i \in Ids, Revoke(i) PROVE Inert'
  BY <1>1, <1>2, <1>7, RevokeRows DEF CertsOwned, Inert
<1>8. ASSUME MaintenanceOnce PROVE Inert'
  <2>1. ASSUME NEW d \in Certs PROVE cert'[d].row = "present" => cert'[d] = cert[d]
    BY <1>8, SweepRows
  <2>2. ASSUME NEW i \in Ids PROVE identity'[i].row = "present" => identity'[i] = identity[i]
    BY <1>8, SweepRows
  <2> QED
    BY <1>1, <1>2, <2>1, <2>2 DEF CertsOwned, Inert
<1>9. Inert'
  BY <1>3, <1>4, <1>5, <1>6, <1>7, <1>8, TableSteps, RequestFields
     DEF RevokeIdentity, ReplaceCommit, RevokeIdentityRecord
<1> QED
  BY <1>9, InertPartsNext

----------------------------------------------------------------------------
\* A row that was inserted stays inserted or deleted, and its role is fixed.
LEMMA RowsKept ==
  ASSUME TypeOK, CertsOwned, RequestsSound, [Next]_registryVars
  PROVE  /\ \A d \in Certs : cert[d].row # "unused" => cert'[d].row # "unused"
         /\ \A j \in Ids : identity[j].row # "unused" =>
               identity'[j].row # "unused" /\ identity'[j].role = identity[j].role
<1> DEFINE Kept == /\ \A d \in Certs : cert[d].row # "unused" => cert'[d].row # "unused"
                   /\ \A j \in Ids : identity[j].row # "unused" =>
                         identity'[j].row # "unused" /\ identity'[j].role = identity[j].role
<1>1. cert \in [Certs -> CertRow] /\ identity \in [Ids -> IdentityRow]
  BY DEF TypeOK
<1>2. ASSUME UNCHANGED <<identity, cert>> PROVE Kept
  BY <1>2
<1>3. ASSUME NEW w \in Workers, NEW i \in Ids, NEW c \in Certs, EnrollCommit(w, i, c)
      PROVE  Kept
  BY <1>1, <1>3 DEF EnrollCommit, PendingCertificate
<1>4. ASSUME NEW c \in Certs, ActivateIdentityCertificate(c) PROVE Kept
  BY <1>4, ActivateCertRow, ActivateIdentityRow
<1>5. ASSUME NEW w \in Workers, NEW c \in Certs, RenewInsert(w, c) PROVE Kept
  BY <1>1, <1>5 DEF RenewInsert, PendingCertificate
<1>6. ASSUME NEW i \in Ids, Revoke(i) PROVE Kept
  BY <1>6, RevokeRows
<1>7. ASSUME MaintenanceOnce PROVE Kept
  BY <1>7, SweepRows
<1> HIDE DEF Kept
<1>8. Kept
  BY <1>2, <1>3, <1>4, <1>5, <1>6, <1>7, TableSteps, RequestFields
     DEF RevokeIdentity, ReplaceCommit, RevokeIdentityRecord
<1> QED
  BY <1>8 DEF Kept

\* An Admin stops being one only by the console's revocation.
LEMMA AdminsKept ==
  ASSUME TypeOK, CertsOwned, RequestsSound, [Next]_registryVars, NEW a \in ActiveAdmins
  PROVE  \/ a \in ActiveAdmins'
         \/ \E w \in Workers : RevokeIdentityRecord(w) /\ req[w].id = a
<1>1. cert \in [Certs -> CertRow] /\ identity \in [Ids -> IdentityRow]
  BY DEF TypeOK
<1>2. /\ a \in Ids /\ identity[a].role = "admin" /\ identity[a].row = "present"
      /\ identity[a].activated /\ ~identity[a].revoked
  BY DEF ActiveAdmins, Standing, IsPresent
<1>3. ASSUME identity'[a] = identity[a] PROVE a \in ActiveAdmins'
  BY <1>2, <1>3 DEF ActiveAdmins, Standing, IsPresent
<1>4. ASSUME UNCHANGED <<identity, cert>> PROVE a \in ActiveAdmins'
  BY <1>3, <1>4
<1>5. ASSUME NEW w \in Workers, NEW i \in Ids, NEW c \in Certs, EnrollCommit(w, i, c)
      PROVE  a \in ActiveAdmins'
  BY <1>1, <1>2, <1>3, <1>5 DEF EnrollCommit
<1>6. ASSUME NEW c \in Certs, ActivateIdentityCertificate(c) PROVE a \in ActiveAdmins'
  <2>1. /\ identity'[a].row = identity[a].row /\ identity'[a].role = identity[a].role
        /\ identity'[a].revoked = identity[a].revoked
        /\ a # cert[c].owner => identity'[a] = identity[a]
        /\ a = cert[c].owner => identity'[a].activated = TRUE
    BY <1>2, <1>6, ActivateIdentityRow, ZenonT(60)
  <2> QED
    BY <1>2, <1>3, <2>1 DEF ActiveAdmins, Standing, IsPresent
<1>7. ASSUME NEW i \in Ids, Revoke(i), identity[i].role = "client" PROVE a \in ActiveAdmins'
  <2>1. a # i
    BY <1>2, <1>7
  <2> QED
    BY <1>2, <1>3, <1>7, <2>1, RevokeRows
<1>8. ASSUME NEW w \in Workers, ReplaceCommit(w) PROVE a \in ActiveAdmins'
  <2>1. req[w].old \in Ids /\ identity[req[w].old].role = "client" /\ Revoke(req[w].old)
    BY <1>8, RequestFields DEF ReplaceCommit, RequestsSound, RequestSound
  <2> QED
    BY <1>7, <2>1
<1>9. ASSUME NEW w \in Workers, RevokeIdentityRecord(w), req[w].id # a
      PROVE  a \in ActiveAdmins'
  <2>1. req[w].id \in Ids /\ Revoke(req[w].id)
    BY <1>9, RequestFields DEF RevokeIdentityRecord
  <2> QED
    BY <1>2, <1>3, <1>9, <2>1, RevokeRows
<1>10. ASSUME MaintenanceOnce PROVE a \in ActiveAdmins'
  <2>1. ~LapsedIdentity(a)
    BY <1>2 DEF LapsedIdentity
  <2> QED
    BY <1>2, <1>3, <1>10, <2>1, SweepRows
<1>11. ASSUME NEW w \in Workers, NEW c \in Certs, RenewInsert(w, c) PROVE a \in ActiveAdmins'
  BY <1>3, <1>11 DEF RenewInsert
<1> QED
  BY <1>4, <1>5, <1>6, <1>7, <1>8, <1>9, <1>10, <1>11, TableSteps DEF RevokeIdentity

\* The holder of the advisory lock is the only console at its revocation.
LEMMA OneRevoker ==
  ASSUME RequestsSound, NEW v \in Workers, NEW w \in Workers,
         req[v].op = "revoke", req[w].op = "revoke"
  PROVE  v = w
  BY DEF RequestsSound, RequestSound

\* What a step does to one request, and to the lock it may hold.
LEMMA RequestSteps ==
  ASSUME TypeOK, [Next]_registryVars, NEW w \in Workers
  PROVE  \/ req'[w] = req[w] /\ (req[w].op = "revoke" /\ advisory = w => advisory' = w)
         \/ req'[w] = Idle
         \/ \E k \in Keys : EnrollVerify(w, k)
         \/ \E c \in Certs : RenewAuthenticate(w, c) \/ ReplaceAuthenticate(w, c)
         \/ \E i \in Ids : ReplaceCheck(w, i) \/ RevokeCount(w, i)
         \/ RenewName(w) \/ RenewPresented(w)
<1> DEFINE Same == req'[w] = req[w] /\ (req[w].op = "revoke" /\ advisory = w => advisory' = w)
           Ends == req'[w] = Idle
<1>1. req \in [Workers -> Requests]
  BY DEF TypeOK
<1>2. ASSUME UNCHANGED <<req, advisory>> PROVE Same
  BY <1>2
<1>3. ASSUME NEW v \in Workers, v # w, NEW r, req' = [req EXCEPT ![v] = r], UNCHANGED advisory
      PROVE  Same
  BY <1>1, <1>3
<1>4. ASSUME NEW v \in Workers, req' = [req EXCEPT ![v] = Idle],
             advisory' = (IF advisory = v THEN None ELSE advisory) \/ UNCHANGED advisory
      PROVE  Same \/ Ends
  BY <1>1, <1>4
<1>5. ASSUME NEW v \in Workers, v # w, NEW i \in Ids, RevokeCount(v, i) PROVE Same
  BY <1>1, <1>5 DEF RevokeCount, AdvisoryFree
<1>6. ASSUME NEW v \in Workers, v # w, RenewName(v) \/ RenewPresented(v) PROVE Same
  BY <1>1, <1>6 DEF RenewName, RenewPresented
<1>7. ASSUME NEW v \in Workers,
             \/ \E i \in Ids, c \in Certs : EnrollCommit(v, i, c)
             \/ \E c \in Certs : RenewInsert(v, c)
             \/ ReplaceCommit(v) \/ RevokeIdentityRecord(v) \/ Drop(v)
      PROVE  Same \/ Ends
  BY <1>4, <1>7 DEF EnrollCommit, RenewInsert, ReplaceCommit, RevokeIdentityRecord, Drop
<1>8. ASSUME NEW v \in Workers, v # w,
             \/ \E k \in Keys : EnrollVerify(v, k)
             \/ \E c \in Certs : RenewAuthenticate(v, c) \/ ReplaceAuthenticate(v, c)
             \/ \E i \in Ids : ReplaceCheck(v, i)
      PROVE  Same
  BY <1>3, <1>8 DEF EnrollVerify, RenewAuthenticate, ReplaceAuthenticate, ReplaceCheck
<1>9. ASSUME \/ Tick \/ MaintenanceOnce \/ UNCHANGED registryVars
             \/ \E k \in Keys : RevokeEnrollmentKey(k)
             \/ \E k \in Keys, r \in Roles : CreateEnrollmentKey(k, r)
             \/ \E c \in Certs : ActivateIdentityCertificate(c)
             \/ \E i \in Ids : RevokeIdentity(i)
      PROVE  Same
  BY <1>2, <1>9 DEF Tick, MaintenanceOnce, registryVars, RevokeEnrollmentKey,
                    CreateEnrollmentKey, ActivateIdentityCertificate, RevokeIdentity
<1> HIDE DEF Same, Ends
<1>10. \/ Same \/ Ends
       \/ \E k \in Keys : EnrollVerify(w, k)
       \/ \E c \in Certs : RenewAuthenticate(w, c) \/ ReplaceAuthenticate(w, c)
       \/ \E i \in Ids : ReplaceCheck(w, i) \/ RevokeCount(w, i)
       \/ RenewName(w) \/ RenewPresented(w)
  BY <1>5, <1>6, <1>7, <1>8, <1>9 DEF Next
<1> QED
  BY <1>10 DEF Same, Ends

\* What a request knows stays true while other requests run.
LEMMA RequestsSoundStep ==
  ASSUME TypeOK, CertsOwned, RequestsSound, [Next]_registryVars
  PROVE  RequestsSound'
<1> SUFFICES ASSUME NEW w \in Workers PROVE RequestSound(w)'
  BY DEF RequestsSound
<1>1. req \in [Workers -> Requests] /\ RequestSound(w)
  BY DEF TypeOK, RequestsSound
<1>2. ASSUME req'[w] = req[w], req[w].op = "revoke" /\ advisory = w => advisory' = w
      PROVE  RequestSound(w)'
  <2>1. req[w].op = "renew" => cert'[req[w].cert].row # "unused"
    BY <1>1, RequestFields, RowsKept DEF RequestSound
  <2>2. req[w].op \in {"replace", "replacing"} =>
           identity'[req[w].old].row # "unused" /\ identity'[req[w].old].role = "client"
    BY <1>1, RequestFields, RowsKept DEF RequestSound
  <2>3. ASSUME req[w].op = "revoke"
        PROVE  /\ advisory' = w
               /\ identity'[req[w].id].row # "unused"
               /\ identity'[req[w].id].role = identity[req[w].id].role
    BY <1>1, <1>2, <2>3, RequestFields, RowsKept DEF RequestSound
  <2>4. ASSUME req[w].op = "revoke", identity[req[w].id].role = "admin"
        PROVE  ActiveAdmins' \ {req[w].id} # {}
    <3>1. PICK a \in ActiveAdmins : a # req[w].id
      BY <1>1, <2>4 DEF RequestSound
    <3>2. ASSUME NEW v \in Workers, RevokeIdentityRecord(v) PROVE req[v].id # a
      BY <2>4, <3>1, <3>2, OneRevoker DEF RevokeIdentityRecord
    <3>3. a \in ActiveAdmins'
      BY <3>2, AdminsKept
    <3> QED
      BY <3>1, <3>3
  <2> QED
    BY <1>2, <2>1, <2>2, <2>3, <2>4 DEF RequestSound
<1>3. ASSUME req'[w] = Idle PROVE RequestSound(w)'
  BY <1>3 DEF RequestSound, Idle
<1>4. ASSUME NEW k \in Keys, EnrollVerify(w, k) PROVE RequestSound(w)'
  <2>1. req'[w] = [op |-> "enroll", key |-> k]
    BY <1>1, <1>4 DEF EnrollVerify
  <2> QED
    BY <2>1 DEF RequestSound
<1>5. ASSUME NEW c \in Certs, RenewAuthenticate(w, c) PROVE RequestSound(w)'
  <2>1. /\ req'[w] = [op |-> "renew", cert |-> c, at |-> "authenticated"]
        /\ cert'[c].row # "unused"
    BY <1>1, <1>5 DEF RenewAuthenticate, Authenticate, PresentedIsActive, IsPresent
  <2> QED
    BY <2>1 DEF RequestSound
<1>6. ASSUME NEW c \in Certs, ReplaceAuthenticate(w, c) PROVE RequestSound(w)'
  <2>1. /\ req'[w] = [op |-> "replace", old |-> cert[c].owner]
        /\ identity'[cert[c].owner].row # "unused" /\ identity'[cert[c].owner].role = "client"
    BY <1>1, <1>6 DEF ReplaceAuthenticate, Authenticate, Standing, IsPresent
  <2> QED
    BY <2>1 DEF RequestSound
<1>7. ASSUME NEW i \in Ids, ReplaceCheck(w, i) PROVE RequestSound(w)'
  <2>1. /\ req'[w] = [op |-> "replacing", old |-> req[w].old, new |-> i]
        /\ req[w].op = "replace" /\ UNCHANGED identity
    BY <1>1, <1>7 DEF ReplaceCheck
  <2> QED
    BY <1>1, <2>1 DEF RequestSound
<1>8. ASSUME NEW i \in Ids, RevokeCount(w, i) PROVE RequestSound(w)'
  <2>1. /\ req'[w] = [op |-> "revoke", id |-> i] /\ advisory' = w
        /\ identity'[i].row # "unused"
        /\ identity'[i].role = "admin" => Cardinality(ActiveAdmins) > 1
        /\ ActiveAdmins' = ActiveAdmins
    BY <1>1, <1>8 DEF RevokeCount, ActiveAdmins, Standing
  <2> QED
    BY <2>1, AnotherAdmin DEF RequestSound
<1>9. ASSUME RenewName(w) \/ RenewPresented(w) PROVE RequestSound(w)'
  <2>1. PICK at \in {"named", "checked"} : req' = [req EXCEPT ![w].at = at]
    BY <1>9 DEF RenewName, RenewPresented
  <2>2. /\ req[w] = [op |-> "renew", cert |-> req[w].cert, at |-> req[w].at]
        /\ UNCHANGED cert /\ cert[req[w].cert].row # "unused"
    BY <1>1, <1>9, RequestFields DEF RenewName, RenewPresented, RequestSound
  <2>3. req'[w] = [op |-> "renew", cert |-> req[w].cert, at |-> at]
    BY <1>1, <2>1, <2>2
  <2> QED
    BY <2>2, <2>3 DEF RequestSound
<1> QED
  BY <1>2, <1>3, <1>4, <1>5, <1>6, <1>7, <1>8, <1>9, RequestSteps

----------------------------------------------------------------------------
\* The invariant is inductive.
LEMMA StepHolds == RegistryInv /\ [Next]_registryVars => RegistryInv'
  BY TypeStep, KeysCountedStep, CertsOwnedStep, RequestsSoundStep, OneCurrentStep,
     RevokedIsInertStep DEF RegistryInv

\* The registry's invariant holds in every reachable state, however the
\* requests of services.rs and manage.rs interleave.
THEOREM RegistryInvariant == Spec => []RegistryInv
  BY InitHolds, StepHolds, PTL DEF Spec

\* enroll consumes an invitation at most once, and never a revoked one,
\* although the secret is verified outside the transaction that consumes it.
THEOREM RegistrySingleUse == Spec => []SingleUse
<1>1. RegistryInv => SingleUse
  <2> SUFFICES ASSUME RegistryInv, NEW k \in Keys
               PROVE  /\ \A i, j \in minted[k] : i = j
                      /\ key[k].revoked => minted[k] = {}
    BY DEF SingleUse
  <2> QED
    BY DEF RegistryInv, TypeOK, KeysCounted
<1> QED
  BY <1>1, RegistryInvariant, PTL

\* activate_identity_certificate, renewals and maintenance_once leave every
\* activated identity exactly one active certificate without an end date.
THEOREM RegistryOneCurrent == Spec => []OneCurrentCertificate
<1>1. RegistryInv => OneCurrentCertificate
  BY DEF RegistryInv
<1> QED
  BY <1>1, RegistryInvariant, PTL

\* Once an identity is revoked no certificate of it is both active and
\* unrevoked or could be activated, a late renewal's included.
THEOREM RegistryRevokedInert == Spec => []RevokedIsInert
<1>1. RegistryInv => RevokedIsInert
  BY DEF RegistryInv
<1> QED
  BY <1>1, RegistryInvariant, PTL

\* No step of any request takes the last active Admin away: the count that
\* revoke_identity_record makes under the advisory lock is still right when
\* it revokes.
THEOREM RegistryLastAdmin == Spec => LastAdminKept
<1>1. ASSUME RegistryInv, [Next]_registryVars, ActiveAdmins # {}
      PROVE  ActiveAdmins' # {}
  <2>1. TypeOK /\ CertsOwned /\ RequestsSound
    BY <1>1 DEF RegistryInv
  <2>2. PICK a : a \in ActiveAdmins
    BY <1>1
  <2>3. CASE a \in ActiveAdmins'
    BY <2>3
  <2>4. ASSUME NEW w \in Workers, RevokeIdentityRecord(w), req[w].id = a
        PROVE  ActiveAdmins' # {}
    <3>1. PICK b \in ActiveAdmins : b # a
      <4>1. req[w].op = "revoke" /\ identity[a].role = "admin" /\ RequestSound(w)
        BY <2>1, <2>2, <2>4 DEF RevokeIdentityRecord, ActiveAdmins, RequestsSound
      <4> QED
        BY <2>4, <4>1 DEF RequestSound
    <3>2. ASSUME NEW v \in Workers, RevokeIdentityRecord(v) PROVE req[v].id # b
      BY <2>1, <2>4, <3>1, <3>2, OneRevoker DEF RevokeIdentityRecord
    <3> QED
      BY <1>1, <2>1, <3>2, AdminsKept
  <2> QED
    BY <1>1, <2>1, <2>2, <2>3, <2>4, AdminsKept
<1>2. RegistryInv /\ [Next]_registryVars => [ActiveAdmins # {} => ActiveAdmins' # {}]_registryVars
  BY <1>1
<1> QED
  BY <1>2, RegistryInvariant, PTL DEF Spec, LastAdminKept

-----------------------------------------------------------------------------
(***************************************************************************)
(* The control streams of the identities (ControlStreams).  A stream       *)
(* enters client_streams under its own client, and the task that removes   *)
(* an entry or ends is, if it is registered at all, the one it looks for.  *)
(***************************************************************************)

\* The parts of StreamTypeOK that the registry depends on.
RoutesTyped ==
    /\ task \in [Streams -> Tasks]
    /\ owner \in [Streams -> Clients \cup {NoOne}]
    /\ registry \in [Clients -> Streams \cup {NoOne}]

RouteInv == RoutesTyped /\ RegisteredIsRunning

\* A stream that is registered for a client is that client's, and its task
\* has not ended: a task outside of Running is nowhere in the registry.
LEMMA IdleIsUnregistered ==
  ASSUME RouteInv, NEW s \in Streams, task[s] \notin Running, NEW i \in Clients
  PROVE  registry[i] # s \/ s = NoOne
  BY DEF RouteInv, RegisteredIsRunning

\* A step that leaves owner and registry alone and keeps the task of every
\* registered stream running preserves the invariant.
LEMMA RouteUnchanged ==
  ASSUME RouteInv, NEW s \in Streams, NEW there \in Tasks,
         task' = [task EXCEPT ![s] = there], UNCHANGED <<owner, registry>>,
         there \in Running \/ \A i \in Clients : registry[i] # s \/ s = NoOne
  PROVE  RouteInv'
<1>1. RoutesTyped'
  BY DEF RouteInv, RoutesTyped
<1>2. ASSUME NEW i \in Clients, registry'[i] # NoOne
      PROVE  owner'[registry'[i]] = i /\ task'[registry'[i]] \in Running
  <2>1. registry[i] \in Streams /\ owner[registry[i]] = i /\ task[registry[i]] \in Running
    BY <1>2 DEF RouteInv, RoutesTyped, RegisteredIsRunning
  <2>2. CASE registry[i] = s
    BY <1>2, <2>1, <2>2 DEF RouteInv, RoutesTyped
  <2>3. CASE registry[i] # s
    BY <1>2, <2>1, <2>3 DEF RouteInv, RoutesTyped
  <2> QED
    BY <2>2, <2>3
<1> QED
  BY <1>1, <1>2 DEF RouteInv, RegisteredIsRunning

\* A new stream is not registered yet, so that its owner may be set.
LEMMA RouteAuthenticate ==
  ASSUME RouteInv, NEW s \in Streams, NEW i \in Clients, AuthenticateStream(s, i)
  PROVE  RouteInv'
<1>1. RoutesTyped'
  BY DEF RouteInv, RoutesTyped, AuthenticateStream, Goto, Tasks
<1>2. ASSUME NEW c \in Clients, registry'[c] # NoOne
      PROVE  owner'[registry'[c]] = c /\ task'[registry'[c]] \in Running
  <2>1. /\ registry[c] \in Streams /\ registry' = registry
        /\ owner[registry[c]] = c /\ task[registry[c]] \in Running
    BY <1>2 DEF RouteInv, RoutesTyped, RegisteredIsRunning, AuthenticateStream
  <2>2. registry[c] # s
    BY <2>1 DEF AuthenticateStream, Running, Sending
  <2> QED
    BY <2>1, <2>2 DEF RouteInv, RoutesTyped, AuthenticateStream, Goto
<1> QED
  BY <1>1, <1>2 DEF RouteInv, RegisteredIsRunning

\* register_client_stream puts a stream that starts to run under its own
\* client, in the place of whichever was there.
LEMMA RouteHello ==
  ASSUME RouteInv, NEW s \in Streams, HandleClientHello(s)
  PROVE  RouteInv'
<1>1. RoutesTyped'
  BY DEF RouteInv, RoutesTyped, HandleClientHello, Register, Goto, Tasks
<1>2. ASSUME NEW c \in Clients, registry'[c] # NoOne
      PROVE  owner'[registry'[c]] = c /\ task'[registry'[c]] \in Running
  <2>1. /\ task' = [task EXCEPT ![s] = "live"] /\ owner' = owner
        /\ registry' = [registry EXCEPT ![owner[s]] = s] /\ task[s] = "hello"
    BY DEF HandleClientHello, Register, Goto
  <2>2. CASE owner[s] = c
    BY <2>1, <2>2 DEF RouteInv, RoutesTyped, Running
  <2>3. CASE owner[s] # c
    <3>1. registry'[c] = registry[c]
      BY <2>1, <2>3 DEF RouteInv, RoutesTyped
    <3>2. /\ registry[c] \in Streams /\ owner[registry[c]] = c
          /\ task[registry[c]] \in Running
      BY <1>2, <3>1 DEF RouteInv, RoutesTyped, RegisteredIsRunning
    <3>3. registry[c] # s
      BY <2>1, <3>2 DEF Running, Sending
    <3> QED
      BY <2>1, <3>1, <3>2, <3>3 DEF RouteInv, RoutesTyped
  <2> QED
    BY <2>2, <2>3
<1> QED
  BY <1>1, <1>2 DEF RouteInv, RegisteredIsRunning

\* unregister_client_stream, its first lock: a task that does not find itself
\* under its client is registered nowhere.
LEMMA RouteCheck ==
  ASSUME RouteInv, NEW s \in Streams, UnregisterCheck(s)
  PROVE  RouteInv'
<1>1. UNCHANGED <<owner, registry>>
  BY DEF UnregisterCheck
<1>2. CASE registry[owner[s]] = s
  <2>1. task' = [task EXCEPT ![s] = "removing"]
    BY <1>2 DEF UnregisterCheck, Goto
  <2> QED
    BY <1>1, <2>1, RouteUnchanged DEF Running, Tasks
<1>3. CASE registry[owner[s]] # s
  <2>1. task' = [task EXCEPT ![s] = "done"]
    BY <1>3 DEF UnregisterCheck, Goto
  <2>2. \A i \in Clients : registry[i] # s \/ s = NoOne
    BY <1>3 DEF RouteInv, RegisteredIsRunning
  <2> QED
    BY <1>1, <2>1, <2>2, RouteUnchanged DEF Tasks
<1> QED
  BY <1>2, <1>3

\* Its second lock: afterwards nobody is registered for the client, so that
\* the task that ends is not either.
LEMMA RouteRemove ==
  ASSUME RouteInv, NEW s \in Streams, UnregisterRemove(s)
  PROVE  RouteInv'
<1>1. RoutesTyped'
  BY DEF RouteInv, RoutesTyped, UnregisterRemove, Goto, Tasks
<1>2. ASSUME NEW c \in Clients, registry'[c] # NoOne
      PROVE  owner'[registry'[c]] = c /\ task'[registry'[c]] \in Running
  <2>1. /\ task' = [task EXCEPT ![s] = "done"] /\ owner' = owner
        /\ registry' = [registry EXCEPT ![owner[s]] = NoOne]
    BY DEF UnregisterRemove, Goto
  <2>2. owner[s] # c /\ registry'[c] = registry[c]
    BY <1>2, <2>1 DEF RouteInv, RoutesTyped
  <2>3. /\ registry[c] \in Streams /\ owner[registry[c]] = c
        /\ task[registry[c]] \in Running
    BY <1>2, <2>2 DEF RouteInv, RoutesTyped, RegisteredIsRunning
  <2> QED
    BY <2>1, <2>2, <2>3 DEF RouteInv, RoutesTyped
<1> QED
  BY <1>1, <1>2 DEF RouteInv, RegisteredIsRunning

\* The steps of a running task up to the unregistration.
LEMMA RouteRuns ==
  ASSUME RouteInv, NEW s \in Streams,
         \/ HelloFails(s) \/ AuthorizationTick(s) \/ StreamEnds(s) \/ Sent(s)
         \/ \E answer \in {"answering", "refusing"} : ReceiveFrame(s, answer)
  PROVE  RouteInv'
<1>1. CASE HelloFails(s)
  <2>1. task[s] \notin Running /\ "done" \in Tasks
    BY <1>1 DEF HelloFails, Running, Sending, Tasks
  <2> QED
    BY <1>1, <2>1, IdleIsUnregistered, RouteUnchanged DEF HelloFails, Goto
<1>2. CASE AuthorizationTick(s)
  BY <1>2, RouteUnchanged DEF AuthorizationTick, Goto, Running, Tasks, Sending
<1>3. CASE StreamEnds(s)
  BY <1>3, RouteUnchanged DEF StreamEnds, Goto, Running, Tasks
<1>4. CASE Sent(s)
  <2>1. PICK there \in Running \cap Tasks : task' = [task EXCEPT ![s] = there]
    <3>1. \A t \in Sending : AfterSend[t] \subseteq Running \cap Tasks
      BY DEF AfterSend, Sending, Running, Tasks
    <3>2. "leaving" \in Running \cap Tasks /\ task[s] \in Sending
      BY <1>4 DEF Running, Tasks, Sent
    <3> QED
      BY <1>4, <3>1, <3>2 DEF Sent, Goto
  <2> QED
    BY <1>4, <2>1, RouteUnchanged DEF Sent
<1>5. ASSUME NEW answer \in {"answering", "refusing"}, ReceiveFrame(s, answer)
      PROVE  RouteInv'
  BY <1>5, RouteUnchanged DEF ReceiveFrame, Goto, Running, Tasks, Sending
<1> QED
  BY <1>1, <1>2, <1>3, <1>4, <1>5

\* client_streams never keeps the sender of a stream whose task has ended or
\* that authenticated as somebody else, whatever reconnections, revocations
\* and removals interleave, for any number of clients and streams.
THEOREM StreamsRegistered == StreamSpec => []RegisteredIsRunning
<1>1. StreamInit => RouteInv
  BY DEF StreamInit, RouteInv, RoutesTyped, RegisteredIsRunning, Tasks
<1>2. ASSUME RouteInv, [StreamNext]_streamVars PROVE RouteInv'
  <2>1. CASE UNCHANGED <<task, owner, registry>>
    BY <1>2, <2>1 DEF RouteInv, RoutesTyped, RegisteredIsRunning
  <2>2. ASSUME NEW s \in Streams, TaskStep(s) PROVE RouteInv'
    BY <1>2, <2>2, RouteHello, RouteCheck, RouteRemove, RouteRuns DEF TaskStep
  <2>3. ASSUME NEW s \in Streams, PeerReads(s) \/ PeerGone(s)
        PROVE  UNCHANGED <<task, owner, registry>>
    BY <2>3 DEF PeerReads, PeerGone
  <2>4. ASSUME NEW i \in Clients, Deauthorize(i)
        PROVE  UNCHANGED <<task, owner, registry>>
    BY <2>4 DEF Deauthorize
  <2> QED
    BY <1>2, <2>1, <2>2, <2>3, <2>4, RouteRuns, RouteAuthenticate
       DEF StreamNext, streamVars
<1>3. RouteInv => RegisteredIsRunning
  BY DEF RouteInv
<1> QED
  BY <1>1, <1>2, <1>3, PTL DEF StreamSpec

-----------------------------------------------------------------------------
(***************************************************************************)
(* The audit trail (AuditTrail).                                           *)
(*                                                                         *)
(* Three things carry the argument.  Whoever holds the advisory lock, a    *)
(* handler's transaction or the reconciling one, is the only one that      *)
(* appends, so that the tail it read is still the tail and the number it   *)
(* drew is above all others (Chain).  Only the last line of the journal    *)
(* may be torn, and the holder of the configuration lock knows which lines *)
(* it has brought over (Journal).  Entries come with numbers above all     *)
(* that an export has passed (Export).                                     *)
(***************************************************************************)

\* No two rows have the same number or the same id.
Distinct(rows) ==
    \A x, y \in rows : x.seq = y.seq \/ x.id = y.id => x = y

\* Rows below any number have a last one.
Headed(rows) ==
    \A n \in Nat : {x \in rows : x.seq < n} # {} =>
        \E t \in rows : t.seq < n /\ \A x \in rows : x.seq < n => x.seq <= t.seq

Chained(rows) == Distinct(rows) /\ Headed(rows) /\ Links(rows, Nil)

Appending == {"locked", "read", "inserted"}

ChainTyped ==
    /\ entries \subseteq Entry /\ staged \subseteq Entry
    /\ nextSeq \in Nat \ {0} /\ nextId \in Nat \ {0}
    /\ writer \in [Writers -> [pc : {"idle", "begun"} \cup Appending,
                               kind : {"plain", "enroll", "activate"},
                               who : RecordIds \cup {Nil}, prev : RecordIds \cup {Nil},
                               id : RecordIds \cup {Nil}, seq : Nat]]
    /\ pending \subseteq RecordIds
    /\ journal \in Seq(Line) /\ batch \in Seq(RecordIds)

\* Who appends holds the advisory lock.
OneAppends ==
    /\ \A w \in Writers : writer[w].pc \in Appending => chainLock = w
    /\ chainLock = Server <=> step = "insert"
    /\ chainLock # Server => staged = {}

\* The numbers drawn are above those in use, and the tail that was read is
\* still the tail.
Drawn(w) ==
    /\ writer[w].pc \in {"read", "inserted"} => writer[w].prev = ChainTail
    /\ writer[w].pc = "inserted" =>
           /\ writer[w].seq \in Nat \ {0} /\ writer[w].seq < nextSeq
           /\ \A x \in entries : x.seq < writer[w].seq

\* A handler's record is its own.
OwnId(w) ==
    writer[w].pc # "idle" =>
        /\ writer[w].id \in RecordIds /\ writer[w].id < nextId
        /\ writer[w].kind = "activate" => writer[w].who \in RecordIds
        /\ \A x \in Visible : x.id # writer[w].id
        /\ \A n \in DOMAIN journal : journal[n].id # writer[w].id
        /\ \A n \in DOMAIN batch : batch[n] # writer[w].id
        /\ \A v \in Writers \ {w} : writer[v].pc # "idle" => writer[v].id # writer[w].id

\* Nothing has a number or an id yet to be given out, and no row is both
\* committed and staged.
Numbered ==
    /\ entries \cap staged = {}
    /\ \A x \in Visible : x.seq < nextSeq /\ x.id < nextId
    /\ \A n \in DOMAIN journal : journal[n].id < nextId
    /\ \A n \in DOMAIN batch : batch[n] < nextId

ChainInv ==
    /\ ChainTyped /\ OneAppends /\ Numbered
    /\ Chained(entries) /\ Chained(Visible)
    /\ \A w \in Writers : Drawn(w) /\ OwnId(w)

\* Who does what under the configuration lock.
HolderOK ==
    /\ step \in {"idle", "repair", "rewrite", "append", "sync", "parse", "lock",
                 "insert", "remove"}
    /\ configLock \in Recorders \cup {Server, Nil}
    /\ configLock = Nil <=> step = "idle"
    /\ step \in {"parse", "lock", "insert", "remove"} => configLock = Server
    /\ step \in {"append", "sync"} => configLock # Server
    /\ configLock \in Recorders => Len(batch) = 1

\* A line counts once it is whole; only the last one can be torn.
LinesOK ==
    /\ \A n \in DOMAIN journal : n < Len(journal) => journal[n].is # "torn"
    /\ step = "rewrite" => Torn
    /\ step = "append" => ~Torn
    /\ step = "sync" => journal # <<>> /\ Last(journal) = [id |-> batch[1], is |-> "whole"]

\* The records of the journal are still to be looked at, or have been brought
\* over.
BroughtOver ==
    /\ step \in {"lock", "insert"} =>
           \A n \in DOMAIN journal :
               \/ \E m \in DOMAIN batch : batch[m] = journal[n].id
               \/ \E x \in Visible : x.id = journal[n].id
    /\ step = "remove" =>
           \A n \in DOMAIN journal : \E x \in entries : x.id = journal[n].id

JournalInv == HolderOK /\ LinesOK /\ BroughtOver /\ AckedIsKept

\* Two rows are the same entry, whatever became of the identity it is about.
Same(x, y) == x.id = y.id /\ x.seq = y.seq

FilesOK ==
    /\ files # {} => \E f \in files : \A g \in files : g.to <= f.to
    /\ \A f \in files :
           /\ f.to \in Nat \ {0} /\ f.tail \in RecordIds
           /\ \E x \in entries : f.to <= x.seq
           /\ \A x \in entries : x.seq <= f.to => \E g \in files : x.id \in g.ids
           /\ \A i \in f.ids : \E x \in entries : x.id = i /\ x.seq <= f.to
           /\ \A g \in files : f # g =>
                  /\ f.to # g.to
                  /\ f.to < g.to => \A x \in entries : x.id \in g.ids => f.to < x.seq

\* What an exporter has read is what there was after the newest file.
WindowOK(e) ==
    /\ exporter[e].pc \in {"tail", "rows"} =>
           /\ exporter[e].from \in Nat
           /\ \A f \in files : f.to <= exporter[e].from
           /\ exporter[e].from = 0 \/ \E f \in files : f.to = exporter[e].from
    /\ exporter[e].pc = "rows" /\ exporter[e].rows # {} =>
           \E t \in exporter[e].rows :
               /\ \A x \in exporter[e].rows :
                      /\ exporter[e].from < x.seq /\ x.seq <= t.seq
                      /\ \E y \in entries : Same(x, y)
               /\ \A y \in entries : exporter[e].from < y.seq /\ y.seq <= t.seq =>
                      \E x \in exporter[e].rows : Same(x, y)

\* What is staged comes after what is committed.
StagedAbove == \A x \in entries, y \in staged : x.seq < y.seq

ExportInv ==
    /\ exporter \in [Exporters -> [pc : {"idle", "tail", "rows"}, from : Nat,
                                   tail : RecordIds \cup {Nil}, rows : SUBSET Entry]]
    /\ FilesOK /\ StagedAbove
    /\ \A e \in Exporters : WindowOK(e)

-----------------------------------------------------------------------------
\* The row with the largest number gives the tail.
LEMMA TailIs ==
  ASSUME NEW rows, rows \subseteq Entry, Distinct(rows), NEW before,
         NEW t \in rows, \A x \in rows : x.seq <= t.seq
  PROVE  TailOf(rows, before) = t.id
<1>1. /\ LastOf(rows) \in rows
      /\ \A y \in rows : y.seq <= LastOf(rows).seq
  BY DEF LastOf
<1>2. \A x \in rows : x.seq \in Nat
  BY DEF Entry
<1>3. LastOf(rows).seq = t.seq
  BY <1>1, <1>2
<1> QED
  BY <1>1, <1>3 DEF TailOf, Distinct

\* Rows that all lie below a number have a last one.
LEMMA HasLast ==
  ASSUME NEW rows, rows \subseteq Entry, Headed(rows), rows # {},
         NEW n \in Nat, \A x \in rows : x.seq < n
  PROVE  \E t \in rows : \A x \in rows : x.seq <= t.seq
<1>1. {x \in rows : x.seq < n} # {}
  OBVIOUS
<1> QED
  BY <1>1 DEF Headed

\* Appending a row above all others, with the tail as its predecessor, keeps
\* a chain one.
LEMMA ChainGrows ==
  ASSUME NEW rows, rows \subseteq Entry, Chained(rows), NEW new \in Entry,
         \A x \in rows : x.seq < new.seq /\ x.id # new.id,
         new.prev = TailOf(rows, Nil)
  PROVE  Chained(rows \cup {new})
<1> DEFINE more == rows \cup {new}
<1>1. \A x \in more : x.seq \in Nat
  BY DEF Entry
<1>2. Distinct(more)
  <2> SUFFICES ASSUME NEW x \in more, NEW y \in more, x.seq = y.seq \/ x.id = y.id
               PROVE  x = y
    BY DEF Distinct
  <2>1. CASE x \in rows /\ y \in rows
    BY <2>1 DEF Chained, Distinct
  <2>2. CASE ~(x \in rows /\ y \in rows)
    BY <1>1, <2>2
  <2> QED
    BY <2>1, <2>2
<1>3. Headed(more)
  <2> SUFFICES ASSUME NEW n \in Nat, NEW z \in more, z.seq < n
               PROVE  \E t \in more : t.seq < n /\ \A x \in more : x.seq < n => x.seq <= t.seq
    BY DEF Headed
  <2>1. CASE new.seq < n
    BY <1>1, <2>1
  <2>2. CASE ~(new.seq < n)
    <3>1. z \in rows
      BY <2>2
    <3>2. PICK t \in rows : t.seq < n /\ \A x \in rows : x.seq < n => x.seq <= t.seq
      BY <3>1 DEF Chained, Headed
    <3> QED
      BY <2>2, <3>2
  <2> QED
    BY <2>1, <2>2
<1>4. Links(more, Nil)
  <2> SUFFICES ASSUME NEW x \in more
               PROVE  x.prev = TailOf({y \in more : y.seq < x.seq}, Nil)
    BY DEF Links
  <2>1. CASE x = new
    <3>1. {y \in more : y.seq < x.seq} = rows
      BY <1>1, <2>1
    <3> QED
      BY <2>1, <3>1
  <2>2. CASE x \in rows
    <3>1. {y \in more : y.seq < x.seq} = {y \in rows : y.seq < x.seq}
      BY <1>1, <2>2
    <3>2. x.prev = TailOf({y \in rows : y.seq < x.seq}, Nil)
      BY <2>2 DEF Chained, Links
    <3> QED
      BY <3>1, <3>2
  <2> QED
    BY <2>1, <2>2
<1> QED
  BY <1>2, <1>3, <1>4 DEF Chained

\* Two sets of rows that agree in ids, numbers and predecessors, and differ
\* in what the entries are about.
Agrees(x, y) == Same(x, y) /\ x.prev = y.prev

Renamed(rows, new) ==
    /\ \A x \in rows : \E y \in new : Agrees(x, y)
    /\ \A y \in new : \E x \in rows : Agrees(x, y)
    /\ Distinct(new)

\* They have the same tail.
LEMMA RenamedTail ==
  ASSUME NEW rows, NEW new, rows \subseteq Entry, new \subseteq Entry,
         Chained(rows), Renamed(rows, new), NEW n \in Nat,
         NEW below, below = {x \in rows : x.seq < n},
         NEW after, after = {x \in new : x.seq < n}
  PROVE  TailOf(after, Nil) = TailOf(below, Nil)
<1>1. CASE below = {}
  <2>1. after = {}
    BY <1>1 DEF Renamed, Agrees, Same
  <2> QED
    BY <1>1, <2>1 DEF TailOf
<1>2. CASE below # {}
  <2>1. PICK t \in below : \A x \in below : x.seq <= t.seq
    BY <1>2 DEF Chained, Headed
  <2>2. PICK s \in new : Agrees(t, s)
    BY <2>1 DEF Renamed
  <2>3. s \in after /\ \A y \in after : y.seq <= s.seq
    BY <2>1, <2>2 DEF Renamed, Agrees, Same
  <2>4. Distinct(below) /\ Distinct(after) /\ below \subseteq Entry /\ after \subseteq Entry
    BY DEF Chained, Renamed, Distinct
  <2>5. TailOf(below, Nil) = t.id /\ TailOf(after, Nil) = s.id
    BY <2>1, <2>3, <2>4, TailIs
  <2> QED
    BY <2>2, <2>5 DEF Agrees, Same
<1> QED
  BY <1>1, <1>2

\* And one is a chain if the other is.
LEMMA RenamedChain ==
  ASSUME NEW rows, NEW new, rows \subseteq Entry, new \subseteq Entry,
         Chained(rows), Renamed(rows, new)
  PROVE  Chained(new)
<1>1. Headed(new)
  <2> SUFFICES ASSUME NEW n \in Nat, NEW z \in new, z.seq < n
               PROVE  \E t \in new : t.seq < n /\ \A x \in new : x.seq < n => x.seq <= t.seq
    BY DEF Headed
  <2>1. PICK u \in rows : Agrees(u, z)
    BY DEF Renamed
  <2>2. PICK t \in rows : t.seq < n /\ \A x \in rows : x.seq < n => x.seq <= t.seq
    BY <2>1 DEF Chained, Headed, Agrees, Same
  <2>3. PICK s \in new : Agrees(t, s)
    BY <2>2 DEF Renamed
  <2> QED
    BY <2>2, <2>3 DEF Renamed, Agrees, Same
<1>2. Links(new, Nil)
  <2> SUFFICES ASSUME NEW y \in new
               PROVE  y.prev = TailOf({z \in new : z.seq < y.seq}, Nil)
    BY DEF Links
  <2>1. PICK x \in rows : Agrees(x, y)
    BY DEF Renamed
  <2>2. y.seq \in Nat /\ x.seq = y.seq /\ x.prev = y.prev
    BY <2>1 DEF Entry, Agrees, Same
  <2>3. TailOf({z \in new : z.seq < y.seq}, Nil) = TailOf({z \in rows : z.seq < y.seq}, Nil)
    BY <2>2, RenamedTail
  <2>4. x.prev = TailOf({z \in rows : z.seq < x.seq}, Nil)
    BY <2>1 DEF Chained, Links
  <2> QED
    BY <2>2, <2>3, <2>4
<1> QED
  BY <1>1, <1>2 DEF Chained, Renamed

-----------------------------------------------------------------------------
\* An id the journal, the batch or the counter has given out.
Known(i) ==
    \/ \E n \in DOMAIN journal : journal[n].id = i
    \/ \E n \in DOMAIN batch : batch[n] = i
    \/ i = nextId /\ nextId' = nextId + 1

\* An element of a sequence.
LEMMA Element ==
  ASSUME NEW S, NEW q \in Seq(S), NEW n \in DOMAIN q
  PROVE  q[n] \in S
  OBVIOUS

\* Ids and numbers are numbers.
LEMMA Numbers ==
  ASSUME ChainTyped
  PROVE  /\ nextId \in Nat /\ nextSeq \in Nat /\ RecordIds \subseteq Nat
         /\ \A x \in Visible : x.id \in RecordIds /\ x.seq \in Nat
         /\ \A n \in DOMAIN journal : journal[n].id \in RecordIds
         /\ \A n \in DOMAIN batch : batch[n] \in RecordIds
<1>1. nextId \in Nat /\ nextSeq \in Nat /\ RecordIds \subseteq Nat
  BY DEF ChainTyped, RecordIds
<1>2. \A x \in Visible : x.id \in RecordIds /\ x.seq \in Nat
  BY DEF ChainTyped, Visible, Entry
<1>3. \A n \in DOMAIN journal : journal[n] \in Line
  BY Element DEF ChainTyped
<1>4. \A n \in DOMAIN journal : journal[n].id \in RecordIds
  BY <1>3 DEF Line
<1>5. \A n \in DOMAIN batch : batch[n] \in RecordIds
  BY Element DEF ChainTyped
<1> QED
  BY <1>1, <1>2, <1>4, <1>5

\* Steps with the journal, of exporters and of processes do not touch the
\* chain, as long as the records they handle are known.
LEMMA ChainFrame ==
  ASSUME ChainInv, UNCHANGED db, step' = "insert" <=> step = "insert",
         nextId' \in {nextId, nextId + 1},
         journal' \in Seq(Line), batch' \in Seq(RecordIds),
         \A n \in DOMAIN journal' : Known(journal'[n].id),
         \A n \in DOMAIN batch' : Known(batch'[n])
  PROVE  ChainInv'
<1>1. /\ entries' = entries /\ staged' = staged /\ nextSeq' = nextSeq
      /\ chainLock' = chainLock /\ writer' = writer /\ pending' = pending
  BY DEF db
<1>2. ChainTyped'
  BY <1>1 DEF ChainInv, ChainTyped
<1>3. OneAppends'
  BY <1>1 DEF ChainInv, OneAppends
<1>4. \A i : Known(i) => i < nextId'
  <2>1. ChainTyped /\ Numbered
    BY DEF ChainInv
  <2> QED
    BY <2>1, Numbers DEF Numbered, Known
<1>5. Visible' = Visible /\ ChainTail' = ChainTail
  BY <1>1 DEF Visible, ChainTail
<1>6. Numbered'
  <2>1. \A x \in Visible : x.seq < nextSeq /\ x.id < nextId'
    <3>1. ChainTyped /\ Numbered
      BY DEF ChainInv
    <3> QED
      BY <3>1, Numbers DEF Numbered
  <2> QED
    BY <1>1, <1>4, <1>5, <2>1 DEF Numbered, ChainInv
<1>7. Chained(entries)' /\ Chained(Visible)'
  BY <1>1, <1>5 DEF ChainInv, Chained, Distinct, Headed, Links
<1>8. ASSUME NEW w \in Writers PROVE Drawn(w)' /\ OwnId(w)'
  <2>1. Drawn(w)'
    BY <1>1, <1>5 DEF ChainInv, Drawn
  <2>2. writer[w].pc # "idle" =>
            /\ writer[w].id \in RecordIds /\ writer[w].id < nextId
            /\ \A i : Known(i) => i # writer[w].id
    <3>1. nextId \in Nat /\ OwnId(w)
      BY DEF ChainInv, ChainTyped
    <3> QED
      BY <3>1 DEF OwnId, Known, RecordIds
  <2>3. writer[w].pc # "idle" => writer[w].id < nextId'
    BY <2>2 DEF ChainInv, ChainTyped, RecordIds
  <2>4. OwnId(w)
    BY DEF ChainInv
  <2> QED
    BY <1>1, <1>5, <2>1, <2>2, <2>3, <2>4 DEF OwnId
<1> QED
  BY <1>2, <1>3, <1>6, <1>7, <1>8 DEF ChainInv

\* A transaction begins, with a record of its own.
LEMMA ChainBegin ==
  ASSUME ChainInv, NEW w \in Writers, NEW k, NEW i \in pending \cup {Nil}, Begin(w, k, i)
  PROVE  ChainInv'
<1>1. /\ entries' = entries /\ staged' = staged /\ nextSeq' = nextSeq
      /\ chainLock' = chainLock /\ pending' = pending /\ journal' = journal
      /\ batch' = batch /\ step' = step /\ nextId' = nextId + 1 /\ k \in Kinds
      /\ nextId <= MaxIds /\ writer[w].pc = "idle"
  BY DEF Begin, local
<1>2. ChainTyped
  BY DEF ChainInv
<1>3. nextId \in RecordIds
  BY <1>1, <1>2, AuditAssumption DEF ChainTyped, RecordIds
<1> DEFINE r == [pc |-> "begun", kind |-> k, who |-> i, prev |-> Nil, id |-> nextId, seq |-> 0]
<1>4. writer' = [writer EXCEPT ![w] = r]
  BY DEF Begin
<1>5. writer'[w] = r /\ \A v \in Writers \ {w} : writer'[v] = writer[v]
  BY <1>2, <1>4 DEF ChainTyped
<1>6. ChainTyped'
  <2>1. r \in [pc : {"idle", "begun"} \cup Appending,
               kind : {"plain", "enroll", "activate"},
               who : RecordIds \cup {Nil}, prev : RecordIds \cup {Nil},
               id : RecordIds \cup {Nil}, seq : Nat]
    BY <1>1, <1>2, <1>3, AuditAssumption DEF ChainTyped
  <2> QED
    BY <1>1, <1>2, <1>4, <2>1 DEF ChainTyped
<1>7. OneAppends'
  <2>1. OneAppends
    BY DEF ChainInv
  <2> QED
    BY <1>1, <1>5, <2>1 DEF OneAppends, Appending
<1>8. Visible' = Visible /\ ChainTail' = ChainTail
  BY <1>1 DEF Visible, ChainTail
<1>9. Numbered'
  <2>1. Numbered
    BY DEF ChainInv
  <2> QED
    BY <1>1, <1>2, <1>8, <2>1, Numbers DEF Numbered
<1>10. Chained(entries)' /\ Chained(Visible)'
  BY <1>1, <1>8 DEF ChainInv, Chained, Distinct, Headed, Links
<1>11. ASSUME NEW v \in Writers PROVE Drawn(v)'
  <2>1. CASE v = w
    BY <1>5, <2>1 DEF Drawn
  <2>2. CASE v # w
    BY <1>1, <1>5, <1>8, <2>2 DEF Drawn, ChainInv
  <2> QED
    BY <2>1, <2>2
<1>12. ASSUME NEW v \in Writers PROVE OwnId(v)'
  <2>1. nextId \in Nat /\ Numbered
    BY <1>2 DEF ChainTyped, ChainInv
  <2>2. CASE v = w
    <3>1. /\ \A x \in Visible : x.id # nextId
          /\ \A n \in DOMAIN journal : journal[n].id # nextId
          /\ \A n \in DOMAIN batch : batch[n] # nextId
      BY <2>1 DEF Numbered
    <3>2. \A u \in Writers : writer[u].pc # "idle" => writer[u].id # nextId
      BY <2>1 DEF ChainInv, OwnId
    <3>3. k = "activate" => i \in RecordIds
      BY <1>2 DEF Begin, ChainTyped
    <3> QED
      BY <1>1, <1>3, <1>5, <1>8, <2>1, <2>2, <3>1, <3>2, <3>3 DEF OwnId
  <2>3. CASE v # w
    <3>1. OwnId(v)
      BY DEF ChainInv
    <3>2. writer[v].pc # "idle" => writer[v].id < nextId + 1 /\ writer[v].id # nextId
      BY <2>1, <3>1 DEF OwnId, RecordIds
    <3> QED
      BY <1>1, <1>5, <1>8, <2>3, <3>1, <3>2 DEF OwnId
  <2> QED
    BY <2>2, <2>3
<1> QED
  BY <1>6, <1>7, <1>9, <1>10, <1>11, <1>12 DEF ChainInv

Transaction ==
    [pc : {"idle", "begun"} \cup Appending, kind : {"plain", "enroll", "activate"},
     who : RecordIds \cup {Nil}, prev : RecordIds \cup {Nil},
     id : RecordIds \cup {Nil}, seq : Nat]

\* A transaction goes on, or ends without a trace but the number it drew.
LEMMA ChainMove ==
  ASSUME ChainInv, NEW w \in Writers, NEW r \in Transaction,
         writer' = [writer EXCEPT ![w] = r],
         UNCHANGED <<entries, staged, pending, journal, batch, step, nextId>>,
         nextSeq' \in {nextSeq, nextSeq + 1},
         \/ r.pc = "idle"
         \/ /\ writer[w].pc # "idle" /\ r.id = writer[w].id
            /\ r.kind = writer[w].kind /\ r.who = writer[w].who,
         OneAppends', Drawn(w)'
  PROVE  ChainInv'
<1>1. ChainTyped
  BY DEF ChainInv
<1>2. writer'[w] = r /\ \A v \in Writers \ {w} : writer'[v] = writer[v]
  BY <1>1 DEF ChainTyped
<1>3. ChainTyped'
  BY <1>1 DEF ChainTyped, Transaction
<1>4. Visible' = Visible /\ ChainTail' = ChainTail
  BY DEF Visible, ChainTail
<1>5. Numbered'
  <2>1. Numbered
    BY DEF ChainInv
  <2> QED
    BY <1>1, <1>4, <2>1, Numbers DEF Numbered
<1>6. Chained(entries)' /\ Chained(Visible)'
  BY <1>4 DEF ChainInv, Chained, Distinct, Headed, Links
<1>7. ASSUME NEW v \in Writers, v # w PROVE Drawn(v)'
  <2>1. Drawn(v) /\ nextSeq \in Nat
    BY <1>1 DEF ChainInv, ChainTyped
  <2> QED
    BY <1>2, <1>4, <1>7, <2>1 DEF Drawn
<1>8. ASSUME NEW v \in Writers PROVE OwnId(v)'
  <2>1. OwnId(v)
    BY DEF ChainInv
  <2>2. CASE v # w
    BY <1>2, <1>4, <2>1, <2>2 DEF OwnId
  <2>3. CASE v = w
    BY <1>2, <1>4, <2>1, <2>3 DEF OwnId
  <2> QED
    BY <2>2, <2>3
<1> QED
  BY <1>3, <1>5, <1>6, <1>7, <1>8 DEF ChainInv

\* pg_advisory_xact_lock.
LEMMA ChainLock ==
  ASSUME ChainInv, NEW w \in Writers, LockAudit(w)
  PROVE  ChainInv'
<1> DEFINE r == [writer[w] EXCEPT !.pc = "locked"]
<1>1. ChainTyped /\ OneAppends /\ writer[w] \in Transaction
  BY DEF ChainInv, ChainTyped, Transaction
<1>2. /\ writer' = [writer EXCEPT ![w] = r]
      /\ UNCHANGED <<entries, nextSeq, staged, pending, journal, batch, step, nextId>>
      /\ writer[w].pc = "begun" /\ chainLock = Nil /\ chainLock' = w
  BY DEF LockAudit, local
<1>3. r \in Transaction /\ r.pc = "locked" /\ r.id = writer[w].id
      /\ r.kind = writer[w].kind /\ r.who = writer[w].who
  BY <1>1 DEF Transaction, Appending
<1>4. writer'[w] = r /\ \A v \in Writers \ {w} : writer'[v] = writer[v]
  BY <1>1, <1>2 DEF ChainTyped
<1>5. OneAppends'
  BY <1>1, <1>2, <1>4, AuditAssumption DEF OneAppends
<1>6. Drawn(w)'
  BY <1>3, <1>4 DEF Drawn
<1> QED
  BY <1>2, <1>3, <1>5, <1>6, ChainMove

\* The tail is read under the lock.
LEMMA ChainRead ==
  ASSUME ChainInv, NEW w \in Writers, ReadTail(w)
  PROVE  ChainInv'
<1> DEFINE r == [writer[w] EXCEPT !.pc = "read", !.prev = ChainTail]
<1>1. ChainTyped /\ OneAppends /\ writer[w] \in Transaction
  BY DEF ChainInv, ChainTyped, Transaction
<1>2. /\ writer' = [writer EXCEPT ![w] = r]
      /\ UNCHANGED <<entries, nextSeq, staged, pending, journal, batch, step, nextId>>
      /\ writer[w].pc = "locked" /\ chainLock' = chainLock
  BY DEF ReadTail, local
<1>3. ChainTail \in RecordIds \cup {Nil}
  <2>1. CASE entries = {}
    BY <2>1 DEF ChainTail, TailOf
  <2>2. CASE entries # {}
    <3>1. Headed(entries) /\ entries \subseteq Entry /\ \A x \in entries : x.seq < nextSeq
      BY <1>1 DEF ChainInv, Chained, Numbered, Visible, ChainTyped
    <3>2. PICK t \in entries : \A x \in entries : x.seq <= t.seq
      BY <1>1, <2>2, <3>1, HasLast, Numbers
    <3>3. ChainTail = t.id
      BY <3>1, <3>2, TailIs DEF ChainTail, ChainInv, Chained
    <3> QED
      BY <3>1, <3>2, <3>3 DEF Entry
  <2> QED
    BY <2>1, <2>2
<1>4. r \in Transaction /\ r.pc = "read" /\ r.id = writer[w].id /\ r.prev = ChainTail
      /\ r.kind = writer[w].kind /\ r.who = writer[w].who
  BY <1>1, <1>3 DEF Transaction, Appending
<1>5. writer'[w] = r /\ \A v \in Writers \ {w} : writer'[v] = writer[v]
  BY <1>1, <1>2 DEF ChainTyped
<1>6. OneAppends'
  BY <1>1, <1>2, <1>4, <1>5 DEF OneAppends, Appending
<1>7. Drawn(w)'
  <2>1. ChainTail' = ChainTail
    BY <1>2 DEF ChainTail
  <2> QED
    BY <1>4, <1>5, <2>1 DEF Drawn
<1> QED
  BY <1>2, <1>4, <1>6, <1>7, ChainMove

\* INSERT draws the next number.
LEMMA ChainInsert ==
  ASSUME ChainInv, NEW w \in Writers, Insert(w)
  PROVE  ChainInv'
<1> DEFINE r == [writer[w] EXCEPT !.pc = "inserted", !.seq = nextSeq]
<1>1. ChainTyped /\ OneAppends /\ writer[w] \in Transaction /\ Drawn(w)
  BY DEF ChainInv, ChainTyped, Transaction
<1>2. /\ writer' = [writer EXCEPT ![w] = r] /\ nextSeq' = nextSeq + 1
      /\ UNCHANGED <<entries, staged, pending, journal, batch, step, nextId>>
      /\ writer[w].pc = "read" /\ chainLock' = chainLock
  BY DEF Insert, local
<1>3. r \in Transaction /\ r.pc = "inserted" /\ r.id = writer[w].id /\ r.seq = nextSeq
      /\ r.kind = writer[w].kind /\ r.who = writer[w].who /\ r.prev = writer[w].prev
  BY <1>1 DEF Transaction, Appending, ChainTyped
<1>4. writer'[w] = r /\ \A v \in Writers \ {w} : writer'[v] = writer[v]
  BY <1>1, <1>2 DEF ChainTyped
<1>5. OneAppends'
  BY <1>1, <1>2, <1>3, <1>4 DEF OneAppends, Appending
<1>6. Drawn(w)'
  <2>1. ChainTail' = ChainTail /\ writer[w].prev = ChainTail
    BY <1>1, <1>2 DEF ChainTail, Drawn
  <2>2. \A x \in entries : x.seq < nextSeq
    BY DEF ChainInv, Numbered, Visible
  <2> QED
    BY <1>1, <1>2, <1>3, <1>4, <2>1, <2>2 DEF Drawn, ChainTyped
<1> QED
  BY <1>2, <1>3, <1>5, <1>6, ChainMove

\* ROLLBACK.
LEMMA ChainRollBack ==
  ASSUME ChainInv, NEW w \in Writers, RollBack(w)
  PROVE  ChainInv'
<1>1. ChainTyped /\ OneAppends
  BY DEF ChainInv
<1>2. /\ writer' = [writer EXCEPT ![w] = NotWriting] /\ nextSeq' = nextSeq
      /\ UNCHANGED <<entries, staged, pending, journal, batch, step, nextId>>
      /\ chainLock' = Unlocked(w)
  BY DEF RollBack, local
<1>3. NotWriting \in Transaction /\ NotWriting.pc = "idle"
  BY DEF Transaction, NotWriting
<1>4. writer'[w] = NotWriting /\ \A v \in Writers \ {w} : writer'[v] = writer[v]
  BY <1>1, <1>2 DEF ChainTyped
<1>5. OneAppends'
  BY <1>1, <1>2, <1>3, <1>4, AuditAssumption DEF OneAppends, Unlocked, Appending
<1>6. Drawn(w)'
  BY <1>3, <1>4 DEF Drawn
<1> QED
  BY <1>2, <1>3, <1>5, <1>6, ChainMove

\* COMMIT: the row is above all others and links to the tail.
LEMMA ChainCommit ==
  ASSUME ChainInv, NEW w \in Writers, CommitEntry(w)
  PROVE  ChainInv'
<1> DEFINE t == writer[w]
           about == CASE t.kind = "enroll" -> t.id
                      [] t.kind = "activate" -> t.who
                      [] t.kind = "plain" -> Nil
           new == [id |-> t.id, seq |-> t.seq, prev |-> t.prev,
                   subject |-> about, hashed |-> about]
<1>1. ChainTyped /\ OneAppends /\ Numbered /\ t \in Transaction /\ Drawn(w) /\ OwnId(w)
  BY DEF ChainInv, ChainTyped, Transaction
<1>2. /\ entries' = entries \cup {new} /\ t.pc = "inserted"
      /\ chainLock' = Unlocked(w) /\ writer' = [writer EXCEPT ![w] = NotWriting]
      /\ UNCHANGED <<nextSeq, staged, journal, batch, step, nextId>>
  BY DEF CommitEntry, local
<1>3. chainLock = w /\ chainLock' = Nil /\ w # Server /\ w # Nil /\ Nil # Server
  BY <1>1, <1>2, AuditAssumption DEF OneAppends, Appending, Unlocked
<1>4. staged = {} /\ Visible = entries /\ Visible' = entries'
  BY <1>1, <1>2, <1>3 DEF OneAppends, Visible
<1>5. /\ t.id \in RecordIds /\ t.id < nextId /\ \A x \in entries : x.id # t.id
      /\ \A v \in Writers \ {w} : writer[v].pc # "idle" => writer[v].id # t.id
  BY <1>1, <1>2, <1>4 DEF OwnId
<1>6. /\ t.seq \in Nat \ {0} /\ t.seq < nextSeq /\ \A x \in entries : x.seq < t.seq
      /\ t.prev = TailOf(entries, Nil)
  BY <1>1, <1>2 DEF Drawn, ChainTail
<1>7. about \in RecordIds \cup {Nil} /\ t.prev \in RecordIds \cup {Nil}
  <2>1. /\ t.kind \in {"plain", "enroll", "activate"} /\ t.who \in RecordIds \cup {Nil}
        /\ t.prev \in RecordIds \cup {Nil}
    BY <1>1 DEF Transaction
  <2> QED
    BY <1>5, <2>1
<1>8. new \in Entry /\ new.id = t.id /\ new.seq = t.seq /\ new.prev = t.prev
  <2> HIDE DEF about
  <2> QED
    BY <1>5, <1>6, <1>7 DEF Entry
<1> HIDE DEF new, about
<1>9. writer'[w] = NotWriting /\ \A v \in Writers \ {w} : writer'[v] = writer[v]
  BY <1>1, <1>2 DEF ChainTyped
<1>10. ChainTyped'
  <2>1. NotWriting \in Transaction
    BY DEF Transaction, NotWriting
  <2>2. writer' \in [Writers -> Transaction]
    BY <1>1, <1>2, <2>1 DEF ChainTyped, Transaction
  <2>3. pending' \subseteq RecordIds
    <3>1. t.kind \in {"plain", "enroll", "activate"} /\ pending \subseteq RecordIds
      BY <1>1 DEF Transaction, ChainTyped
    <3>2. pending' = CASE t.kind = "enroll" -> pending \cup {t.id}
                       [] t.kind = "activate" -> pending \ {t.who}
                       [] t.kind = "plain" -> pending
      BY DEF CommitEntry
    <3> QED
      BY <1>5, <3>1, <3>2
  <2> QED
    BY <1>1, <1>2, <1>8, <2>2, <2>3 DEF ChainTyped, Transaction
<1>11. OneAppends'
  <2>1. \A v \in Writers \ {w} : writer[v].pc \notin Appending
    BY <1>1, <1>3 DEF OneAppends
  <2>2. step # "insert"
    BY <1>1, <1>3 DEF OneAppends
  <2> QED
    BY <1>2, <1>3, <1>4, <1>9, <2>1, <2>2 DEF OneAppends, Appending, NotWriting
<1>12. Numbered'
  BY <1>1, <1>2, <1>4, <1>5, <1>6, <1>8 DEF Numbered
<1>13. Chained(entries')
  BY <1>1, <1>2, <1>5, <1>6, <1>8, ChainGrows DEF ChainInv, ChainTyped
<1>14. Chained(entries)' /\ Chained(Visible)'
  BY <1>4, <1>13 DEF Chained, Distinct, Headed, Links
<1>15. ASSUME NEW v \in Writers PROVE Drawn(v)'
  <2>1. writer'[v].pc \notin {"read", "inserted"}
    <3>1. CASE v = w
      BY <1>9, <3>1 DEF NotWriting
    <3>2. CASE v # w
      BY <1>1, <1>3, <1>9, <3>2 DEF OneAppends, Appending
    <3> QED
      BY <3>1, <3>2
  <2> QED
    BY <2>1 DEF Drawn
<1>16. ASSUME NEW v \in Writers PROVE OwnId(v)'
  <2>1. CASE v = w
    BY <1>9, <2>1 DEF OwnId, NotWriting
  <2>2. CASE v # w
    <3>1. OwnId(v)
      BY DEF ChainInv
    <3>2. writer'[v].pc # "idle" => \A x \in Visible' : x.id # writer'[v].id
      BY <1>2, <1>4, <1>5, <1>8, <1>9, <2>2, <3>1 DEF OwnId
    <3>3. \A u \in Writers \ {v} : writer'[u].pc # "idle" => writer'[u] = writer[u] /\ u # w
      BY <1>9 DEF NotWriting
    <3> QED
      BY <1>2, <1>9, <2>2, <3>1, <3>2, <3>3 DEF OwnId
  <2> QED
    BY <2>1, <2>2
<1> QED
  BY <1>10, <1>11, <1>12, <1>14, <1>15, <1>16 DEF ChainInv

\* ON DELETE SET NULL, in one row.
Nulled(i, x) == IF x.subject = i THEN [x EXCEPT !.subject = Nil] ELSE x

\* It keeps id, number and predecessor.
LEMMA NulledAgrees ==
  ASSUME NEW i, NEW x \in Entry
  PROVE  Nulled(i, x) \in Entry /\ Agrees(x, Nulled(i, x))
<1>1. CASE x.subject = i
  BY <1>1 DEF Nulled, Entry, Agrees, Same
<1>2. CASE x.subject # i
  BY <1>2 DEF Nulled, Agrees, Same
<1> QED
  BY <1>1, <1>2

\* Rows of which some are nulled are a chain that is renamed.
LEMMA NulledRenamed ==
  ASSUME NEW i, NEW rows, rows \subseteq Entry, Distinct(rows),
         NEW new, new = {Nulled(i, x) : x \in rows}
  PROVE  new \subseteq Entry /\ Renamed(rows, new)
<1>1. \A x \in rows : Nulled(i, x) \in new /\ Nulled(i, x) \in Entry /\ Agrees(x, Nulled(i, x))
  BY NulledAgrees
<1>2. \A y \in new : \E x \in rows : y = Nulled(i, x)
  OBVIOUS
<1>3. Distinct(new)
  <2> SUFFICES ASSUME NEW y \in new, NEW z \in new, y.seq = z.seq \/ y.id = z.id
               PROVE  y = z
    BY DEF Distinct
  <2>1. PICK a \in rows : y = Nulled(i, a)
    BY <1>2
  <2>2. PICK b \in rows : z = Nulled(i, b)
    BY <1>2
  <2>3. a.seq = b.seq \/ a.id = b.id
    BY <1>1, <2>1, <2>2 DEF Agrees, Same
  <2>4. a = b
    BY <2>3 DEF Distinct
  <2> QED
    BY <2>1, <2>2, <2>4
<1> QED
  BY <1>1, <1>2, <1>3 DEF Renamed

\* maintenance_once: an enrollment expires.
LEMMA ChainExpire ==
  ASSUME ChainInv, NEW i \in RecordIds, Expire(i)
  PROVE  ChainInv' /\ Renamed(entries, entries')
<1>1. ChainTyped /\ OneAppends /\ Numbered /\ Chained(entries) /\ Chained(Visible)
  BY DEF ChainInv
<1>2. /\ entries' = {Nulled(i, x) : x \in entries} /\ pending' = pending \ {i}
      /\ UNCHANGED <<nextSeq, chainLock, writer, staged, journal, batch, step, nextId>>
  BY DEF Expire, Nulled, local
<1>3. entries \subseteq Entry /\ staged \subseteq Entry /\ Visible \subseteq Entry
  BY <1>1 DEF ChainTyped, Visible
<1>4. entries' \subseteq Entry /\ Renamed(entries, entries')
  BY <1>1, <1>2, <1>3, NulledRenamed DEF Chained
<1>5. Chained(entries') /\ Visible' = entries' \cup staged
  BY <1>1, <1>2, <1>3, <1>4, RenamedChain DEF Visible
<1>6. Renamed(Visible, Visible')
  <2>1. /\ \A x \in Visible : \E y \in Visible' : Agrees(x, y)
        /\ \A y \in Visible' : \E x \in Visible : Agrees(x, y)
    <3>1. \A x : Agrees(x, x)
      BY DEF Agrees, Same
    <3> QED
      BY <1>4, <1>5, <3>1 DEF Visible, Renamed
  <2>2. Distinct(Visible')
    <3> SUFFICES ASSUME NEW y \in Visible', NEW z \in Visible', y.seq = z.seq \/ y.id = z.id
                 PROVE  y = z
      BY DEF Distinct
    <3>1. CASE y \in entries' /\ z \in entries'
      BY <1>5, <3>1 DEF Chained, Distinct
    <3>2. CASE y \in staged /\ z \in staged
      BY <1>1, <3>2 DEF Chained, Distinct, Visible
    <3>3. ASSUME NEW a \in entries', NEW b \in staged, a.seq = b.seq \/ a.id = b.id
          PROVE  a = b
      <4>1. PICK x \in entries : a = Nulled(i, x)
        BY <1>2
      <4>2. Agrees(x, a)
        BY <1>3, <4>1, NulledAgrees
      <4>3. x = b
        BY <1>1, <3>3, <4>2 DEF Agrees, Same, Chained, Distinct, Visible
      <4> QED
        BY <1>1, <4>3 DEF Numbered
    <3> QED
      BY <1>5, <3>1, <3>2, <3>3
  <2> QED
    BY <2>1, <2>2 DEF Renamed
<1>7. Chained(Visible') /\ Visible' \subseteq Entry
  BY <1>1, <1>3, <1>4, <1>5, <1>6, RenamedChain
<1>8. Chained(entries)' /\ Chained(Visible)'
  BY <1>5, <1>7 DEF Chained, Distinct, Headed, Links
<1>9. \A y \in Visible' : \E x \in Visible : x.id = y.id /\ x.seq = y.seq
  BY <1>6 DEF Renamed, Agrees, Same
<1>10. \A y \in entries' : \E x \in entries : x.id = y.id /\ x.seq = y.seq
  BY <1>4 DEF Renamed, Agrees, Same
<1>11. ChainTyped'
  BY <1>1, <1>2, <1>4 DEF ChainTyped
<1>12. OneAppends'
  BY <1>1, <1>2 DEF OneAppends
<1>13. Numbered'
  <2>1. entries' \cap staged = {}
    BY <1>1, <1>10 DEF Numbered, Chained, Distinct, Visible
  <2> QED
    BY <1>1, <1>2, <1>9, <2>1 DEF Numbered
<1>14. ChainTail' = ChainTail
  <2>1. nextSeq \in Nat
    BY <1>1 DEF ChainTyped
  <2>2. \A x \in entries : x.seq < nextSeq
    BY <1>1 DEF Numbered, Visible
  <2>3. entries = {x \in entries : x.seq < nextSeq}
    BY <2>2
  <2>4. entries' = {x \in entries' : x.seq < nextSeq}
    BY <1>10, <2>2
  <2>5. TailOf(entries', Nil) = TailOf(entries, Nil)
    BY ONLY <1>1, <1>3, <1>4, <2>1, <2>3, <2>4, RenamedTail
  <2> QED
    BY <2>5 DEF ChainTail, TailOf, LastOf
<1>15. ASSUME NEW w \in Writers PROVE Drawn(w)' /\ OwnId(w)'
  <2>1. Drawn(w) /\ OwnId(w)
    BY DEF ChainInv
  <2>2. Drawn(w)'
    BY <1>2, <1>10, <1>14, <2>1 DEF Drawn
  <2>3. OwnId(w)'
    BY <1>2, <1>9, <2>1 DEF OwnId
  <2> QED
    BY <2>2, <2>3
<1> QED
  BY <1>4, <1>8, <1>11, <1>12, <1>13, <1>15 DEF ChainInv

-----------------------------------------------------------------------------
\* The first element of a sequence and the others.
LEMMA HeadAndTail ==
  ASSUME NEW S, NEW q \in Seq(S), q # <<>>
  PROVE  /\ Head(q) \in S /\ Tail(q) \in Seq(S)
         /\ \E m \in DOMAIN q : q[m] = Head(q)
         /\ \A n \in DOMAIN Tail(q) : \E m \in DOMAIN q : Tail(q)[n] = q[m]
         /\ \A m \in DOMAIN q : q[m] = Head(q) \/ \E n \in DOMAIN Tail(q) : Tail(q)[n] = q[m]
<1>1. Len(q) \in Nat /\ Len(q) # 0 /\ DOMAIN q = 1..Len(q) /\ Head(q) = q[1]
  OBVIOUS
<1>2. Tail(q) \in Seq(S) /\ Len(Tail(q)) = Len(q) - 1 /\ DOMAIN Tail(q) = 1..(Len(q) - 1)
  BY <1>1
<1>3. \A n \in 1..(Len(q) - 1) : Tail(q)[n] = q[n + 1]
  BY <1>1
<1>4. 1 \in DOMAIN q /\ Head(q) \in S
  BY <1>1
<1>5. ASSUME NEW n \in DOMAIN Tail(q) PROVE \E m \in DOMAIN q : Tail(q)[n] = q[m]
  <2>1. n + 1 \in DOMAIN q /\ Tail(q)[n] = q[n + 1]
    BY <1>1, <1>2, <1>3
  <2> QED
    BY <2>1
<1>6. ASSUME NEW m \in DOMAIN q, m # 1
      PROVE  \E n \in DOMAIN Tail(q) : Tail(q)[n] = q[m]
  <2>1. m - 1 \in DOMAIN Tail(q) /\ Tail(q)[m - 1] = q[(m - 1) + 1] /\ (m - 1) + 1 = m
    BY <1>1, <1>2, <1>3, <1>6
  <2> QED
    BY <2>1
<1> QED
  BY <1>1, <1>2, <1>4, <1>5, <1>6

\* reconcile takes the advisory lock.
LEMMA ChainReconcile ==
  ASSUME ChainInv, LockChain
  PROVE  ChainInv'
<1>1. ChainTyped /\ OneAppends /\ Numbered /\ Chained(entries) /\ Chained(Visible)
  BY DEF ChainInv
<1>2. /\ step = "lock" /\ chainLock = Nil /\ chainLock' = Server /\ step' = "insert"
      /\ UNCHANGED <<entries, nextSeq, writer, pending, staged, journal, batch, nextId>>
  BY DEF LockChain
<1>3. Visible' = Visible /\ ChainTail' = ChainTail
  BY <1>2 DEF Visible, ChainTail
<1>4. ChainTyped' /\ Numbered'
  BY <1>1, <1>2, <1>3 DEF ChainTyped, Numbered
<1>5. OneAppends'
  BY <1>1, <1>2, AuditAssumption DEF OneAppends
<1>6. Chained(entries)' /\ Chained(Visible)'
  BY <1>1, <1>2, <1>3 DEF Chained, Distinct, Headed, Links
<1>7. ASSUME NEW w \in Writers PROVE Drawn(w)' /\ OwnId(w)'
  BY <1>2, <1>3 DEF ChainInv, Drawn, OwnId
<1> QED
  BY <1>4, <1>5, <1>6, <1>7 DEF ChainInv

\* Nobody else appends while the daemon does.
LEMMA NobodyAppends ==
  ASSUME ChainInv, step = "insert", NEW w \in Writers
  PROVE  writer[w].pc \notin Appending /\ chainLock = Server
  BY AuditAssumption DEF ChainInv, OneAppends

\* A record of the journal is passed over or appended to what is staged.
LEMMA ChainInsertMissing ==
  ASSUME ChainInv, InsertMissing
  PROVE  ChainInv' /\ batch # <<>> /\ batch' = Tail(batch) /\ step' = step
         /\ configLock' = configLock
         /\ (\E x \in Visible' : x.id = Head(batch))
         /\ Visible \subseteq Visible' /\ entries' = entries
<1>1. ChainTyped /\ OneAppends /\ Numbered /\ Chained(entries) /\ Chained(Visible)
  BY DEF ChainInv
<1>2. /\ step = "insert" /\ batch # <<>>
      /\ UNCHANGED <<entries, writer, pending, journal, nextId>>
  BY DEF InsertMissing
<1>3. Head(batch) \in RecordIds /\ Tail(batch) \in Seq(RecordIds)
      /\ (\E m \in DOMAIN batch : batch[m] = Head(batch))
      /\ \A n \in DOMAIN Tail(batch) : \E m \in DOMAIN batch : Tail(batch)[n] = batch[m]
  BY <1>1, <1>2, HeadAndTail DEF ChainTyped
<1>4. chainLock = Server /\ \A w \in Writers : writer[w].pc \notin Appending
  BY <1>1, <1>2, NobodyAppends DEF OneAppends
<1>5. ASSUME batch' = Tail(batch), UNCHANGED <<chainLock, configLock, step>>,
             staged' \subseteq Entry, nextSeq' \in Nat \ {0}, Chained(Visible'),
             entries \cap staged' = {},
             \A x \in Visible' : x \in Visible \/ x.id = Head(batch),
             \A x \in Visible' : x.seq < nextSeq'
      PROVE  ChainInv'
  <2>1. ChainTyped'
    BY <1>1, <1>2, <1>3, <1>5 DEF ChainTyped
  <2>2. OneAppends'
    BY <1>1, <1>2, <1>4, <1>5 DEF OneAppends
  <2>3. Numbered'
    <3>1. Head(batch) < nextId /\ \A n \in DOMAIN Tail(batch) : Tail(batch)[n] < nextId
      BY <1>1, <1>3 DEF Numbered
    <3> QED
      BY <1>1, <1>2, <1>5, <3>1 DEF Numbered
  <2>4. Chained(entries)' /\ Chained(Visible)'
    BY <1>1, <1>2, <1>5 DEF Chained, Distinct, Headed, Links
  <2>5. ASSUME NEW w \in Writers PROVE Drawn(w)'
    BY <1>2, <1>4 DEF Drawn, Appending
  <2>6. ASSUME NEW w \in Writers PROVE OwnId(w)'
    <3>1. OwnId(w)
      BY DEF ChainInv
    <3>2. writer[w].pc # "idle" => Head(batch) # writer[w].id /\
              \A n \in DOMAIN Tail(batch) : Tail(batch)[n] # writer[w].id
      BY <1>3, <3>1 DEF OwnId
    <3> QED
      BY <1>2, <1>5, <3>1, <3>2 DEF OwnId
  <2> QED
    BY <2>1, <2>2, <2>3, <2>4, <2>5, <2>6 DEF ChainInv
<1>6. CASE Exists(Head(batch))
  <2>1. batch' = Tail(batch) /\ UNCHANGED <<staged, nextSeq, chainLock, configLock, step>>
    BY <1>6 DEF InsertMissing
  <2>2. Visible' = Visible
    BY <1>2, <2>1 DEF Visible
  <2>3. ChainInv'
    BY <1>1, <1>5, <2>1, <2>2 DEF ChainTyped, Numbered
  <2> QED
    BY <1>2, <1>6, <2>1, <2>2, <2>3 DEF Exists
<1>7. CASE ~Exists(Head(batch))
  <2> DEFINE new == [id |-> Head(batch), seq |-> nextSeq, prev |-> TailOf(Visible, Nil),
                     subject |-> Nil, hashed |-> Nil]
  <2>1. /\ staged' = staged \cup {new} /\ nextSeq' = nextSeq + 1
        /\ batch' = Tail(batch) /\ UNCHANGED <<chainLock, configLock, step>>
    BY <1>7 DEF InsertMissing, AppendRecord, Exists
  <2>2. Visible' = Visible \cup {new}
    BY <1>2, <2>1 DEF Visible
  <2>3. \A x \in Visible : x.id # Head(batch) /\ x.seq < nextSeq /\ x \in Entry
    BY <1>1, <1>7 DEF Exists, Numbered, ChainTyped, Visible
  <2>4. TailOf(Visible, Nil) \in RecordIds \cup {Nil}
    <3>1. CASE Visible = {}
      BY <3>1 DEF TailOf
    <3>2. CASE Visible # {}
      <4>1. PICK t \in Visible : \A x \in Visible : x.seq <= t.seq
        BY <1>1, <2>3, <3>2, HasLast, Numbers DEF Chained
      <4>2. TailOf(Visible, Nil) = t.id
        BY <1>1, <2>3, <4>1, TailIs DEF Chained
      <4> QED
        BY <2>3, <4>1, <4>2 DEF Entry
    <3> QED
      BY <3>1, <3>2
  <2>5. new \in Entry /\ new.id = Head(batch) /\ new.seq = nextSeq
        /\ new.prev = TailOf(Visible, Nil)
    BY <1>1, <1>3, <2>4 DEF Entry, ChainTyped
  <2> HIDE DEF new
  <2>6. Chained(Visible')
    BY <1>1, <2>2, <2>3, <2>5, ChainGrows
  <2>7. staged' \subseteq Entry /\ nextSeq' \in Nat \ {0} /\ entries \cap staged' = {}
    BY <1>1, <2>1, <2>3, <2>5 DEF ChainTyped, Numbered, Visible
  <2>8. /\ \A x \in Visible' : x \in Visible \/ x.id = Head(batch)
        /\ \A x \in Visible' : x.seq < nextSeq'
    BY <1>1, <2>1, <2>2, <2>3, <2>5, Numbers
  <2>9. ChainInv'
    BY <1>5, <2>1, <2>6, <2>7, <2>8
  <2> QED
    BY <1>2, <2>1, <2>2, <2>5, <2>9
<1> QED
  BY <1>6, <1>7

\* The staged rows become visible to all.
LEMMA ChainCommitMissing ==
  ASSUME ChainInv, CommitMissing
  PROVE  ChainInv'
<1>1. ChainTyped /\ OneAppends /\ Numbered /\ Chained(entries) /\ Chained(Visible)
  BY DEF ChainInv
<1>2. /\ step = "insert" /\ entries' = Visible /\ staged' = {} /\ chainLock' = Nil
      /\ step' = "remove"
      /\ UNCHANGED <<nextSeq, writer, pending, journal, batch, nextId>>
  BY DEF CommitMissing
<1>3. Visible' = Visible
  BY <1>2 DEF Visible
<1>4. \A w \in Writers : writer[w].pc \notin Appending
  BY <1>2, NobodyAppends
<1>5. ChainTyped' /\ Numbered'
  BY <1>1, <1>2, <1>3 DEF ChainTyped, Numbered, Visible
<1>6. OneAppends'
  BY <1>2, <1>4, AuditAssumption DEF OneAppends
<1>7. Chained(entries)' /\ Chained(Visible)'
  BY <1>1, <1>2, <1>3 DEF Chained, Distinct, Headed, Links
<1>8. ASSUME NEW w \in Writers PROVE Drawn(w)'
  BY <1>2, <1>4 DEF Drawn, Appending
<1>9. ASSUME NEW w \in Writers PROVE OwnId(w)'
  BY <1>2, <1>3 DEF ChainInv, OwnId
<1> QED
  BY <1>5, <1>6, <1>7, <1>8, <1>9 DEF ChainInv

\* A process dies, and with the daemon its transaction.
LEMMA ChainCrash ==
  ASSUME ChainInv, HolderOK, Crash
  PROVE  ChainInv'
<1>1. ChainTyped /\ OneAppends /\ Numbered /\ Chained(entries) /\ Chained(Visible)
  BY DEF ChainInv
<1>2. /\ staged' = {} /\ batch' = <<>> /\ step' = "idle"
      /\ chainLock' = IF configLock = Server THEN Unlocked(Server) ELSE chainLock
      /\ UNCHANGED <<entries, nextSeq, writer, pending, journal, nextId>>
  BY DEF Crash, Unlock
<1>3. chainLock' = IF chainLock = Server THEN Nil ELSE chainLock
  BY <1>1, <1>2 DEF OneAppends, HolderOK, Unlocked
<1>4. Visible' = entries /\ Visible' \subseteq Visible /\ ChainTail' = ChainTail
  BY <1>2 DEF Visible, ChainTail
<1>5. batch' \in Seq(RecordIds) /\ DOMAIN batch' = {}
  BY <1>2
<1>6. ChainTyped' /\ Numbered'
  BY <1>1, <1>2, <1>4, <1>5 DEF ChainTyped, Numbered
<1>7. OneAppends'
  BY <1>1, <1>2, <1>3, AuditAssumption DEF OneAppends
<1>8. Chained(entries)' /\ Chained(Visible)'
  BY <1>1, <1>2, <1>4 DEF Chained, Distinct, Headed, Links
<1>9. ASSUME NEW w \in Writers PROVE Drawn(w)' /\ OwnId(w)'
  <2>1. Drawn(w) /\ OwnId(w)
    BY DEF ChainInv
  <2> QED
    BY <1>2, <1>4, <1>5, <2>1 DEF Drawn, OwnId
<1> QED
  BY <1>6, <1>7, <1>8, <1>9 DEF ChainInv

-----------------------------------------------------------------------------
\* The first k elements of a sequence.
LEMMA Prefix ==
  ASSUME NEW S, NEW q \in Seq(S), NEW k \in 0..Len(q)
  PROVE  /\ SubSeq(q, 1, k) \in Seq(S) /\ Len(SubSeq(q, 1, k)) = k
         /\ DOMAIN SubSeq(q, 1, k) = 1..k
         /\ \A n \in 1..k : SubSeq(q, 1, k)[n] = q[n] /\ n \in DOMAIN q
<1>1. Len(q) \in Nat /\ DOMAIN q = 1..Len(q)
  OBVIOUS
<1>2. k \in Nat /\ k <= Len(q)
  BY <1>1
<1>3. SubSeq(q, 1, k) = [n \in 1..k |-> q[n]]
  BY <1>1, <1>2
<1>4. [n \in 1..k |-> q[n]] \in Seq(S) /\ Len([n \in 1..k |-> q[n]]) = k
  BY <1>1, <1>2
<1> QED
  BY <1>1, <1>2, <1>3, <1>4

\* A sequence with one more element.
LEMMA OneMore ==
  ASSUME NEW S, NEW q \in Seq(S), NEW e \in S
  PROVE  /\ Append(q, e) \in Seq(S) /\ Len(Append(q, e)) = Len(q) + 1
         /\ Append(q, e) # <<>> /\ Last(Append(q, e)) = e
         /\ Append(q, e)[Len(q) + 1] = e
         /\ DOMAIN Append(q, e) = 1..(Len(q) + 1)
         /\ \A n \in DOMAIN q : n \in DOMAIN Append(q, e) /\ Append(q, e)[n] = q[n]
         /\ \A n \in DOMAIN Append(q, e) : n \in DOMAIN q \/ n = Len(q) + 1
<1>1. Len(q) \in Nat /\ DOMAIN q = 1..Len(q)
  OBVIOUS
<1>2. Append(q, e) \in Seq(S) /\ Len(Append(q, e)) = Len(q) + 1
  OBVIOUS
<1>3. Append(q, e)[Len(q) + 1] = e /\ \A n \in 1..Len(q) : Append(q, e)[n] = q[n]
  BY <1>1
<1>4. DOMAIN Append(q, e) = 1..(Len(q) + 1) /\ Append(q, e) # <<>>
  BY <1>1, <1>2
<1> QED
  BY <1>1, <1>2, <1>3, <1>4 DEF Last

\* What happens to the chain brings records over and takes none back.
LEMMA JournalFrame ==
  ASSUME JournalInv, UNCHANGED local,
         \A x \in entries : \E y \in entries' : y.id = x.id,
         \A x \in Visible : \E y \in Visible' : y.id = x.id
  PROVE  JournalInv'
<1>1. UNCHANGED <<journal, configLock, step, batch, acked, up, truncated>>
  BY DEF local
<1>2. HolderOK' /\ LinesOK'
  BY <1>1 DEF JournalInv, HolderOK, LinesOK, Torn, Last
<1>3. BroughtOver'
  BY <1>1 DEF JournalInv, BroughtOver
<1>4. AckedIsKept'
  BY <1>1 DEF JournalInv, AckedIsKept, Stored
<1> QED
  BY <1>2, <1>3, <1>4 DEF JournalInv

\* Steps under the configuration lock that leave the lines alone and
\* acknowledge nothing: AckedIsKept holds on.
LEMMA StillKept ==
  ASSUME JournalInv, UNCHANGED <<entries, journal, acked, truncated>>
  PROVE  AckedIsKept'
  BY DEF JournalInv, AckedIsKept, Stored

\* The steps after which nothing about the lines is known.
LEMMA ReleasedOK ==
  ASSUME Unlock, \A n \in DOMAIN journal' : n < Len(journal') => journal'[n].is # "torn",
         AckedIsKept'
  PROVE  JournalInv'
<1>1. HolderOK'
  BY AuditAssumption DEF Unlock, HolderOK
<1>2. LinesOK' /\ BroughtOver'
  BY DEF Unlock, LinesOK, BroughtOver
<1> QED
  BY <1>1, <1>2 DEF JournalInv

\* record takes the lock, with a record of its own.
LEMMA KeepBeginRecord ==
  ASSUME ChainInv, JournalInv, NEW p \in Recorders, BeginRecord(p)
  PROVE  ChainInv' /\ JournalInv'
<1>1. /\ configLock = Nil /\ configLock' = p /\ step' = "repair" /\ batch' = <<nextId>>
      /\ nextId' = nextId + 1 /\ nextId <= MaxIds
      /\ UNCHANGED <<db, journal, acked, up, truncated>>
  BY DEF BeginRecord
<1>2. ChainTyped /\ step = "idle"
  BY <1>1 DEF ChainInv, JournalInv, HolderOK
<1>3. /\ batch' \in Seq(RecordIds) /\ Len(batch') = 1 /\ DOMAIN batch' = {1}
      /\ batch'[1] = nextId
  <2>1. nextId \in RecordIds
    BY <1>1, <1>2, AuditAssumption DEF ChainTyped, RecordIds
  <2> QED
    BY <1>1, <2>1
<1>4. ChainInv'
  <2>1. \A n \in DOMAIN batch' : Known(batch'[n])
    BY <1>1, <1>3 DEF Known
  <2>2. \A n \in DOMAIN journal' : Known(journal'[n].id)
    BY <1>1 DEF Known
  <2> QED
    BY <1>1, <1>2, <1>3, <2>1, <2>2, ChainFrame DEF ChainTyped
<1>5. entries' = entries
  BY <1>1 DEF db
<1>6. HolderOK' /\ LinesOK' /\ BroughtOver'
  BY <1>1, <1>3, AuditAssumption DEF HolderOK, LinesOK, BroughtOver, JournalInv
<1>7. AckedIsKept'
  BY <1>1, <1>5, StillKept
<1> QED
  BY <1>4, <1>6, <1>7 DEF JournalInv

\* Steps under the lock that only move on keep the chain.
LEMMA ChainStays ==
  ASSUME ChainInv, UNCHANGED <<db, journal, batch, nextId>>,
         step' = "insert" <=> step = "insert"
  PROVE  ChainInv'
<1>1. \A n \in DOMAIN batch' : Known(batch'[n])
  BY DEF Known
<1>2. \A n \in DOMAIN journal' : Known(journal'[n].id)
  BY DEF Known
<1> QED
  BY <1>1, <1>2, ChainFrame DEF ChainInv, ChainTyped

\* recover_torn_final_record, up to the copy of the torn tail.
LEMMA KeepRepair ==
  ASSUME ChainInv, JournalInv, Repair
  PROVE  ChainInv' /\ JournalInv'
<1>1. /\ step = "repair" /\ step' = IF Torn THEN "rewrite" ELSE AfterRepair
      /\ UNCHANGED <<db, journal, configLock, batch, acked, up, truncated, nextId>>
  BY DEF Repair
<1>2. HolderOK /\ LinesOK
  BY DEF JournalInv
<1>3. ChainInv'
  BY <1>1, ChainStays DEF AfterRepair
<1>4. configLock # Nil /\ configLock \in Recorders \cup {Server}
  BY <1>1, <1>2 DEF HolderOK
<1>5. HolderOK'
  BY <1>1, <1>2, <1>4 DEF HolderOK, AfterRepair
<1>6. LinesOK'
  <2>1. Torn' = Torn
    BY <1>1 DEF Torn, Last
  <2> QED
    BY <1>1, <1>2, <2>1 DEF LinesOK, AfterRepair
<1>7. BroughtOver'
  BY <1>1 DEF BroughtOver, AfterRepair
<1>8. AckedIsKept'
  BY <1>1, StillKept DEF db
<1> QED
  BY <1>3, <1>5, <1>6, <1>7, <1>8 DEF JournalInv

\* A prefix of the whole lines contains no torn one, and only known records.
LEMMA WholePrefix ==
  ASSUME ChainInv, JournalInv, journal # <<>>, NEW k \in 0..(Len(journal) - 1),
         NEW q, q = SubSeq(journal, 1, k)
  PROVE  /\ q \in Seq(Line) /\ Len(q) = k /\ DOMAIN q = 1..k
         /\ \A n \in DOMAIN q : n \in DOMAIN journal /\ q[n] = journal[n] /\ q[n].is # "torn"
         /\ \A n \in DOMAIN q : Known(q[n].id)
<1>1. journal \in Seq(Line) /\ Len(journal) \in Nat /\ DOMAIN journal = 1..Len(journal)
  BY DEF ChainInv, ChainTyped
<1>2. k \in 0..Len(journal) /\ k < Len(journal)
  BY <1>1
<1>3. /\ q \in Seq(Line) /\ Len(q) = k /\ DOMAIN q = 1..k
      /\ \A n \in 1..k : q[n] = journal[n] /\ n \in DOMAIN journal
  BY <1>1, <1>2, Prefix
<1>4. \A n \in 1..k : journal[n].is # "torn"
  BY <1>1, <1>2 DEF JournalInv, LinesOK
<1> QED
  BY <1>3, <1>4 DEF Known

\* The journal is written back without its torn line.
LEMMA KeepRewrite ==
  ASSUME ChainInv, JournalInv, Rewrite
  PROVE  ChainInv' /\ JournalInv'
<1>1. /\ step = "rewrite" /\ step' = AfterRepair /\ journal' = Whole
      /\ UNCHANGED <<db, configLock, batch, acked, up, truncated, nextId>>
  BY DEF Rewrite
<1>2. HolderOK /\ LinesOK /\ AckedIsKept /\ Torn
  BY <1>1 DEF JournalInv, LinesOK
<1>3. /\ journal \in Seq(Line) /\ Len(journal) \in Nat /\ journal # <<>>
      /\ Len(journal) - 1 \in 0..(Len(journal) - 1) /\ DOMAIN journal = 1..Len(journal)
      /\ journal' = SubSeq(journal, 1, Len(journal) - 1)
      /\ journal[Len(journal)].is = "torn"
  <2>1. journal \in Seq(Line) /\ journal # <<>>
    BY <1>2 DEF ChainInv, ChainTyped, Torn
  <2>2. Len(journal) \in Nat /\ Len(journal) # 0 /\ DOMAIN journal = 1..Len(journal)
    BY <2>1
  <2> QED
    BY <1>1, <1>2, <2>1, <2>2 DEF Torn, Last, Whole, Front
<1>4. /\ journal' \in Seq(Line) /\ Len(journal') = Len(journal) - 1
      /\ DOMAIN journal' = 1..(Len(journal) - 1)
      /\ \A n \in DOMAIN journal' : journal'[n] = journal[n] /\ journal'[n].is # "torn"
      /\ \A n \in DOMAIN journal' : Known(journal'[n].id)
  <2>1. PICK k \in 0..(Len(journal) - 1) : k = Len(journal) - 1
    BY <1>3
  <2>2. PICK q : q = journal'
    OBVIOUS
  <2>3. q = SubSeq(journal, 1, k) /\ journal # <<>>
    BY ONLY <1>3, <2>1, <2>2
  <2>4. /\ q \in Seq(Line) /\ Len(q) = k /\ DOMAIN q = 1..k
        /\ \A n \in DOMAIN q : q[n] = journal[n] /\ q[n].is # "torn"
        /\ \A n \in DOMAIN q : Known(q[n].id)
    BY ONLY ChainInv, JournalInv, <2>3, WholePrefix
  <2> QED
    BY ONLY <2>1, <2>2, <2>4
<1>5. ChainInv'
  <2>1. \A n \in DOMAIN batch' : Known(batch'[n])
    BY <1>1 DEF Known
  <2> QED
    BY <1>1, <1>4, <2>1, ChainFrame DEF AfterRepair, ChainInv, ChainTyped
<1>6. HolderOK'
  BY <1>1, <1>2 DEF HolderOK, AfterRepair
<1>7. LinesOK'
  <2>1. ~Torn'
    <3>1. CASE journal' = <<>>
      BY <3>1 DEF Torn
    <3>2. CASE journal' # <<>>
      <4>1. Len(journal') \in DOMAIN journal'
        BY <1>3, <1>4, <3>2
      <4> QED
        BY <1>4, <4>1 DEF Torn, Last
    <3> QED
      BY <3>1, <3>2
  <2> QED
    BY <1>1, <1>4, <2>1 DEF LinesOK, AfterRepair
<1>8. BroughtOver'
  BY <1>1 DEF BroughtOver, AfterRepair
<1>9. AckedIsKept'
  <2> SUFFICES ASSUME ~truncated', NEW i \in acked'
               PROVE  \/ i \in Stored'
                      \/ \E n \in DOMAIN journal' : journal'[n] = [id |-> i, is |-> "whole"]
    BY DEF AckedIsKept
  <2>1. CASE i \in Stored
    BY <1>1, <2>1 DEF Stored, db
  <2>2. ASSUME NEW n \in DOMAIN journal, journal[n] = [id |-> i, is |-> "whole"]
        PROVE  \E m \in DOMAIN journal' : journal'[m] = [id |-> i, is |-> "whole"]
    <3>1. n # Len(journal)
      BY <1>3, <2>2
    <3>2. n \in DOMAIN journal'
      BY <1>3, <1>4, <3>1
    <3> QED
      BY <1>4, <2>2, <3>2
  <2> QED
    BY <1>1, <1>2, <2>1, <2>2 DEF AckedIsKept
<1> QED
  BY <1>5, <1>6, <1>7, <1>8, <1>9 DEF JournalInv

\* A process dies in the middle of it.
LEMMA KeepCrashInRewrite ==
  ASSUME ChainInv, JournalInv, CrashInRewrite
  PROVE  ChainInv' /\ JournalInv'
<1>1. /\ step = "rewrite" /\ truncated' = TRUE /\ Unlock
      /\ UNCHANGED <<db, acked, nextId>>
  BY DEF CrashInRewrite
<1>2. PICK k \in 0..Len(Whole) : journal' = SubSeq(Whole, 1, k)
  BY DEF CrashInRewrite
<1>3. /\ journal \in Seq(Line) /\ Len(journal) \in Nat /\ journal # <<>> /\ Len(journal) # 0
  <2>1. journal \in Seq(Line) /\ journal # <<>>
    BY <1>1 DEF ChainInv, ChainTyped, Torn, JournalInv, LinesOK
  <2> QED
    BY <2>1
<1>4. k \in 0..(Len(journal) - 1) /\ journal' = SubSeq(journal, 1, k)
  <2>1. /\ Whole = SubSeq(journal, 1, Len(journal) - 1) /\ Whole \in Seq(Line)
        /\ Len(Whole) = Len(journal) - 1 /\ DOMAIN Whole = 1..(Len(journal) - 1)
        /\ \A n \in 1..(Len(journal) - 1) : Whole[n] = journal[n]
    <3>1. Len(journal) - 1 \in 0..Len(journal)
      BY <1>3
    <3> DEFINE m == Len(journal) - 1
               q == SubSeq(journal, 1, m)
    <3>2. Whole = q
      BY ONLY DEF Whole, Front
    <3>3. m \in 0..Len(journal)
      BY ONLY <3>1
    <3> HIDE DEF m
    <3>4. q \in Seq(Line) /\ Len(q) = m /\ DOMAIN q = 1..m /\ \A n \in 1..m : q[n] = journal[n]
      BY ONLY <1>3, <3>3, Prefix
    <3>5. Whole \in Seq(Line) /\ Len(Whole) = m /\ DOMAIN Whole = 1..m
          /\ \A n \in 1..m : Whole[n] = journal[n]
      <4> HIDE DEF q
      <4> QED
        BY ONLY <3>2, <3>4
    <3> QED
      BY ONLY <3>2, <3>5 DEF m
  <2>2. k \in Nat /\ k <= Len(journal) - 1 /\ k \in 0..Len(journal)
    BY <1>3, <2>1
  <2>3. /\ SubSeq(Whole, 1, k) \in Seq(Line) /\ DOMAIN SubSeq(Whole, 1, k) = 1..k
        /\ \A n \in 1..k : SubSeq(Whole, 1, k)[n] = Whole[n]
    BY <2>1, Prefix
  <2>4. /\ SubSeq(journal, 1, k) \in Seq(Line) /\ DOMAIN SubSeq(journal, 1, k) = 1..k
        /\ \A n \in 1..k : SubSeq(journal, 1, k)[n] = journal[n]
    BY <1>3, <2>2, Prefix
  <2>5. \A n \in 1..k : Whole[n] = journal[n]
    BY <1>3, <2>1, <2>2
  <2>6. SubSeq(Whole, 1, k) = SubSeq(journal, 1, k)
    BY <2>3, <2>4, <2>5
  <2> QED
    BY <1>2, <1>3, <2>2, <2>6
<1>5. /\ journal' \in Seq(Line)
      /\ \A n \in DOMAIN journal' : journal'[n].is # "torn" /\ Known(journal'[n].id)
  <2> DEFINE q == SubSeq(journal, 1, k)
  <2>1. q = SubSeq(journal, 1, k) /\ journal' = q
    BY ONLY <1>4
  <2>2. journal # <<>> /\ k \in 0..(Len(journal) - 1)
    BY ONLY <1>3, <1>4
  <2> HIDE DEF q
  <2>3. /\ q \in Seq(Line)
        /\ \A n \in DOMAIN q : q[n].is # "torn" /\ Known(q[n].id)
    BY ONLY ChainInv, JournalInv, <2>1, <2>2, WholePrefix
  <2> QED
    BY ONLY <2>1, <2>3
<1>6. batch' = <<>> /\ batch' \in Seq(RecordIds) /\ DOMAIN batch' = {} /\ step' = "idle"
  BY <1>1 DEF Unlock
<1>7. ChainInv'
  BY <1>1, <1>5, <1>6, ChainFrame
<1>8. AckedIsKept'
  BY <1>1 DEF AckedIsKept
<1> QED
  BY <1>1, <1>5, <1>7, <1>8, ReleasedOK

\* A process that ends, or stops where nothing depends on the lines.
LEMMA KeepRelease ==
  ASSUME ChainInv, JournalInv, Unlock, step # "insert",
         UNCHANGED <<db, journal, acked, truncated, nextId>>
  PROVE  ChainInv' /\ JournalInv'
<1>1. batch' = <<>> /\ batch' \in Seq(RecordIds) /\ DOMAIN batch' = {} /\ step' = "idle"
  BY DEF Unlock
<1>2. \A n \in DOMAIN journal' : Known(journal'[n].id)
  BY DEF Known
<1>3. ChainInv'
  BY <1>1, <1>2, ChainFrame DEF ChainInv, ChainTyped
<1>4. AckedIsKept'
  BY StillKept DEF db
<1>5. \A n \in DOMAIN journal' : n < Len(journal') => journal'[n].is # "torn"
  BY DEF JournalInv, LinesOK
<1> QED
  BY <1>3, <1>4, <1>5, ReleasedOK

\* A line is added behind lines none of which is torn.
LEMMA LineAdded ==
  ASSUME ChainInv, JournalInv, step = "append", NEW kind \in {"whole", "torn"},
         journal' = AppendedTo(journal, [id |-> batch[1], is |-> kind])
  PROVE  /\ journal' \in Seq(Line) /\ journal' # <<>>
         /\ Last(journal') = [id |-> batch[1], is |-> kind]
         /\ \A n \in DOMAIN journal : n \in DOMAIN journal' /\ journal'[n] = journal[n]
         /\ \A n \in DOMAIN journal' : n < Len(journal') => journal'[n].is # "torn"
         /\ \A n \in DOMAIN journal' : Known(journal'[n].id)
<1> DEFINE e == [id |-> batch[1], is |-> kind]
<1>1. ChainTyped /\ HolderOK /\ LinesOK /\ ~Torn
  BY DEF ChainInv, JournalInv, LinesOK
<1>2. 1 \in DOMAIN batch /\ batch[1] \in RecordIds
  <2>1. Len(batch) = 1 /\ batch \in Seq(RecordIds)
    BY <1>1 DEF HolderOK, ChainTyped
  <2> QED
    BY <2>1
<1>3. e \in Line /\ e.id = batch[1] /\ e.is = kind
  BY <1>2 DEF Line
<1>4. journal \in Seq(Line) /\ Len(journal) \in Nat /\ DOMAIN journal = 1..Len(journal)
  BY <1>1 DEF ChainTyped
<1>5. journal' = Append(journal, e)
  BY <1>1 DEF AppendedTo, Torn
<1> HIDE DEF e
<1>6. /\ journal' \in Seq(Line) /\ journal' # <<>> /\ Last(journal') = e
      /\ Len(journal') = Len(journal) + 1 /\ journal'[Len(journal) + 1] = e
      /\ \A n \in DOMAIN journal : n \in DOMAIN journal' /\ journal'[n] = journal[n]
      /\ \A n \in DOMAIN journal' : n \in DOMAIN journal \/ n = Len(journal) + 1
  <2> DEFINE q == Append(journal, e)
  <2>1. /\ q \in Seq(Line) /\ q # <<>> /\ Last(q) = e
        /\ Len(q) = Len(journal) + 1 /\ q[Len(journal) + 1] = e
        /\ \A n \in DOMAIN journal : n \in DOMAIN q /\ q[n] = journal[n]
        /\ \A n \in DOMAIN q : n \in DOMAIN journal \/ n = Len(journal) + 1
    BY ONLY <1>3, <1>4, OneMore
  <2>2. journal' = q
    BY ONLY <1>5
  <2> HIDE DEF q
  <2> QED
    BY ONLY <2>1, <2>2
<1>7. \A n \in DOMAIN journal : journal[n].is # "torn"
  <2>1. ASSUME NEW n \in DOMAIN journal, n = Len(journal) PROVE journal[n].is # "torn"
    <3>1. journal # <<>>
      BY <1>4, <2>1
    <3> QED
      BY <1>1, <2>1, <3>1 DEF Torn, Last
  <2> QED
    BY <1>1, <1>4, <2>1 DEF LinesOK
<1>8. \A n \in DOMAIN journal' : n < Len(journal') => journal'[n].is # "torn"
  BY <1>4, <1>6, <1>7
<1>9. \A n \in DOMAIN journal' : Known(journal'[n].id)
  BY <1>2, <1>3, <1>6 DEF Known
<1> QED
  BY <1>6, <1>8, <1>9 DEF e

\* What was acknowledged is still there when lines are added.
LEMMA AddedKept ==
  ASSUME JournalInv, UNCHANGED <<entries, acked, truncated>>,
         \A n \in DOMAIN journal : n \in DOMAIN journal' /\ journal'[n] = journal[n]
  PROVE  AckedIsKept'
  BY DEF JournalInv, AckedIsKept, Stored

\* write_all.
LEMMA KeepAppendLine ==
  ASSUME ChainInv, JournalInv, AppendLine
  PROVE  ChainInv' /\ JournalInv'
<1>1. /\ step = "append" /\ step' = "sync"
      /\ journal' = AppendedTo(journal, [id |-> batch[1], is |-> "whole"])
      /\ UNCHANGED <<db, configLock, batch, acked, up, truncated, nextId>>
  BY DEF AppendLine
<1>2. /\ journal' \in Seq(Line) /\ journal' # <<>>
      /\ Last(journal') = [id |-> batch[1], is |-> "whole"]
      /\ \A n \in DOMAIN journal : n \in DOMAIN journal' /\ journal'[n] = journal[n]
      /\ \A n \in DOMAIN journal' : n < Len(journal') => journal'[n].is # "torn"
      /\ \A n \in DOMAIN journal' : Known(journal'[n].id)
  BY <1>1, LineAdded
<1>3. ChainInv'
  <2>1. \A n \in DOMAIN batch' : Known(batch'[n])
    BY <1>1 DEF Known
  <2> QED
    BY <1>1, <1>2, <2>1, ChainFrame DEF ChainInv, ChainTyped
<1>4. HolderOK'
  BY <1>1 DEF HolderOK, JournalInv
<1>5. LinesOK' /\ BroughtOver'
  BY <1>1, <1>2 DEF LinesOK, BroughtOver
<1>6. AckedIsKept'
  BY <1>1, <1>2, AddedKept DEF db
<1> QED
  BY <1>3, <1>4, <1>5, <1>6 DEF JournalInv

\* write_all fails half way.
LEMMA KeepTearLine ==
  ASSUME ChainInv, JournalInv, TearLine
  PROVE  ChainInv' /\ JournalInv'
<1>1. /\ step = "append" /\ Unlock
      /\ journal' = AppendedTo(journal, [id |-> batch[1], is |-> "torn"])
      /\ UNCHANGED <<db, acked, up, truncated, nextId>>
  BY DEF TearLine
<1>2. /\ journal' \in Seq(Line)
      /\ \A n \in DOMAIN journal : n \in DOMAIN journal' /\ journal'[n] = journal[n]
      /\ \A n \in DOMAIN journal' : n < Len(journal') => journal'[n].is # "torn"
      /\ \A n \in DOMAIN journal' : Known(journal'[n].id)
  BY <1>1, LineAdded
<1>3. batch' = <<>> /\ batch' \in Seq(RecordIds) /\ DOMAIN batch' = {} /\ step' = "idle"
  BY <1>1 DEF Unlock
<1>4. ChainInv'
  BY <1>1, <1>2, <1>3, ChainFrame
<1>5. AckedIsKept'
  BY <1>1, <1>2, AddedKept DEF db
<1> QED
  BY <1>1, <1>2, <1>4, <1>5, ReleasedOK

\* sync_data, and the caller is told.
LEMMA KeepRecorded ==
  ASSUME ChainInv, JournalInv, Recorded
  PROVE  ChainInv' /\ JournalInv'
<1>1. /\ step = "sync" /\ Unlock /\ acked' = acked \cup {batch[1]}
      /\ UNCHANGED <<db, journal, up, truncated, nextId>>
  BY DEF Recorded
<1>2. batch' = <<>> /\ batch' \in Seq(RecordIds) /\ DOMAIN batch' = {} /\ step' = "idle"
  BY <1>1 DEF Unlock
<1>3. \A n \in DOMAIN journal' : Known(journal'[n].id)
  BY <1>1 DEF Known
<1>4. ChainInv'
  BY <1>1, <1>2, <1>3, ChainFrame DEF ChainInv, ChainTyped
<1>5. Len(journal) \in DOMAIN journal /\ journal[Len(journal)] = [id |-> batch[1], is |-> "whole"]
  <2>1. journal \in Seq(Line) /\ journal # <<>>
    BY <1>1 DEF ChainInv, ChainTyped, JournalInv, LinesOK
  <2>2. Len(journal) \in DOMAIN journal
    BY <2>1
  <2> QED
    BY <1>1, <2>2 DEF JournalInv, LinesOK, Last
<1>6. AckedIsKept'
  BY <1>1, <1>5 DEF JournalInv, AckedIsKept, Stored, db
<1>7. \A n \in DOMAIN journal' : n < Len(journal') => journal'[n].is # "torn"
  BY <1>1 DEF JournalInv, LinesOK
<1> QED
  BY <1>1, <1>4, <1>6, <1>7, ReleasedOK

\* The daemon starts.
LEMMA KeepStart ==
  ASSUME ChainInv, JournalInv, Start
  PROVE  ChainInv' /\ JournalInv'
<1>1. UNCHANGED <<db, journal, batch, acked, truncated, nextId>>
  BY DEF Start
<1>2. AckedIsKept' /\ entries' = entries /\ Visible' = Visible
  BY <1>1, StillKept DEF db, Visible
<1>3. CASE UNCHANGED <<configLock, step>>
  <2>1. ChainInv'
    BY <1>1, <1>3, ChainStays
  <2>2. HolderOK' /\ LinesOK' /\ BroughtOver'
    BY <1>1, <1>2, <1>3 DEF JournalInv, HolderOK, LinesOK, BroughtOver, Torn, Last
  <2> QED
    BY <1>2, <2>1, <2>2 DEF JournalInv
<1>4. CASE configLock = Nil /\ configLock' = Server /\ step' = "repair"
  <2>1. step = "idle"
    BY <1>4 DEF JournalInv, HolderOK
  <2>2. ChainInv'
    BY <1>1, <1>4, <2>1, ChainStays
  <2>3. HolderOK' /\ LinesOK' /\ BroughtOver'
    BY <1>1, <1>4, AuditAssumption DEF JournalInv, HolderOK, LinesOK, BroughtOver
  <2> QED
    BY <1>2, <2>2, <2>3 DEF JournalInv
<1> QED
  BY <1>3, <1>4 DEF Start

\* The journal is read.
LEMMA KeepParse ==
  ASSUME ChainInv, JournalInv, Parse
  PROVE  ChainInv' /\ JournalInv'
<1>1. step = "parse" /\ UNCHANGED <<db, acked, truncated, nextId>>
  BY DEF Parse
<1>2. CASE Unlock /\ UNCHANGED journal
  BY <1>1, <1>2, KeepRelease
<1>3. CASE /\ batch' = [i \in DOMAIN journal |-> journal[i].id]
           /\ step' = "lock" /\ UNCHANGED <<configLock, journal>>
  <2>1. journal \in Seq(Line) /\ Len(journal) \in Nat /\ DOMAIN journal = 1..Len(journal)
    BY DEF ChainInv, ChainTyped
  <2>2. \A i \in DOMAIN journal : journal[i].id \in RecordIds
    BY Numbers DEF ChainInv
  <2>3. /\ DOMAIN batch' = DOMAIN journal /\ batch' \in Seq(RecordIds)
        /\ \A i \in DOMAIN journal : batch'[i] = journal[i].id
    BY <1>3, <2>1, <2>2
  <2>4. ChainInv'
    <3>1. \A n \in DOMAIN batch' : Known(batch'[n])
      BY <2>3 DEF Known
    <3>2. \A n \in DOMAIN journal' : Known(journal'[n].id)
      BY <1>3 DEF Known
    <3> QED
      BY <1>1, <1>3, <2>1, <2>3, <3>1, <3>2, ChainFrame
  <2>5. HolderOK'
    BY <1>1, <1>3, AuditAssumption DEF JournalInv, HolderOK
  <2>6. LinesOK' /\ BroughtOver'
    BY <1>3, <2>3 DEF JournalInv, LinesOK, BroughtOver
  <2>7. AckedIsKept'
    BY <1>1, <1>3, StillKept DEF db
  <2> QED
    BY <2>4, <2>5, <2>6, <2>7 DEF JournalInv
<1> QED
  BY <1>2, <1>3 DEF Parse

\* The journal goes once all of its records are in the chain.
LEMMA KeepRemoveJournal ==
  ASSUME ChainInv, JournalInv, RemoveJournal
  PROVE  ChainInv' /\ JournalInv'
<1>1. /\ step = "remove" /\ journal' = <<>> /\ Unlock
      /\ UNCHANGED <<db, acked, truncated, nextId>>
  BY DEF RemoveJournal
<1>2. /\ batch' = <<>> /\ batch' \in Seq(RecordIds) /\ DOMAIN batch' = {} /\ step' = "idle"
      /\ journal' \in Seq(Line) /\ DOMAIN journal' = {}
  BY <1>1 DEF Unlock
<1>3. ChainInv'
  BY <1>1, <1>2, ChainFrame
<1>4. AckedIsKept'
  <2> SUFFICES ASSUME ~truncated', NEW i \in acked' PROVE i \in Stored'
    BY DEF AckedIsKept
  <2>1. CASE i \in Stored
    BY <1>1, <2>1 DEF Stored, db
  <2>2. ASSUME NEW n \in DOMAIN journal, journal[n] = [id |-> i, is |-> "whole"]
        PROVE  i \in Stored'
    <3>1. journal[n].id = i
      BY <2>2
    <3>2. PICK x \in entries : x.id = i
      BY <1>1, <3>1 DEF JournalInv, BroughtOver
    <3> QED
      BY <1>1, <3>2 DEF Stored, db
  <2> QED
    BY <1>1, <2>1, <2>2 DEF JournalInv, AckedIsKept
<1> QED
  BY <1>1, <1>2, <1>3, <1>4, ReleasedOK

\* reconcile takes the advisory lock: the records are all still to be seen.
LEMMA KeepLockChain ==
  ASSUME ChainInv, JournalInv, LockChain
  PROVE  JournalInv'
<1>1. /\ step = "lock" /\ step' = "insert"
      /\ UNCHANGED <<entries, staged, journal, configLock, batch, acked, truncated>>
  BY DEF LockChain
<1>2. HolderOK' /\ LinesOK'
  BY <1>1 DEF JournalInv, HolderOK, LinesOK
<1>3. BroughtOver'
  BY <1>1 DEF JournalInv, BroughtOver, Visible
<1>4. AckedIsKept'
  BY <1>1, StillKept
<1> QED
  BY <1>2, <1>3, <1>4 DEF JournalInv

\* The record at the head of the batch is in the chain when it leaves it.
LEMMA KeepInsertMissing ==
  ASSUME ChainInv, JournalInv, InsertMissing
  PROVE  JournalInv'
<1>1. /\ step = "insert" /\ step' = "insert"
      /\ UNCHANGED <<entries, journal, configLock, acked, truncated>>
      /\ batch # <<>> /\ batch' = Tail(batch) /\ Visible \subseteq Visible'
      /\ \E x \in Visible' : x.id = Head(batch)
  BY ChainInsertMissing DEF InsertMissing
<1>2. configLock = Server
  BY <1>1 DEF JournalInv, HolderOK
<1>3. HolderOK' /\ LinesOK'
  BY <1>1, <1>2, AuditAssumption DEF JournalInv, HolderOK, LinesOK
<1>4. BroughtOver'
  <2>1. \A m \in DOMAIN batch : batch[m] = Head(batch) \/
            \E n \in DOMAIN Tail(batch) : Tail(batch)[n] = batch[m]
    BY <1>1, HeadAndTail DEF ChainInv, ChainTyped
  <2>2. ASSUME NEW n \in DOMAIN journal
        PROVE  \/ \E m \in DOMAIN batch' : batch'[m] = journal[n].id
               \/ \E x \in Visible' : x.id = journal[n].id
    <3>1. \/ \E m \in DOMAIN batch : batch[m] = journal[n].id
          \/ \E x \in Visible : x.id = journal[n].id
      BY <1>1 DEF JournalInv, BroughtOver
    <3> QED
      BY <1>1, <2>1, <3>1
  <2> QED
    BY <1>1, <2>2 DEF BroughtOver
<1>5. AckedIsKept'
  BY <1>1, StillKept
<1> QED
  BY <1>3, <1>4, <1>5 DEF JournalInv

\* With the batch empty all records of the journal are in the chain.
LEMMA KeepCommitMissing ==
  ASSUME ChainInv, JournalInv, CommitMissing
  PROVE  JournalInv'
<1>1. /\ step = "insert" /\ step' = "remove" /\ batch = <<>> /\ entries' = Visible
      /\ UNCHANGED <<journal, configLock, batch, acked, truncated>>
  BY DEF CommitMissing
<1>2. HolderOK' /\ LinesOK'
  BY <1>1 DEF JournalInv, HolderOK, LinesOK
<1>3. BroughtOver'
  BY <1>1 DEF JournalInv, BroughtOver
<1>4. AckedIsKept'
  BY <1>1 DEF JournalInv, AckedIsKept, Stored, Visible
<1> QED
  BY <1>2, <1>3, <1>4 DEF JournalInv

\* Whoever dies leaves the lines as they are.
LEMMA KeepCrash ==
  ASSUME ChainInv, JournalInv, Crash
  PROVE  JournalInv'
<1>1. Unlock /\ UNCHANGED <<entries, journal, acked, truncated>>
  BY DEF Crash
<1>2. AckedIsKept'
  BY <1>1, StillKept
<1>3. \A n \in DOMAIN journal' : n < Len(journal') => journal'[n].is # "torn"
  BY <1>1 DEF JournalInv, LinesOK
<1> QED
  BY <1>1, <1>2, <1>3, ReleasedOK

-----------------------------------------------------------------------------
\* A handler's step is invisible to who holds the configuration lock.
LEMMA KeepWriting ==
  ASSUME ChainInv, JournalInv, NEW w \in Writers, Writing(w)
  PROVE  ChainInv' /\ JournalInv' /\ exports' = exports
<1>1. ASSUME UNCHANGED local, UNCHANGED exports, entries \subseteq entries', staged' = staged
      PROVE  JournalInv' /\ exports' = exports
  <2>1. \A x \in Visible : x \in Visible'
    BY <1>1 DEF Visible
  <2>2. /\ \A x \in entries : \E y \in entries' : y.id = x.id
        /\ \A x \in Visible : \E y \in Visible' : y.id = x.id
    BY ONLY <1>1, <2>1
  <2> QED
    BY <1>1, <2>2, JournalFrame
<1>2. CASE \E k \in Kinds, i \in pending \cup {Nil} : Begin(w, k, i)
  <2>1. PICK k \in Kinds, i \in pending \cup {Nil} : Begin(w, k, i)
    BY <1>2
  <2>2. UNCHANGED local /\ UNCHANGED exports /\ entries \subseteq entries' /\ staged' = staged
    BY <2>1 DEF Begin
  <2> QED
    BY <1>1, <2>1, <2>2, ChainBegin
<1>3. CASE LockAudit(w)
  <2>1. UNCHANGED local /\ UNCHANGED exports /\ entries \subseteq entries' /\ staged' = staged
    BY <1>3 DEF LockAudit
  <2> QED
    BY <1>1, <1>3, <2>1, ChainLock
<1>4. CASE ReadTail(w)
  <2>1. UNCHANGED local /\ UNCHANGED exports /\ entries \subseteq entries' /\ staged' = staged
    BY <1>4 DEF ReadTail
  <2> QED
    BY <1>1, <1>4, <2>1, ChainRead
<1>5. CASE Insert(w)
  <2>1. UNCHANGED local /\ UNCHANGED exports /\ entries \subseteq entries' /\ staged' = staged
    BY <1>5 DEF Insert
  <2> QED
    BY <1>1, <1>5, <2>1, ChainInsert
<1>6. CASE CommitEntry(w)
  <2>1. UNCHANGED local /\ UNCHANGED exports /\ entries \subseteq entries' /\ staged' = staged
    BY <1>6 DEF CommitEntry
  <2> QED
    BY <1>1, <1>6, <2>1, ChainCommit
<1>7. CASE RollBack(w)
  <2>1. UNCHANGED local /\ UNCHANGED exports /\ entries \subseteq entries' /\ staged' = staged
    BY <1>7 DEF RollBack
  <2> QED
    BY <1>1, <1>7, <2>1, ChainRollBack
<1> QED
  BY <1>2, <1>3, <1>4, <1>5, <1>6, <1>7 DEF Writing

\* Nor does it see that an identity is gone.
LEMMA KeepExpire ==
  ASSUME ChainInv, JournalInv, NEW i \in RecordIds, Expire(i)
  PROVE  ChainInv' /\ JournalInv'
<1>1. UNCHANGED local /\ staged' = staged /\ ChainInv' /\ Renamed(entries, entries')
  BY ChainExpire DEF Expire
<1>2. \A x \in entries : \E y \in entries' : y.id = x.id
  BY <1>1 DEF Renamed, Agrees, Same
<1>3. \A x \in Visible : \E y \in Visible' : y.id = x.id
  BY <1>1, <1>2 DEF Visible
<1> QED
  BY <1>1, <1>2, <1>3, JournalFrame

\* Exports and a stop of the daemon leave the chain and the journal alone.
LEMMA KeepStill ==
  ASSUME ChainInv, JournalInv, UNCHANGED db, nextId' = nextId,
         UNCHANGED <<journal, configLock, step, batch, acked, truncated>>
  PROVE  ChainInv' /\ JournalInv'
<1>1. ChainInv'
  BY ChainStays
<1>2. entries' = entries /\ Visible' = Visible /\ Torn' = Torn
  BY DEF db, Visible, Torn
<1>3. HolderOK' /\ LinesOK' /\ BroughtOver'
  BY <1>2 DEF JournalInv, HolderOK, LinesOK, BroughtOver, Torn
<1>4. AckedIsKept'
  BY <1>2, StillKept
<1> QED
  BY <1>1, <1>3, <1>4 DEF JournalInv

\* At the start there is nothing.
LEMMA AuditInitInv ==
  ASSUME AuditInit
  PROVE  ChainInv /\ JournalInv
<1>1. entries = {} /\ staged = {} /\ Visible = {} /\ chainLock = Nil /\ step = "idle"
  BY DEF AuditInit, Visible
<1>2. journal = <<>> /\ batch = <<>> /\ DOMAIN journal = {} /\ DOMAIN batch = {}
  BY DEF AuditInit
<1>3. \A w \in Writers : writer[w] = NotWriting /\ writer[w].pc = "idle"
  BY DEF AuditInit, NotWriting
<1>4. ChainTyped
  <2>1. journal \in Seq(Line) /\ batch \in Seq(RecordIds)
    BY <1>2
  <2> QED
    BY <1>1, <2>1 DEF AuditInit, ChainTyped, NotWriting
<1>5. OneAppends /\ Numbered
  BY <1>1, <1>2, <1>3, AuditAssumption DEF OneAppends, Numbered, Appending
<1>6. Chained({})
  BY DEF Chained, Distinct, Headed, Links
<1>7. \A w \in Writers : Drawn(w) /\ OwnId(w)
  BY <1>3 DEF Drawn, OwnId
<1>8. HolderOK
  BY <1>1, <1>2, AuditAssumption DEF AuditInit, HolderOK
<1>9. LinesOK /\ BroughtOver /\ AckedIsKept
  BY <1>1, <1>2 DEF AuditInit, LinesOK, BroughtOver, AckedIsKept
<1> QED
  BY <1>1, <1>4, <1>5, <1>6, <1>7, <1>8, <1>9 DEF ChainInv, JournalInv

\* Every step keeps the chain and the journal in order.
LEMMA AuditInvStep ==
  ASSUME ChainInv, JournalInv, [AuditNext]_auditVars
  PROVE  ChainInv' /\ JournalInv'
<1>1. CASE \E w \in Writers : Writing(w)
  BY <1>1, KeepWriting
<1>2. CASE \E i \in RecordIds : Expire(i)
  BY <1>2, KeepExpire
<1>3. CASE \E p \in Recorders : BeginRecord(p)
  BY <1>3, KeepBeginRecord
<1>4. CASE Record \/ CrashInRewrite \/ TearLine
  BY <1>4, KeepRepair, KeepRewrite, KeepAppendLine, KeepRecorded, KeepCrashInRewrite,
     KeepTearLine DEF Record
<1>5. CASE Start
  BY <1>5, KeepStart
<1>6. CASE Reconcile
  BY <1>6, KeepParse, ChainReconcile, KeepLockChain, ChainInsertMissing, KeepInsertMissing,
     ChainCommitMissing, KeepCommitMissing, KeepRemoveJournal DEF Reconcile
<1>7. CASE Crash
  BY <1>7, ChainCrash, KeepCrash DEF JournalInv
<1>8. CASE Stop
  BY <1>8, KeepStill DEF Stop
<1>9. CASE \E e \in Exporters : \/ ExistingExportTail(e) \/ (\E n \in Limits : FetchWindow(e, n))
                                \/ WriteExport(e)
  <2>1. UNCHANGED db /\ UNCHANGED local /\ nextId' = nextId
    BY <1>9 DEF ExistingExportTail, FetchWindow, WriteExport
  <2> QED
    BY <2>1, KeepStill DEF local
<1>10. CASE UNCHANGED auditVars
  <2>1. UNCHANGED db /\ UNCHANGED local /\ nextId' = nextId
    BY <1>10 DEF auditVars
  <2> QED
    BY <2>1, KeepStill DEF local
<1> QED
  BY <1>1, <1>2, <1>3, <1>4, <1>5, <1>6, <1>7, <1>8, <1>9, <1>10 DEF AuditNext

\* The chain and the journal are always in order.
THEOREM AuditInOrder == AuditSpec => [](ChainInv /\ JournalInv)
<1>1. AuditInit => ChainInv /\ JournalInv
  BY AuditInitInv
<1>2. (ChainInv /\ JournalInv) /\ [AuditNext]_auditVars => (ChainInv /\ JournalInv)'
  BY AuditInvStep
<1> QED
  BY <1>1, <1>2, PTL DEF AuditSpec

(* Of append_audit, append_local_audit and reconcile: whatever interleaves,   *)
(* fails or expires, every entry carries the hash of the one before it.       *)
THEOREM AuditChainLinked == AuditSpec => []ChainIsLinked
<1>1. ChainInv => ChainIsLinked
  BY DEF ChainInv, Chained, ChainIsLinked
<1> QED
  BY <1>1, AuditInOrder, PTL

(* Of local_audit.rs: a record whose caller was told it is durable is in the  *)
(* journal or in the database, unless a process died as it rewrote the        *)
(* journal.                                                                   *)
THEOREM AuditAckedKept == AuditSpec => []AckedIsKept
<1>1. JournalInv => AckedIsKept
  BY DEF JournalInv
<1> QED
  BY <1>1, AuditInOrder, PTL

-----------------------------------------------------------------------------
\* What is committed stays, and what comes is above it.
Grows ==
    /\ \A x \in entries : \E y \in entries' : Same(x, y)
    /\ \A y \in entries' : (\E x \in entries : Same(x, y)) \/ (\A x \in entries : x.seq < y.seq)

\* Nothing comes.
LEMMA GrowsNot ==
  ASSUME entries' = entries
  PROVE  Grows
  BY DEF Grows, Same

\* A handler's row was numbered under the lock.
LEMMA CommitGrows ==
  ASSUME ChainInv, NEW w \in Writers, CommitEntry(w)
  PROVE  Grows /\ StagedAbove'
<1>1. OneAppends /\ Drawn(w) /\ writer[w].pc = "inserted" /\ staged' = staged
  BY DEF ChainInv, CommitEntry
<1>2. staged = {}
  BY <1>1, AuditAssumption DEF OneAppends, Appending
<1>3. PICK new : entries' = entries \cup {new} /\ new.seq = writer[w].seq
  <2> DEFINE t == writer[w]
             about == CASE t.kind = "enroll" -> t.id
                        [] t.kind = "activate" -> t.who
                        [] t.kind = "plain" -> Nil
             inserted == [id |-> t.id, seq |-> t.seq, prev |-> t.prev,
                          subject |-> about, hashed |-> about]
  <2>1. entries' = entries \cup {inserted}
    BY DEF CommitEntry
  <2>2. inserted.seq = writer[w].seq
    OBVIOUS
  <2> HIDE DEF inserted
  <2> QED
    BY <2>1, <2>2
<1>4. \A x \in entries : x.seq < new.seq
  BY <1>1, <1>3 DEF Drawn
<1> QED
  BY <1>1, <1>2, <1>3, <1>4 DEF Grows, Same, StagedAbove

\* So were the reconciling transaction's.
LEMMA InsertStaysAbove ==
  ASSUME ChainInv, StagedAbove, InsertMissing
  PROVE  entries' = entries /\ StagedAbove'
<1>1. ChainTyped /\ Numbered /\ entries' = entries
  BY DEF ChainInv, InsertMissing
<1>2. CASE staged' \in {staged, {}}
  BY <1>1, <1>2 DEF StagedAbove
<1>3. CASE \E new : staged' = staged \cup {new} /\ new.seq = nextSeq
  BY <1>1, <1>3 DEF StagedAbove, Numbered, Visible
<1>4. staged' \in {staged, {}} \/ \E new : staged' = staged \cup {new} /\ new.seq = nextSeq
  <2> DEFINE inserted == [id |-> Head(batch), seq |-> nextSeq, prev |-> TailOf(Visible, Nil),
                          subject |-> Nil, hashed |-> Nil]
  <2>1. staged' \in {staged, {}} \/ staged' = staged \cup {inserted}
    BY DEF InsertMissing, AppendRecord
  <2>2. inserted.seq = nextSeq
    OBVIOUS
  <2> HIDE DEF inserted
  <2> QED
    BY <2>1, <2>2
<1> QED
  BY <1>1, <1>2, <1>3, <1>4

\* Every step lets the chain grow at its end only.
LEMMA StepGrows ==
  ASSUME ChainInv, StagedAbove, [AuditNext]_auditVars
  PROVE  Grows /\ StagedAbove'
<1>1. ASSUME UNCHANGED <<entries, staged>> PROVE Grows /\ StagedAbove'
  BY <1>1, GrowsNot DEF StagedAbove
<1>2. ASSUME NEW w \in Writers, Writing(w) PROVE Grows /\ StagedAbove'
  <2>1. CASE CommitEntry(w)
    BY <2>1, CommitGrows
  <2>2. CASE ~CommitEntry(w)
    <3>1. UNCHANGED <<entries, staged>>
      BY <1>2, <2>2 DEF Writing, Begin, LockAudit, ReadTail, Insert, RollBack
    <3> QED
      BY <1>1, <3>1
  <2> QED
    BY <2>1, <2>2
<1>3. ASSUME NEW i \in RecordIds, Expire(i) PROVE Grows /\ StagedAbove'
  <2>1. Renamed(entries, entries') /\ staged' = staged
    BY <1>3, ChainExpire DEF Expire
  <2> QED
    BY <2>1 DEF Renamed, Agrees, Same, Grows, StagedAbove
<1>4. CASE \E p \in Recorders : BeginRecord(p)
  BY <1>1, <1>4 DEF BeginRecord, db
<1>5. CASE Record \/ CrashInRewrite \/ TearLine \/ Start
  BY <1>1, <1>5 DEF Record, Repair, Rewrite, AppendLine, Recorded, CrashInRewrite, TearLine,
                    Start, db
<1>6. CASE Parse \/ LockChain \/ RemoveJournal \/ Stop
  BY <1>1, <1>6 DEF Parse, LockChain, RemoveJournal, Stop, db
<1>7. CASE InsertMissing
  BY <1>7, InsertStaysAbove, GrowsNot
<1>8. CASE CommitMissing
  <2>1. entries' = entries \cup staged /\ staged' = {}
    BY <1>8 DEF CommitMissing, Visible
  <2> QED
    BY <2>1 DEF StagedAbove, Grows, Same
<1>9. CASE Crash
  <2>1. entries' = entries /\ staged' = {}
    BY <1>9 DEF Crash
  <2> QED
    BY <2>1, GrowsNot DEF StagedAbove
<1>10. CASE \E e \in Exporters : \/ ExistingExportTail(e) \/ (\E n \in Limits : FetchWindow(e, n))
                                 \/ WriteExport(e)
  BY <1>1, <1>10 DEF ExistingExportTail, FetchWindow, WriteExport, db
<1>11. CASE UNCHANGED auditVars
  BY <1>1, <1>11 DEF auditVars, db
<1> QED
  BY <1>2, <1>3, <1>4, <1>5, <1>6, <1>7, <1>8, <1>9, <1>10, <1>11 DEF AuditNext, Reconcile

\* Files stay right as the chain grows.
LEMMA FilesFrame ==
  ASSUME ChainInv, ChainInv', FilesOK, Grows, files' = files
  PROVE  FilesOK'
<1>1. (\A x \in entries : x.seq \in Nat) /\ (\A x \in entries' : x.seq \in Nat)
  BY DEF ChainInv, ChainTyped, Entry
<1>2. ASSUME NEW f \in files
      PROVE  /\ f.to \in Nat \ {0} /\ f.tail \in RecordIds
             /\ \E x \in entries' : f.to <= x.seq
             /\ \A x \in entries' : x.seq <= f.to => \E g \in files : x.id \in g.ids
             /\ \A i \in f.ids : \E x \in entries' : x.id = i /\ x.seq <= f.to
  <2>1. f.to \in Nat \ {0} /\ f.tail \in RecordIds
    BY DEF FilesOK
  <2>2. PICK z \in entries : f.to <= z.seq
    BY DEF FilesOK
  <2>3. \E x \in entries' : f.to <= x.seq
    BY <2>2 DEF Grows, Same
  <2>4. ASSUME NEW y \in entries', y.seq <= f.to PROVE \E g \in files : y.id \in g.ids
    <3>1. PICK x \in entries : Same(x, y)
      BY <1>1, <2>1, <2>2, <2>4 DEF Grows
    <3> QED
      BY <2>4, <3>1 DEF FilesOK, Same
  <2>5. ASSUME NEW i \in f.ids PROVE \E x \in entries' : x.id = i /\ x.seq <= f.to
    <3>1. PICK x \in entries : x.id = i /\ x.seq <= f.to
      BY <2>5 DEF FilesOK
    <3> QED
      BY <3>1 DEF Grows, Same
  <2> QED
    BY <2>1, <2>3, <2>4, <2>5
<1>3. ASSUME NEW f \in files, NEW g \in files, f # g
      PROVE  f.to # g.to /\ (f.to < g.to => \A x \in entries' : x.id \in g.ids => f.to < x.seq)
  <2>1. f.to # g.to /\ f.to \in Nat
    BY <1>3 DEF FilesOK
  <2>2. PICK z \in entries : f.to <= z.seq
    BY DEF FilesOK
  <2>3. ASSUME f.to < g.to, NEW y \in entries', y.id \in g.ids PROVE f.to < y.seq
    <3>1. CASE \A x \in entries : x.seq < y.seq
      BY <1>1, <2>1, <2>2, <3>1
    <3>2. CASE \E x \in entries : Same(x, y)
      BY <1>3, <2>3, <3>2 DEF FilesOK, Same
    <3> QED
      BY <3>1, <3>2 DEF Grows
  <2> QED
    BY <2>1, <2>3
<1>4. files' # {} => \E f \in files' : \A g \in files' : g.to <= f.to
  BY DEF FilesOK
<1> QED
  BY <1>2, <1>3, <1>4 DEF FilesOK

\* So does what an exporter has read.
LEMMA WindowFrame ==
  ASSUME ChainInv, ChainInv', Grows, files' = files, NEW e \in Exporters, WindowOK(e),
         exporter'[e] = exporter[e]
  PROVE  WindowOK(e)'
<1>1. (\A x \in entries : x.seq \in Nat) /\ (\A x \in entries' : x.seq \in Nat)
  BY DEF ChainInv, ChainTyped, Entry
<1>2. ASSUME exporter[e].pc = "rows", exporter[e].rows # {}
      PROVE  \E t \in exporter[e].rows :
               /\ \A x \in exporter[e].rows :
                      /\ exporter[e].from < x.seq /\ x.seq <= t.seq
                      /\ \E y \in entries' : Same(x, y)
               /\ \A y \in entries' : exporter[e].from < y.seq /\ y.seq <= t.seq =>
                      \E x \in exporter[e].rows : Same(x, y)
  <2> DEFINE rows == exporter[e].rows
  <2>1. PICK t \in rows :
               /\ \A x \in rows :
                      /\ exporter[e].from < x.seq /\ x.seq <= t.seq
                      /\ \E y \in entries : Same(x, y)
               /\ \A y \in entries : exporter[e].from < y.seq /\ y.seq <= t.seq =>
                      \E x \in rows : Same(x, y)
    BY <1>2 DEF WindowOK
  <2>2. ASSUME NEW x \in rows PROVE \E y \in entries' : Same(x, y)
    BY <2>1, <2>2 DEF Grows, Same
  <2>3. ASSUME NEW y \in entries', exporter[e].from < y.seq, y.seq <= t.seq
        PROVE  \E x \in rows : Same(x, y)
    <3>1. PICK z \in entries : Same(t, z)
      BY <2>1
    <3>2. PICK u \in entries : Same(u, y)
      BY <1>1, <2>3, <3>1 DEF Grows, Same
    <3>3. PICK x \in rows : Same(x, u)
      BY <2>1, <2>3, <3>2 DEF Same
    <3> QED
      BY <3>2, <3>3 DEF Same
  <2> QED
    BY <2>1, <2>2, <2>3
<1> QED
  BY <1>2 DEF WindowOK

-----------------------------------------------------------------------------
Exporting == [pc : {"idle", "tail", "rows"}, from : Nat,
              tail : RecordIds \cup {Nil}, rows : SUBSET Entry]

\* One exporter moves and the files stay.
LEMMA ExporterMoves ==
  ASSUME ChainInv, ChainInv', ExportInv, NEW e \in Exporters, NEW r \in Exporting,
         exporter' = [exporter EXCEPT ![e] = r], files' = files, UNCHANGED db,
         WindowOK(e)'
  PROVE  ExportInv'
<1>1. entries' = entries /\ staged' = staged
  BY DEF db
<1>2. Grows
  BY <1>1, GrowsNot
<1>3. exporter \in [Exporters -> Exporting]
  BY DEF ExportInv, Exporting
<1>4. exporter' \in [Exporters -> Exporting]
  BY <1>3
<1>5. ASSUME NEW d \in Exporters, d # e PROVE WindowOK(d)'
  <2>1. exporter'[d] = exporter[d] /\ WindowOK(d)
    BY <1>3, <1>5 DEF ExportInv
  <2> QED
    BY <1>2, <2>1, WindowFrame
<1>6. FilesOK' /\ StagedAbove'
  BY <1>1, <1>2, FilesFrame DEF ExportInv, StagedAbove
<1> QED
  BY <1>4, <1>5, <1>6 DEF ExportInv, Exporting

\* existing_export_tail reads the newest file.
LEMMA TailRead ==
  ASSUME ChainInv, ChainInv', ExportInv, NEW e \in Exporters, ExistingExportTail(e)
  PROVE  ExportInv'
<1> DEFINE from == IF files = {} THEN 0 ELSE Newest.to
           tail == IF files = {} THEN Nil ELSE Newest.tail
           r == [exporter[e] EXCEPT !.pc = "tail", !.from = from, !.tail = tail]
<1>1. exporter' = [exporter EXCEPT ![e] = r] /\ files' = files /\ UNCHANGED db
  BY DEF ExistingExportTail
<1>2. exporter \in [Exporters -> Exporting] /\ exporter[e] \in Exporting
  BY DEF ExportInv, Exporting
<1>3. /\ from \in Nat /\ (\A f \in files : f.to <= from)
      /\ from = 0 \/ \E f \in files : f.to = from
      /\ tail \in RecordIds \cup {Nil}
  <2>1. CASE files = {}
    BY <2>1
  <2>2. CASE files # {}
    <3>1. \E f \in files : \A g \in files : g.to <= f.to
      BY <2>2 DEF ExportInv, FilesOK
    <3>2. Newest \in files /\ \A g \in files : g.to <= Newest.to
      BY <3>1 DEF Newest
    <3> QED
      BY <2>2, <3>2 DEF ExportInv, FilesOK
  <2> QED
    BY <2>1, <2>2
<1> HIDE DEF from, tail
<1>4. r \in Exporting /\ r.pc = "tail" /\ r.from = from
  BY <1>2, <1>3 DEF Exporting
<1> HIDE DEF r
<1>5. exporter'[e] = r
  BY <1>1, <1>2
<1>6. WindowOK(e)'
  BY <1>1, <1>3, <1>4, <1>5 DEF WindowOK
<1> QED
  BY <1>1, <1>4, <1>6, ExporterMoves

\* fetch_window reads what comes after it.
LEMMA WindowRead ==
  ASSUME ChainInv, ChainInv', ExportInv, NEW e \in Exporters, NEW limit, FetchWindow(e, limit)
  PROVE  ExportInv'
<1>1. PICK rows \in Windows(exporter[e].from, limit) :
        exporter' = [exporter EXCEPT ![e].pc = "rows", ![e].rows = rows]
  BY DEF FetchWindow
<1> DEFINE r == [exporter[e] EXCEPT !.pc = "rows", !.rows = rows]
           from == exporter[e].from
<1>2. /\ exporter' = [exporter EXCEPT ![e] = r] /\ files' = files /\ UNCHANGED db
      /\ exporter[e].pc = "tail"
  BY <1>1 DEF FetchWindow
<1>3. exporter \in [Exporters -> Exporting] /\ exporter[e] \in Exporting /\ WindowOK(e)
  BY DEF ExportInv, Exporting
<1>4. \/ rows = {}
      \/ \E t \in After(from) : rows = {x \in After(from) : x.seq <= t.seq}
  BY <1>1 DEF Windows
<1>5. entries \subseteq Entry /\ \A x \in entries : x.seq \in Nat
  BY DEF ChainInv, ChainTyped, Entry
<1>6. rows \subseteq entries
  BY <1>4 DEF After
<1>7. r \in Exporting /\ r.pc = "rows" /\ r.from = from /\ r.rows = rows
  <2>1. rows \in SUBSET Entry
    BY <1>5, <1>6
  <2> QED
    BY <1>3, <2>1 DEF Exporting
<1>8. ASSUME rows # {}
      PROVE  \E t \in rows :
               /\ \A x \in rows : from < x.seq /\ x.seq <= t.seq /\ \E y \in entries : Same(x, y)
               /\ \A y \in entries : from < y.seq /\ y.seq <= t.seq => \E x \in rows : Same(x, y)
  <2>1. PICK t \in After(from) : rows = {x \in After(from) : x.seq <= t.seq}
    BY <1>4, <1>8
  <2>2. t \in rows /\ from \in Nat
    BY <1>3, <1>5, <2>1 DEF After, Exporting
  <2>3. \A x \in rows : x \in entries /\ from < x.seq /\ x.seq <= t.seq
    BY <1>5, <2>1, <2>2 DEF After
  <2>4. \A y \in entries : from < y.seq /\ y.seq <= t.seq => y \in rows
    BY <1>5, <2>1, <2>2 DEF After
  <2> QED
    BY <2>2, <2>3, <2>4 DEF Same
<1>9. exporter'[e] = r /\ entries' = entries
  BY <1>2, <1>3 DEF db
<1> HIDE DEF r
<1>10. WindowOK(e)'
  <2>1. /\ from \in Nat /\ \A f \in files : f.to <= from
        /\ from = 0 \/ \E f \in files : f.to = from
    BY <1>2, <1>3 DEF WindowOK
  <2> HIDE DEF from
  <2> QED
    BY <1>2, <1>7, <1>8, <1>9, <2>1 DEF WindowOK
<1> QED
  BY <1>2, <1>7, <1>10, ExporterMoves

\* The file written is the newest, and has what the others have not.
LEMMA FileWritten ==
  ASSUME ChainInv, ExportInv, NEW e \in Exporters, exporter[e].pc = "rows",
         exporter[e].rows # {}, NEW new, new = FileOf(exporter[e].rows),
         files' = files \cup {new}, entries' = entries
  PROVE  FilesOK'
<1> DEFINE rows == exporter[e].rows
           from == exporter[e].from
<1>1. exporter[e] \in Exporting /\ WindowOK(e) /\ FilesOK
  BY DEF ExportInv, Exporting
<1>2. /\ from \in Nat /\ \A f \in files : f.to <= from
      /\ from = 0 \/ \E f \in files : f.to = from
  BY <1>1 DEF WindowOK
<1>3. PICK t \in rows :
        /\ \A x \in rows : from < x.seq /\ x.seq <= t.seq /\ \E y \in entries : Same(x, y)
        /\ \A y \in entries : from < y.seq /\ y.seq <= t.seq => \E x \in rows : Same(x, y)
  BY <1>1 DEF WindowOK
<1>4. rows \subseteq Entry /\ entries \subseteq Entry /\ Distinct(entries)
  BY <1>1 DEF Exporting, ChainInv, ChainTyped, Chained
<1> HIDE DEF rows, from
<1>5. (\A x \in rows : x.seq \in Nat \ {0}) /\ (\A x \in entries : x.seq \in Nat \ {0})
  BY <1>4 DEF Entry
<1>6. LastOf(rows) \in rows /\ \A x \in rows : x.seq <= LastOf(rows).seq
  BY <1>3 DEF LastOf
<1>7. /\ new.to = t.seq /\ new.ids = {x.id : x \in rows} /\ new.tail \in RecordIds
  <2>1. LastOf(rows).seq = t.seq
    BY <1>3, <1>5, <1>6
  <2>2. LastOf(rows).id \in RecordIds
    BY <1>4, <1>6 DEF Entry
  <2>3. new.to = LastOf(rows).seq /\ new.ids = {x.id : x \in rows} /\ new.tail = LastOf(rows).id
    BY DEF FileOf, rows
  <2> QED
    BY <2>1, <2>2, <2>3
<1>8. from < new.to /\ new.to \in Nat \ {0} /\ \A f \in files : f.to \in Nat /\ f.to < new.to
  <2>1. \A f \in files : f.to \in Nat
    BY <1>1 DEF FilesOK
  <2> QED
    BY <1>2, <1>3, <1>5, <1>7, <2>1
<1>9. ASSUME NEW x \in entries, x.id \in new.ids
      PROVE  from < x.seq /\ x.seq <= new.to
  <2>1. PICK z \in rows : z.id = x.id
    BY <1>7, <1>9
  <2>2. PICK y \in entries : Same(z, y)
    BY <1>3
  <2>3. y = x
    BY <1>4, <2>1, <2>2 DEF Distinct, Same
  <2> QED
    BY <1>3, <1>7, <2>2, <2>3 DEF Same
<1>10. \E f \in files' : \A g \in files' : g.to <= f.to
  BY <1>8
<1>11. /\ \E x \in entries : new.to <= x.seq
       /\ \A x \in entries : x.seq <= new.to => \E g \in files' : x.id \in g.ids
       /\ \A i \in new.ids : \E x \in entries : x.id = i /\ x.seq <= new.to
  <2>1. PICK z \in entries : Same(t, z)
    BY <1>3
  <2>2. new.to <= z.seq
    BY <1>5, <1>7, <2>1 DEF Same
  <2>3. ASSUME NEW x \in entries, x.seq <= new.to PROVE \E g \in files' : x.id \in g.ids
    <3>1. CASE from < x.seq
      <4>1. PICK y \in rows : Same(y, x)
        BY <1>3, <1>7, <2>3, <3>1
      <4> QED
        BY <1>7, <4>1 DEF Same
    <3>2. CASE x.seq <= from
      <4>1. PICK f \in files : f.to = from
        BY <1>2, <1>5, <3>2
      <4>2. \E g \in files : x.id \in g.ids
        BY <1>1, <3>2, <4>1 DEF FilesOK
      <4> QED
        BY <4>2
    <3> QED
      BY <1>2, <1>5, <3>1, <3>2
  <2>4. ASSUME NEW i \in new.ids PROVE \E x \in entries : x.id = i /\ x.seq <= new.to
    <3>1. PICK z1 \in rows : z1.id = i
      BY <1>7, <2>4
    <3>2. PICK y \in entries : Same(z1, y)
      BY <1>3
    <3> QED
      BY <1>3, <1>7, <3>1, <3>2 DEF Same
  <2> QED
    BY <2>1, <2>2, <2>3, <2>4
<1>12. ASSUME NEW f \in files
       PROVE  /\ f.to \in Nat \ {0} /\ f.tail \in RecordIds
              /\ \E x \in entries : f.to <= x.seq
              /\ \A x \in entries : x.seq <= f.to => \E g \in files' : x.id \in g.ids
              /\ \A i \in f.ids : \E x \in entries : x.id = i /\ x.seq <= f.to
  BY <1>1 DEF FilesOK
<1>13. ASSUME NEW f \in files', NEW g \in files', f # g
       PROVE  f.to # g.to /\ (f.to < g.to => \A x \in entries : x.id \in g.ids => f.to < x.seq)
  <2>1. CASE f \in files /\ g \in files
    BY <1>1, <1>13, <2>1 DEF FilesOK
  <2>2. CASE f \in files /\ g = new
    BY <1>2, <1>5, <1>8, <1>9, <2>2
  <2>3. CASE f = new /\ g \in files
    BY <1>8, <2>3
  <2> QED
    BY <1>13, <2>1, <2>2, <2>3
<1>14. ASSUME NEW f \in files'
       PROVE  /\ f.to \in Nat \ {0} /\ f.tail \in RecordIds
              /\ \E x \in entries : f.to <= x.seq
              /\ \A x \in entries : x.seq <= f.to => \E g \in files' : x.id \in g.ids
              /\ \A i \in f.ids : \E x \in entries : x.id = i /\ x.seq <= f.to
  BY <1>7, <1>8, <1>11, <1>12
<1> QED
  BY <1>10, <1>13, <1>14 DEF FilesOK

\* write_new_file, by the only exporter.
LEMMA ExportWritten ==
  ASSUME ChainInv, ChainInv', ExportInv, NEW e \in Exporters, \A d \in Exporters : d = e,
         WriteExport(e)
  PROVE  ExportInv'
<1>1. /\ exporter' = [exporter EXCEPT ![e] = NotExporting] /\ UNCHANGED db
      /\ exporter[e].pc = "rows" /\ entries' = entries /\ staged' = staged
  BY DEF WriteExport, db
<1>2. \/ files' = files
      \/ exporter[e].rows # {} /\ files' = files \cup {FileOf(exporter[e].rows)}
  BY DEF WriteExport
<1>3. exporter \in [Exporters -> Exporting]
  BY DEF ExportInv, Exporting
<1>4. NotExporting \in Exporting /\ NotExporting.pc = "idle"
  BY DEF Exporting, NotExporting
<1>5. exporter' \in [Exporters -> Exporting] /\ exporter'[e] = NotExporting
  BY <1>1, <1>3, <1>4
<1>6. \A d \in Exporters : WindowOK(d)'
  BY <1>4, <1>5 DEF WindowOK
<1>7. FilesOK'
  BY <1>1, <1>2, GrowsNot, FilesFrame, FileWritten DEF ExportInv
<1>8. StagedAbove'
  BY <1>1 DEF ExportInv, StagedAbove
<1> QED
  BY <1>5, <1>6, <1>7, <1>8 DEF ExportInv, Exporting

\* The other steps leave files and exporters alone.
LEMMA ExportFrame ==
  ASSUME ChainInv, ChainInv', ExportInv, [AuditNext]_auditVars, UNCHANGED exports
  PROVE  ExportInv'
<1>1. files' = files /\ exporter' = exporter
  BY DEF exports
<1>2. Grows /\ StagedAbove'
  BY StepGrows DEF ExportInv
<1>3. FilesOK'
  BY <1>1, <1>2, FilesFrame DEF ExportInv
<1>4. ASSUME NEW e \in Exporters PROVE WindowOK(e)'
  BY <1>1, <1>2, WindowFrame DEF ExportInv
<1> QED
  BY <1>1, <1>2, <1>3, <1>4 DEF ExportInv

\* Every step keeps the files right, if exports do not overlap.
LEMMA ExportInvStep ==
  ASSUME ChainInv, ChainInv', ExportInv, \A d, e \in Exporters : d = e, [AuditNext]_auditVars
  PROVE  ExportInv'
<1>1. CASE UNCHANGED exports
  BY <1>1, ExportFrame
<1>2. ASSUME NEW e \in Exporters,
             \/ ExistingExportTail(e) \/ (\E n \in Limits : FetchWindow(e, n))
             \/ WriteExport(e)
      PROVE  ExportInv'
  BY <1>2, TailRead, WindowRead, ExportWritten
<1>3. \/ UNCHANGED exports
      \/ \E e \in Exporters : \/ ExistingExportTail(e) \/ (\E n \in Limits : FetchWindow(e, n))
                              \/ WriteExport(e)
  <2>1. CASE \E w \in Writers : Writing(w)
    BY <2>1 DEF Writing, Begin, LockAudit, ReadTail, Insert, CommitEntry, RollBack
  <2>2. CASE (\E i \in RecordIds : Expire(i)) \/ (\E p \in Recorders : BeginRecord(p))
    BY <2>2 DEF Expire, BeginRecord
  <2>3. CASE Record \/ CrashInRewrite \/ TearLine \/ Start
    BY <2>3 DEF Record, Repair, Rewrite, AppendLine, Recorded, CrashInRewrite, TearLine, Start
  <2>4. CASE Reconcile \/ Crash \/ Stop
    BY <2>4 DEF Reconcile, Parse, LockChain, InsertMissing, CommitMissing, RemoveJournal, Crash,
                Stop
  <2>5. CASE UNCHANGED auditVars
    BY <2>5 DEF auditVars
  <2> QED
    BY <2>1, <2>2, <2>3, <2>4, <2>5 DEF AuditNext
<1> QED
  BY <1>1, <1>2, <1>3

\* The files have every entry they passed, and each once.
LEMMA FilesDisjoint ==
  ASSUME ChainInv, ExportInv
  PROVE  ExportedOnce
<1>1. \A x \in entries : x.seq \in Nat
  BY DEF ChainInv, ChainTyped, Entry
<1>2. ASSUME NEW f \in files, NEW g \in files, f.to < g.to, NEW i, i \in f.ids, i \in g.ids
      PROVE  FALSE
  <2>1. PICK x \in entries : x.id = i /\ x.seq <= f.to
    BY <1>2 DEF ExportInv, FilesOK
  <2>2. f.to < x.seq /\ f.to \in Nat
    <3>1. f # g /\ f.to \in Nat
      BY <1>2 DEF ExportInv, FilesOK
    <3> QED
      BY <1>2, <2>1, <3>1 DEF ExportInv, FilesOK
  <2> QED
    BY <1>1, <2>1, <2>2
<1>3. ASSUME NEW f \in files, NEW g \in files, f # g PROVE f.ids \cap g.ids = {}
  <2>1. f.to < g.to \/ g.to < f.to
    BY <1>3 DEF ExportInv, FilesOK
  <2> QED
    BY <1>2, <2>1
<1>4. \A f \in files : \A x \in entries : x.seq <= f.to => \E g \in files : x.id \in g.ids
  BY DEF ExportInv, FilesOK
<1> QED
  BY <1>3, <1>4 DEF ExportedOnce

(* Of export_audit_chain, as long as one TUI exports at a time (nothing in    *)
(* the code keeps a second one out): what an export has passed it has         *)
(* written, and once.                                                         *)
THEOREM AuditExportedOnce ==
  ASSUME \A d, e \in Exporters : d = e
  PROVE  AuditSpec => []ExportedOnce
<1>1. AuditInit => ExportInv
  <2> SUFFICES ASSUME AuditInit PROVE ExportInv
    OBVIOUS
  <2>1. files = {} /\ entries = {} /\ staged = {}
    BY DEF AuditInit
  <2>2. \A e \in Exporters : exporter[e] = NotExporting /\ exporter[e].pc = "idle"
    BY DEF AuditInit, NotExporting
  <2>3. NotExporting \in Exporting
    BY DEF Exporting, NotExporting
  <2>4. exporter \in [Exporters -> Exporting]
    BY <2>3 DEF AuditInit
  <2> QED
    BY <2>1, <2>2, <2>4 DEF ExportInv, Exporting, FilesOK, StagedAbove, WindowOK
<1>2. ChainInv /\ ChainInv' /\ ExportInv /\ [AuditNext]_auditVars => ExportInv'
  BY ExportInvStep
<1>3. ChainInv /\ ExportInv => ExportedOnce
  BY FilesDisjoint
<1> QED
  BY <1>1, <1>2, <1>3, AuditInOrder, PTL DEF AuditSpec

-----------------------------------------------------------------------------
(***************************************************************************)
(* Shell sessions (ShellSessions).  A session's close follows its open on  *)
(* the control stream; a relay that is in the daemon's map has its sending *)
(* thread as long as the broker reads, and what takes it out of the map    *)
(* leaves a close for the broker.                                          *)
(***************************************************************************)

ShellFrames == [kind : {"open", "data", "close"}, session : Sessions]

ShellsTyped ==
    /\ call \in [Sessions -> Calls]
    /\ stream \in Nat /\ connected \in BOOLEAN /\ via \in [Sessions -> Nat]
    /\ \A s \in Sessions : via[s] <= stream
    /\ toClient \in Seq(ShellFrames)
    /\ shells \subseteq Sessions
    /\ copier \in [Sessions -> {"none", "starting", "reading", "joining", "over"}]
    /\ feeder \in [Sessions -> {"none", "up", "over", "failed"}]
    /\ serving \in [Sessions -> {"none", "accepted", "running", "stopping", "over"}]
    /\ input \in [Sessions -> {"none", "reading", "over"}]
    /\ toBroker \in [Sessions -> Seq({"data", "close"})]

Opens(s, n) == n \in DOMAIN toClient /\ toClient[n] = Frame("open", s)
Closes(s, n) == n \in DOMAIN toClient /\ toClient[n] = Frame("close", s)

\* The client has not heard of the session.
Unheard(s) ==
    copier[s] = "none" /\ serving[s] = "none" /\ input[s] = "none" /\ s \notin shells

Early == {"unused", "first", "validated", "created"}

\* A session is opened once.
OpenedOnce(s) ==
    /\ call[s] \in Early =>
           Unheard(s) /\ \A n \in Nat : ~Opens(s, n)
    /\ \A n \in Nat : Opens(s, n) => Unheard(s) /\ \A m \in Nat : Opens(s, m) => m = n
    /\ copier[s] = "starting" => serving[s] = "none"
    /\ serving[s] \in {"none", "accepted"} => input[s] = "none"

\* The broker that reads, or will, is fed or has been told, unless the sending
\* thread has failed.
FedOrTold(s) ==
    (/\ Reaches(s) /\ feeder[s] # "failed"
     /\ copier[s] = "starting" \/ serving[s] = "accepted" \/ input[s] = "reading") =>
        \/ s \in shells /\ feeder[s] = "up"
        \/ InQueue("close", toBroker[s])

\* When the server is done, the close is behind the open.
ClosedBehind(s) ==
    call[s] = "done" /\ Reaches(s) =>
        /\ s \in shells => \E n \in Nat : Closes(s, n)
        /\ \A n \in Nat : Opens(s, n) => \E m \in Nat : Closes(s, m) /\ n < m

ShellInv ==
    /\ ShellsTyped
    /\ \A s \in Sessions : OpenedOnce(s) /\ FedOrTold(s) /\ ClosedBehind(s)

-----------------------------------------------------------------------------
\* Who can be reached, and what the client is about to read.
LEMMA FrameDiffers ==
  ASSUME NEW s, NEW t, NEW k, NEW l
  PROVE  Frame(k, s) = Frame(l, t) <=> k = l /\ s = t
<1>1. /\ Frame(k, s).kind = k /\ Frame(k, s).session = s
      /\ Frame(l, t).kind = l /\ Frame(l, t).session = t
  BY DEF Frame
<1> QED
  BY <1>1

\* A frame is put at the end.
LEMMA FrameSent ==
  ASSUME ShellsTyped, NEW s \in Sessions, NEW k \in {"open", "data", "close"}, SendClient(s, k)
  PROVE  /\ toClient' \in Seq(ShellFrames)
         /\ \A t \in Sessions, n \in Nat :
                Opens(t, n)' <=> Opens(t, n) \/ (k = "open" /\ t = s /\ n = Len(toClient) + 1)
         /\ \A t \in Sessions, n \in Nat :
                Closes(t, n)' <=> Closes(t, n) \/ (k = "close" /\ t = s /\ n = Len(toClient) + 1)
         /\ \A t \in Sessions, n \in Nat : Opens(t, n) \/ Closes(t, n) => n < Len(toClient) + 1
         /\ Len(toClient) + 1 \in Nat
<1> DEFINE e == Frame(k, s)
           top == Len(toClient) + 1
<1>1. toClient' = Append(toClient, e) /\ e \in ShellFrames
  BY DEF SendClient, Frame, ShellFrames
<1>2. toClient \in Seq(ShellFrames) /\ Len(toClient) \in Nat /\ DOMAIN toClient = 1..Len(toClient)
  BY DEF ShellsTyped
<1> HIDE DEF e
<1>3. /\ toClient' \in Seq(ShellFrames) /\ toClient'[top] = e
      /\ top \in DOMAIN toClient' /\ top \in Nat
      /\ \A n \in DOMAIN toClient : n \in DOMAIN toClient' /\ toClient'[n] = toClient[n] /\ n < top
      /\ \A n \in DOMAIN toClient' : n \in DOMAIN toClient \/ n = top
  <2>1. /\ Append(toClient, e) \in Seq(ShellFrames) /\ Append(toClient, e)[top] = e
        /\ DOMAIN Append(toClient, e) = 1..top
        /\ \A n \in DOMAIN toClient : n \in DOMAIN Append(toClient, e)
                                        /\ Append(toClient, e)[n] = toClient[n]
        /\ \A n \in DOMAIN Append(toClient, e) : n \in DOMAIN toClient \/ n = top
    BY ONLY <1>1, <1>2, OneMore
  <2>2. top \in Nat /\ top \in 1..top /\ \A n \in DOMAIN toClient : n < top
    BY ONLY <1>2
  <2> HIDE DEF top
  <2> QED
    BY ONLY <1>1, <2>1, <2>2
<1>4. \A t \in Sessions : (e = Frame("open", t) <=> k = "open" /\ t = s)
                          /\ (e = Frame("close", t) <=> k = "close" /\ t = s)
  BY FrameDiffers DEF e
<1> HIDE DEF top
<1>5. ~(top \in DOMAIN toClient)
  BY <1>2 DEF top
<1>6. \A t \in Sessions, n \in Nat :
        Opens(t, n)' <=> Opens(t, n) \/ (k = "open" /\ t = s /\ n = top)
  BY <1>3, <1>4, <1>5 DEF Opens, Frame
<1>7. \A t \in Sessions, n \in Nat :
        Closes(t, n)' <=> Closes(t, n) \/ (k = "close" /\ t = s /\ n = top)
  BY <1>3, <1>4, <1>5 DEF Closes, Frame
<1>8. \A t \in Sessions, n \in Nat : Opens(t, n) \/ Closes(t, n) => n < top
  BY <1>3 DEF Opens, Closes
<1> QED
  BY <1>3, <1>6, <1>7, <1>8 DEF top

\* The first frame is taken.
LEMMA FrameTaken ==
  ASSUME ShellsTyped, toClient # <<>>, toClient' = Tail(toClient)
  PROVE  /\ toClient' \in Seq(ShellFrames)
         /\ \A t \in Sessions, n \in Nat : Opens(t, n)' <=> n # 0 /\ Opens(t, n + 1)
         /\ \A t \in Sessions, n \in Nat : Closes(t, n)' <=> n # 0 /\ Closes(t, n + 1)
         /\ \A t \in Sessions, n \in Nat : Opens(t, n) \/ Closes(t, n) =>
                n = 1 \/ (n - 1 \in Nat /\ n - 1 # 0 /\ (n - 1) + 1 = n)
         /\ \A t \in Sessions : Opens(t, 1) <=> Head(toClient) = Frame("open", t)
         /\ \A t \in Sessions : Closes(t, 1) <=> Head(toClient) = Frame("close", t)
<1>1. /\ toClient \in Seq(ShellFrames) /\ Len(toClient) \in Nat /\ Len(toClient) # 0
      /\ DOMAIN toClient = 1..Len(toClient) /\ Head(toClient) = toClient[1]
  <2>1. toClient \in Seq(ShellFrames)
    BY DEF ShellsTyped
  <2> QED
    BY <2>1
<1>2. /\ toClient' \in Seq(ShellFrames) /\ DOMAIN toClient' = 1..(Len(toClient) - 1)
      /\ \A n \in 1..(Len(toClient) - 1) : toClient'[n] = toClient[n + 1]
  <2>1. /\ Tail(toClient) \in Seq(ShellFrames) /\ DOMAIN Tail(toClient) = 1..(Len(toClient) - 1)
        /\ \A n \in 1..(Len(toClient) - 1) : Tail(toClient)[n] = toClient[n + 1]
    BY ONLY <1>1
  <2> QED
    BY ONLY <2>1, toClient' = Tail(toClient)
<1>3. \A n \in Nat : (n \in DOMAIN toClient' <=> n # 0 /\ n + 1 \in DOMAIN toClient)
                     /\ (n \in DOMAIN toClient' => toClient'[n] = toClient[n + 1])
  BY <1>1, <1>2
<1>4. 1 \in DOMAIN toClient
  BY <1>1
<1>5. ASSUME NEW t \in Sessions, NEW n \in Nat
      PROVE  (Opens(t, n)' <=> n # 0 /\ Opens(t, n + 1))
             /\ (Closes(t, n)' <=> n # 0 /\ Closes(t, n + 1))
  BY ONLY <1>3, <1>5 DEF Opens, Closes, Frame
<1>6. \A n \in DOMAIN toClient : n = 1 \/ (n - 1 \in Nat /\ n - 1 # 0 /\ (n - 1) + 1 = n)
  BY ONLY <1>1
<1>7. \A t \in Sessions, n \in Nat : Opens(t, n) \/ Closes(t, n) =>
          n = 1 \/ (n - 1 \in Nat /\ n - 1 # 0 /\ (n - 1) + 1 = n)
  BY ONLY <1>6 DEF Opens, Closes
<1>8. \A t \in Sessions : (Opens(t, 1) <=> Head(toClient) = Frame("open", t))
                          /\ (Closes(t, 1) <=> Head(toClient) = Frame("close", t))
  BY ONLY <1>1, <1>4 DEF Opens, Closes
<1> QED
  BY ONLY <1>2, <1>5, <1>7, <1>8

\* Nothing that matters changes but where a call is.
LEMMA CallMoves ==
  ASSUME ShellInv, NEW s \in Sessions, NEW there \in Calls, CallGoes(s, there),
         UNCHANGED <<stream, connected, via, toClient, shells, copier, feeder, serving, input, toBroker>>,
         there \in Early => call[s] \in Early,
         there = "done" => call[s] \in Early \/ ~Reaches(s)
  PROVE  ShellInv'
<1>1. ShellsTyped
  BY DEF ShellInv
<1>2. call' \in [Sessions -> Calls] /\ call'[s] = there
      /\ \A t \in Sessions \ {s} : call'[t] = call[t]
  BY <1>1 DEF ShellsTyped, CallGoes
<1>3. ShellsTyped'
  BY <1>1, <1>2 DEF ShellsTyped
<1>4. ASSUME NEW t \in Sessions PROVE OpenedOnce(t)' /\ FedOrTold(t)' /\ ClosedBehind(t)'
  <2>1. OpenedOnce(t) /\ FedOrTold(t) /\ ClosedBehind(t)
    BY DEF ShellInv
  <2>2. /\ Unheard(t)' = Unheard(t) /\ Reaches(t)' = Reaches(t)
        /\ InQueue("close", toBroker[t])' = InQueue("close", toBroker[t])
        /\ \A n \in Nat : Opens(t, n)' = Opens(t, n) /\ Closes(t, n)' = Closes(t, n)
    BY DEF Unheard, Reaches, InQueue, Opens, Closes, Frame
  <2>3. OpenedOnce(t)'
    BY <1>2, <2>1, <2>2 DEF OpenedOnce, Early
  <2>4. FedOrTold(t)'
    BY <2>1, <2>2 DEF FedOrTold
  <2>5. ClosedBehind(t)'
    <3>1. CASE t # s \/ there # "done"
      BY <1>2, <2>1, <2>2, <3>1 DEF ClosedBehind
    <3>2. CASE t = s /\ call[s] \in Early
      BY <2>1, <2>2, <3>2 DEF ClosedBehind, OpenedOnce, Unheard
    <3>3. CASE t = s /\ ~Reaches(s)
      BY <2>2, <3>3 DEF ClosedBehind
    <3> QED
      BY <3>1, <3>2, <3>3
  <2> QED
    BY <2>3, <2>4, <2>5
<1> QED
  BY <1>3, <1>4 DEF ShellInv

\* The server sends a frame on the session's stream.
LEMMA FrameGoes ==
  ASSUME ShellInv, NEW s \in Sessions, NEW there \in Calls, CallGoes(s, there),
         NEW k \in {"open", "data", "close"}, SendClient(s, k),
         via' \in {via, [via EXCEPT ![s] = stream]},
         UNCHANGED <<stream, connected, shells, copier, feeder, serving, input, toBroker>>,
         there \notin Early,
         k = "open" => call[s] \in Early,
         via' # via => k = "open",
         there = "done" => k = "close" /\ via' = via
  PROVE  ShellInv'
<1>1. ShellsTyped
  BY DEF ShellInv
<1>2. call' \in [Sessions -> Calls] /\ call'[s] = there
      /\ \A t \in Sessions \ {s} : call'[t] = call[t]
  BY <1>1 DEF ShellsTyped, CallGoes
<1>3. /\ via' \in [Sessions -> Nat] /\ (\A t \in Sessions : via'[t] <= stream)
      /\ \A t \in Sessions \ {s} : via'[t] = via[t]
  <2>1. /\ via \in [Sessions -> Nat] /\ (\A t \in Sessions : via[t] <= stream)
        /\ stream \in Nat
    BY <1>1 DEF ShellsTyped
  <2>2. CASE via' = via
    BY ONLY <2>1, <2>2
  <2>3. CASE via' = [via EXCEPT ![s] = stream]
    BY ONLY <2>1, <2>3
  <2> QED
    BY <2>2, <2>3
<1>4. /\ toClient' \in Seq(ShellFrames)
      /\ \A t \in Sessions, n \in Nat :
             Opens(t, n)' <=> Opens(t, n) \/ (k = "open" /\ t = s /\ n = Len(toClient) + 1)
      /\ \A t \in Sessions, n \in Nat :
             Closes(t, n)' <=> Closes(t, n) \/ (k = "close" /\ t = s /\ n = Len(toClient) + 1)
      /\ \A t \in Sessions, n \in Nat : Opens(t, n) \/ Closes(t, n) => n < Len(toClient) + 1
      /\ Len(toClient) + 1 \in Nat
  BY <1>1, FrameSent
<1>5. ShellsTyped'
  BY <1>1, <1>2, <1>3, <1>4 DEF ShellsTyped
<1>6. ASSUME NEW t \in Sessions PROVE OpenedOnce(t)' /\ FedOrTold(t)' /\ ClosedBehind(t)'
  <2>1. OpenedOnce(t) /\ FedOrTold(t) /\ ClosedBehind(t)
    BY DEF ShellInv
  <2>2. /\ Unheard(t)' = Unheard(t)
        /\ (InQueue("close", toBroker[t])' <=> InQueue("close", toBroker[t]))
        /\ via'[t] = via[t] => (Reaches(t)' <=> Reaches(t))
    BY DEF Unheard, Reaches, InQueue
  <2>3. OpenedOnce(t)'
    <3>1. CASE k = "open" /\ t = s
      BY <1>2, <1>4, <2>1, <2>2, <3>1 DEF OpenedOnce, Unheard
    <3>2. CASE ~(k = "open" /\ t = s)
      BY <1>2, <1>4, <2>1, <2>2, <3>2 DEF OpenedOnce
    <3> QED
      BY <3>1, <3>2
  <2>4. FedOrTold(t)'
    <3>1. CASE via'[t] = via[t]
      <4>1. (Reaches(t)' <=> Reaches(t)) /\ UNCHANGED <<serving, input, shells, copier, feeder>>
        BY <2>2, <3>1
      <4> QED
        BY ONLY <2>1, <2>2, <4>1 DEF FedOrTold
    <3>2. CASE via'[t] # via[t]
      <4>1. t = s /\ call[s] \in Early
        BY <1>3, <3>2
      <4>2. copier[t] = "none" /\ serving[t] = "none" /\ input[t] = "none"
        BY <2>1, <4>1 DEF OpenedOnce, Unheard
      <4> QED
        BY <4>2 DEF FedOrTold
    <3> QED
      BY <3>1, <3>2
  <2>5. ClosedBehind(t)'
    <3>1. CASE t # s
      <4>1. (Reaches(t)' <=> Reaches(t)) /\ call'[t] = call[t]
        BY <1>2, <1>3, <2>2, <3>1
      <4>2. \A n \in Nat : (Opens(t, n)' <=> Opens(t, n)) /\ (Closes(t, n)' <=> Closes(t, n))
        BY ONLY <1>4, <3>1, t \in Sessions
      <4>3. t \in shells' <=> t \in shells
        OBVIOUS
      <4> QED
        BY ONLY <2>1, <4>1, <4>2, <4>3 DEF ClosedBehind
    <3>2. CASE t = s /\ there = "done"
      <4>0. PICK top \in Nat : top = Len(toClient) + 1
        BY <1>4
      <4>1. Closes(t, top)'
        BY <1>4, <3>2, <4>0
      <4>2. \A n \in Nat : Opens(t, n)' => n < top
        BY <1>4, <3>2, <4>0
      <4> QED
        BY ONLY <4>1, <4>2, top \in Nat DEF ClosedBehind
    <3>3. CASE t = s /\ there # "done"
      BY <1>2, <3>3 DEF ClosedBehind
    <3> QED
      BY <3>1, <3>2, <3>3
  <2> QED
    BY <2>3, <2>4, <2>5
<1> QED
  BY <1>5, <1>6 DEF ShellInv

\* What stays true when the first frame is taken.
LEMMA TakenOrder ==
  ASSUME ShellsTyped, toClient # <<>>, toClient' = Tail(toClient), NEW t \in Sessions
  PROVE  /\ \A n \in Nat : Opens(t, n)' => \E m \in Nat : Opens(t, m)
         /\ (\A n, m \in Nat : Opens(t, n) /\ Opens(t, m) => n = m) =>
               /\ \A n, m \in Nat : Opens(t, n)' /\ Opens(t, m)' => n = m
               /\ Head(toClient) = Frame("open", t) => \A n \in Nat : ~Opens(t, n)'
         /\ Head(toClient) # Frame("close", t) /\ (\E n \in Nat : Closes(t, n)) =>
               \E n \in Nat : Closes(t, n)'
         /\ (\A n \in Nat : Opens(t, n) => \E m \in Nat : Closes(t, m) /\ n < m) =>
               /\ \A n \in Nat : Opens(t, n)' => \E m \in Nat : Closes(t, m)' /\ n < m
               /\ Head(toClient) = Frame("open", t) => \E n \in Nat : Closes(t, n)'
         /\ Head(toClient) = Frame("open", t) => Opens(t, 1)
<1>1. /\ \A n \in Nat : Opens(t, n)' <=> n # 0 /\ Opens(t, n + 1)
      /\ \A n \in Nat : Closes(t, n)' <=> n # 0 /\ Closes(t, n + 1)
      /\ \A n \in Nat : Opens(t, n) \/ Closes(t, n) =>
            n = 1 \/ (n - 1 \in Nat /\ n - 1 # 0 /\ (n - 1) + 1 = n)
      /\ Opens(t, 1) <=> Head(toClient) = Frame("open", t)
      /\ Closes(t, 1) <=> Head(toClient) = Frame("close", t)
  BY FrameTaken
<1>2. \A n \in Nat : n + 1 \in Nat
  OBVIOUS
<1>3. \A n \in Nat : Opens(t, n)' => \E m \in Nat : Opens(t, m)
  BY ONLY <1>1, <1>2
<1>4. ASSUME \A n, m \in Nat : Opens(t, n) /\ Opens(t, m) => n = m
      PROVE  \A n, m \in Nat : Opens(t, n)' /\ Opens(t, m)' => n = m
  <2>1. \A n, m \in Nat : n + 1 = m + 1 => n = m
    OBVIOUS
  <2> QED
    BY ONLY <1>1, <1>2, <1>4, <2>1
<1>5. ASSUME \A n, m \in Nat : Opens(t, n) /\ Opens(t, m) => n = m,
             Head(toClient) = Frame("open", t)
      PROVE  \A n \in Nat : ~Opens(t, n)'
  <2>1. \A n \in Nat : n + 1 = 1 => n = 0
    OBVIOUS
  <2>2. 1 \in Nat
    OBVIOUS
  <2> QED
    BY ONLY <1>1, <1>2, <1>5, <2>1, <2>2
<1>6. ASSUME NEW n \in Nat, Closes(t, n), n # 1
      PROVE  n - 1 \in Nat /\ Closes(t, n - 1)' /\ n = (n - 1) + 1
  BY ONLY <1>1, <1>6
<1>7. Head(toClient) # Frame("close", t) /\ (\E n \in Nat : Closes(t, n)) =>
         \E n \in Nat : Closes(t, n)'
  BY ONLY <1>1, <1>6
<1>8. ASSUME \A n \in Nat : Opens(t, n) => \E m \in Nat : Closes(t, m) /\ n < m
      PROVE  /\ \A n \in Nat : Opens(t, n)' => \E m \in Nat : Closes(t, m)' /\ n < m
             /\ Head(toClient) = Frame("open", t) => \E n \in Nat : Closes(t, n)'
  <2>1. ASSUME NEW n \in Nat, Opens(t, n)' PROVE \E m \in Nat : Closes(t, m)' /\ n < m
    <3>1. PICK m \in Nat : Closes(t, m) /\ n + 1 < m
      BY ONLY <1>1, <1>2, <1>8, <2>1
    <3>2. m - 1 \in Nat /\ Closes(t, m - 1)' /\ n < m - 1
      <4>1. m # 1 /\ m - 1 > n
        BY ONLY <3>1, n \in Nat
      <4> QED
        BY ONLY <1>6, <3>1, <4>1, n \in Nat
    <3> QED
      BY ONLY <3>2
  <2>2. ASSUME Head(toClient) = Frame("open", t) PROVE \E n \in Nat : Closes(t, n)'
    <3>1. PICK m \in Nat : Closes(t, m) /\ 1 < m
      BY ONLY <1>1, <1>8, <2>2, 1 \in Nat
    <3> QED
      BY ONLY <1>6, <3>1
  <2> QED
    BY ONLY <2>1, <2>2
<1> QED
  BY ONLY <1>1, <1>3, <1>4, <1>5, <1>7, <1>8

\* Something is put at the end of the queue to the broker.
LEMMA QueueKeeps ==
  ASSUME NEW q \in Seq({"data", "close"}), NEW x \in {"data", "close"}
  PROVE  /\ Append(q, x) \in Seq({"data", "close"})
         /\ InQueue("close", q) => InQueue("close", Append(q, x))
         /\ InQueue("close", Append(q, "close"))
         /\ q # <<>> => Tail(q) \in Seq({"data", "close"})
         /\ q # <<>> /\ Head(q) = "data" /\ InQueue("close", q) => InQueue("close", Tail(q))
<1>0. /\ Len(q) \in Nat /\ DOMAIN q = 1..Len(q)
      /\ Append(q, x) \in Seq({"data", "close"})
      /\ DOMAIN Append(q, x) = 1..(Len(q) + 1) /\ DOMAIN Append(q, "close") = 1..(Len(q) + 1)
      /\ \A i \in 1..Len(q) : Append(q, x)[i] = q[i]
      /\ Append(q, "close")[Len(q) + 1] = "close"
      /\ q # <<>> => Tail(q) \in Seq({"data", "close"})
  OBVIOUS
<1>1. InQueue("close", q) => InQueue("close", Append(q, x))
  <2>1. 1..Len(q) \subseteq 1..(Len(q) + 1)
    BY ONLY <1>0
  <2> QED
    BY ONLY <1>0, <2>1 DEF InQueue
<1>2. InQueue("close", Append(q, "close"))
  <2>1. Len(q) + 1 \in 1..(Len(q) + 1)
    BY ONLY <1>0
  <2> QED
    BY ONLY <1>0, <2>1 DEF InQueue
<1>3. ASSUME q # <<>>, Head(q) = "data", InQueue("close", q) PROVE InQueue("close", Tail(q))
  <2>1. PICK i \in DOMAIN q : q[i] = "close"
    BY ONLY <1>3 DEF InQueue
  <2>2. i # 1
    BY <1>3, <2>1
  <2>3. i \in Nat /\ i \in 1..Len(q) /\ i - 1 \in 1..(Len(q) - 1) /\ (i - 1) + 1 = i
    BY ONLY <1>0, <2>1, <2>2
  <2>4. DOMAIN Tail(q) = 1..(Len(q) - 1) /\ \A j \in 1..(Len(q) - 1) : Tail(q)[j] = q[j + 1]
    BY ONLY <1>0, <1>3, q \in Seq({"data", "close"})
  <2> QED
    BY ONLY <2>1, <2>3, <2>4 DEF InQueue
<1> QED
  BY ONLY <1>0, <1>1, <1>2, <1>3

\* One session's broker or one of its threads in the daemon takes a step.
LEMMA BrokerMoves ==
  ASSUME ShellInv, ShellsTyped', NEW s \in Sessions,
         UNCHANGED <<call, stream, connected, via, toClient, shells>>,
         \A t \in Sessions \ {s} : /\ serving'[t] = serving[t] /\ input'[t] = input[t]
                                   /\ copier'[t] = copier[t] /\ feeder'[t] = feeder[t]
                                   /\ toBroker'[t] = toBroker[t],
         \/ serving'[s] = serving[s] /\ input'[s] = input[s] /\ copier'[s] = copier[s]
         \/ /\ copier[s] # "none" \/ serving[s] # "none"
            /\ copier'[s] = "starting" => serving'[s] = "none"
            /\ serving'[s] \in {"none", "accepted"} => input'[s] = "none",
         FedOrTold(s)'
  PROVE  ShellInv'
<1>1. ASSUME NEW t \in Sessions PROVE OpenedOnce(t)' /\ FedOrTold(t)' /\ ClosedBehind(t)'
  <2>1. OpenedOnce(t) /\ FedOrTold(t) /\ ClosedBehind(t)
    BY DEF ShellInv
  <2>2. /\ (Reaches(t)' <=> Reaches(t)) /\ call'[t] = call[t] /\ (t \in shells' <=> t \in shells)
        /\ \A n \in Nat : (Opens(t, n)' <=> Opens(t, n)) /\ (Closes(t, n)' <=> Closes(t, n))
    BY DEF Reaches, Opens, Closes, Frame
  <2>3. ClosedBehind(t)'
    BY ONLY <2>1, <2>2 DEF ClosedBehind
  <2>4. CASE serving'[t] = serving[t] /\ input'[t] = input[t] /\ copier'[t] = copier[t]
    <3>1. Unheard(t)' <=> Unheard(t)
      BY ONLY <2>2, <2>4 DEF Unheard
    <3>2. OpenedOnce(t)'
      BY ONLY <2>1, <2>2, <2>4, <3>1 DEF OpenedOnce
    <3>3. CASE t = s
      BY <2>3, <3>2, <3>3
    <3>4. CASE t # s
      <4>1. feeder'[t] = feeder[t] /\ toBroker'[t] = toBroker[t]
        BY <3>4
      <4>2. InQueue("close", toBroker[t])' <=> InQueue("close", toBroker[t])
        BY ONLY <4>1 DEF InQueue
      <4>3. FedOrTold(t)'
        BY ONLY <2>1, <2>2, <2>4, <4>1, <4>2 DEF FedOrTold
      <4> QED
        BY <2>3, <3>2, <4>3
    <3> QED
      BY <3>3, <3>4
  <2>5. CASE ~(serving'[t] = serving[t] /\ input'[t] = input[t] /\ copier'[t] = copier[t])
    <3>1. /\ t = s
          /\ copier[t] # "none" \/ serving[t] # "none"
          /\ copier'[t] = "starting" => serving'[t] = "none"
          /\ serving'[t] \in {"none", "accepted"} => input'[t] = "none"
      BY <2>5
    <3>2. ~Unheard(t)
      BY ONLY <3>1 DEF Unheard
    <3>3. OpenedOnce(t)'
      BY ONLY <2>1, <2>2, <3>1, <3>2 DEF OpenedOnce
    <3> QED
      BY <2>3, <3>1, <3>3
  <2> QED
    BY <2>4, <2>5
<1> QED
  BY <1>1 DEF ShellInv

\* Nothing that matters changes.
LEMMA ShellsQuiet ==
  ASSUME ShellInv,
         UNCHANGED <<call, stream, connected, via, toClient, shells, copier, feeder, serving, input, toBroker>>
  PROVE  ShellInv'
<1>1. ShellsTyped'
  BY DEF ShellInv, ShellsTyped
<1>2. ASSUME NEW t \in Sessions PROVE OpenedOnce(t)' /\ FedOrTold(t)' /\ ClosedBehind(t)'
  <2>1. OpenedOnce(t) /\ FedOrTold(t) /\ ClosedBehind(t)
    BY DEF ShellInv
  <2>2. /\ (Unheard(t)' <=> Unheard(t)) /\ (Reaches(t)' <=> Reaches(t))
        /\ (InQueue("close", toBroker[t])' <=> InQueue("close", toBroker[t]))
        /\ \A n \in Nat : (Opens(t, n)' <=> Opens(t, n)) /\ (Closes(t, n)' <=> Closes(t, n))
        /\ call'[t] = call[t] /\ serving'[t] = serving[t] /\ input'[t] = input[t]
        /\ copier'[t] = copier[t] /\ feeder'[t] = feeder[t] /\ (t \in shells' <=> t \in shells)
    BY DEF Unheard, Reaches, InQueue, Opens, Closes, Frame
  <2>3. OpenedOnce(t)'
    BY ONLY <2>1, <2>2 DEF OpenedOnce
  <2>4. FedOrTold(t)'
    BY ONLY <2>1, <2>2 DEF FedOrTold
  <2>5. ClosedBehind(t)'
    BY ONLY <2>1, <2>2 DEF ClosedBehind
  <2> QED
    BY <2>3, <2>4, <2>5
<1> QED
  BY <1>1, <1>2 DEF ShellInv

\* The stream breaks: what was on it is lost, and nobody is reached.
LEMMA StreamBreaks ==
  ASSUME ShellInv, BreakStream, UNCHANGED <<call, serving, input, toBroker>>
  PROVE  ShellInv'
<1>1. ShellsTyped
  BY DEF ShellInv
<1>2. toClient' = <<>> /\ shells' = {} /\ connected' = FALSE
      /\ UNCHANGED <<stream, via, copier, feeder>>
  BY DEF BreakStream
<1>3. <<>> \in Seq(ShellFrames) /\ DOMAIN <<>> = {}
  OBVIOUS
<1>4. ShellsTyped'
  BY <1>1, <1>2, <1>3 DEF ShellsTyped
<1>5. ASSUME NEW t \in Sessions PROVE OpenedOnce(t)' /\ FedOrTold(t)' /\ ClosedBehind(t)'
  <2>1. OpenedOnce(t)
    BY DEF ShellInv
  <2>2. /\ ~Reaches(t)' /\ (Unheard(t) => Unheard(t)')
        /\ \A n \in Nat : ~Opens(t, n)'
    BY <1>2, <1>3 DEF Reaches, Unheard, Opens
  <2>3. OpenedOnce(t)'
    BY <1>2, <2>1, <2>2 DEF OpenedOnce
  <2> QED
    BY <2>2, <2>3 DEF FedOrTold, ClosedBehind
<1> QED
  BY <1>4, <1>5 DEF ShellInv

\* A new stream: no session holds its sender.
LEMMA StreamReturns ==
  ASSUME ShellInv, Reconnect
  PROVE  ShellInv'
<1>1. ShellsTyped
  BY DEF ShellInv
<1>2. /\ UNCHANGED <<call, via, toClient, shells, copier, feeder, serving, input, toBroker>>
      /\ connected' = TRUE /\ stream' = stream + 1
  BY DEF Reconnect, serverVars, daemonVars, brokerVars
<1>3. ShellsTyped' /\ \A t \in Sessions : via'[t] # stream'
  <2>1. /\ via \in [Sessions -> Nat] /\ (\A t \in Sessions : via[t] <= stream)
        /\ stream \in Nat
    BY <1>1 DEF ShellsTyped
  <2>2. /\ stream + 1 \in Nat
        /\ \A t \in Sessions : via[t] <= stream + 1 /\ via[t] # stream + 1
    BY ONLY <2>1
  <2> QED
    BY <1>1, <1>2, <2>2 DEF ShellsTyped
<1>4. ASSUME NEW t \in Sessions PROVE OpenedOnce(t)' /\ FedOrTold(t)' /\ ClosedBehind(t)'
  <2>1. OpenedOnce(t)
    BY DEF ShellInv
  <2>2. /\ ~Reaches(t)' /\ (Unheard(t)' <=> Unheard(t))
        /\ \A n \in Nat : Opens(t, n)' <=> Opens(t, n)
        /\ call'[t] = call[t] /\ serving'[t] = serving[t] /\ input'[t] = input[t]
        /\ copier'[t] = copier[t]
    BY <1>2, <1>3 DEF Reaches, Unheard, Opens, Frame
  <2>3. OpenedOnce(t)'
    BY ONLY <2>1, <2>2 DEF OpenedOnce
  <2> QED
    BY <2>2, <2>3 DEF FedOrTold, ClosedBehind
<1> QED
  BY <1>3, <1>4 DEF ShellInv

\* A frame is taken that is for another session: nothing changes for this one.
LEMMA TakenElsewhere ==
  ASSUME ShellInv, NEW s \in Sessions, NEW k \in {"open", "data", "close"}, Arrives(s, k),
         toClient' = Tail(toClient), UNCHANGED <<call, stream, connected, via, input>>,
         NEW t \in Sessions, t # s \/ k = "data",
         /\ serving'[t] = serving[t] /\ copier'[t] = copier[t] /\ feeder'[t] = feeder[t]
         /\ (t \in shells' <=> t \in shells)
         /\ InQueue("close", toBroker[t]) => InQueue("close", toBroker[t])'
  PROVE  OpenedOnce(t)' /\ FedOrTold(t)' /\ ClosedBehind(t)'
<1>1. ShellsTyped /\ OpenedOnce(t) /\ FedOrTold(t) /\ ClosedBehind(t)
  BY DEF ShellInv
<1>2. toClient # <<>> /\ Head(toClient) = Frame(k, s)
  BY DEF Arrives
<1>3. Head(toClient) # Frame("close", t)
  BY <1>2, FrameDiffers
<1>4. /\ (Unheard(t)' <=> Unheard(t)) /\ (Reaches(t)' <=> Reaches(t))
      /\ call'[t] = call[t] /\ input'[t] = input[t] /\ copier'[t] = copier[t]
  BY DEF Unheard, Reaches
<1>5. /\ \A n \in Nat : Opens(t, n)' => \E m \in Nat : Opens(t, m)
      /\ (\A n, m \in Nat : Opens(t, n) /\ Opens(t, m) => n = m) =>
             \A n, m \in Nat : Opens(t, n)' /\ Opens(t, m)' => n = m
      /\ (\E n \in Nat : Closes(t, n)) => \E n \in Nat : Closes(t, n)'
      /\ (\A n \in Nat : Opens(t, n) => \E m \in Nat : Closes(t, m) /\ n < m) =>
             \A n \in Nat : Opens(t, n)' => \E m \in Nat : Closes(t, m)' /\ n < m
  BY <1>1, <1>2, <1>3, TakenOrder
<1>6. OpenedOnce(t)'
  BY ONLY <1>1, <1>4, <1>5, serving'[t] = serving[t] DEF OpenedOnce
<1>7. FedOrTold(t)'
  BY <1>1, <1>4 DEF FedOrTold
<1>8. ClosedBehind(t)'
  BY ONLY <1>1, <1>4, <1>5, t \in shells' <=> t \in shells DEF ClosedBehind
<1> QED
  BY <1>6, <1>7, <1>8

\* Input for the terminal is passed on.
LEMMA ShellDataRelayed ==
  ASSUME ShellInv, NEW s \in Sessions, RelayShellData(s)
  PROVE  ShellInv'
<1>1. ShellsTyped
  BY DEF ShellInv
<1>2. /\ Arrives(s, "data") /\ toClient' = Tail(toClient) /\ toClient # <<>>
      /\ toBroker' = toBroker \/ toBroker' = [toBroker EXCEPT ![s] = Append(@, "data")]
      /\ UNCHANGED <<call, stream, connected, via, shells, copier, feeder, serving, input>>
  BY DEF RelayShellData, SendBroker, serverVars, daemonVars, Arrives
<1>3. toBroker \in [Sessions -> Seq({"data", "close"})]
  BY <1>1 DEF ShellsTyped
<1>4. toBroker' \in [Sessions -> Seq({"data", "close"})]
      /\ \A t \in Sessions : toBroker'[t] = toBroker[t] \/ toBroker'[t] = Append(toBroker[t], "data")
  <2>1. CASE toBroker' = toBroker
    BY <1>3, <2>1
  <2>2. CASE toBroker' = [toBroker EXCEPT ![s] = Append(@, "data")]
    <3>1. Append(toBroker[s], "data") \in Seq({"data", "close"})
      BY <1>3, QueueKeeps
    <3> QED
      BY <1>3, <2>2, <3>1
  <2> QED
    BY <1>2, <2>1, <2>2
<1>5. \A t \in Sessions : InQueue("close", toBroker[t]) => InQueue("close", toBroker'[t])
  BY <1>3, <1>4, QueueKeeps
<1>6. toClient' \in Seq(ShellFrames)
  BY <1>1, <1>2, FrameTaken
<1>7. ShellsTyped'
  BY <1>1, <1>2, <1>4, <1>6 DEF ShellsTyped
<1>8. ASSUME NEW t \in Sessions PROVE OpenedOnce(t)' /\ FedOrTold(t)' /\ ClosedBehind(t)'
  <2>1. InQueue("close", toBroker[t]) => InQueue("close", toBroker[t])'
    BY <1>5 DEF InQueue
  <2> QED
    BY <1>2, <2>1, TakenElsewhere
<1> QED
  BY <1>7, <1>8 DEF ShellInv

\* A session is opened on the device, or refused.
LEMMA ShellOpened ==
  ASSUME ShellInv, NEW s \in Sessions, OpenShellSession(s)
  PROVE  ShellInv'
<1>1. ShellsTyped
  BY DEF ShellInv
<1>2. /\ Arrives(s, "open") /\ toClient' = Tail(toClient) /\ toClient # <<>>
      /\ Head(toClient) = Frame("open", s)
      /\ UNCHANGED <<call, stream, connected, via, serving, toBroker, input>>
  BY DEF OpenShellSession, serverVars, brokerVars, Arrives
<1>3. toClient' \in Seq(ShellFrames)
  BY <1>1, <1>2, FrameTaken
<1>4. /\ feeder \in [Sessions -> {"none", "up", "over", "failed"}] /\ shells \subseteq Sessions
      /\ copier \in [Sessions -> {"none", "starting", "reading", "joining", "over"}]
  BY <1>1 DEF ShellsTyped
<1>5. \/ /\ shells' = shells \cup {s} /\ feeder' = [feeder EXCEPT ![s] = "up"]
         /\ copier' = [copier EXCEPT ![s] = "starting"]
      \/ UNCHANGED <<shells, feeder, copier>>
  BY DEF OpenShellSession, SpawnBrokerSession
<1>6. /\ feeder' \in [Sessions -> {"none", "up", "over", "failed"}] /\ shells' \subseteq Sessions
      /\ copier' \in [Sessions -> {"none", "starting", "reading", "joining", "over"}]
      /\ \A t \in Sessions \ {s} : copier'[t] = copier[t] /\ feeder'[t] = feeder[t]
                                   /\ (t \in shells' <=> t \in shells)
      /\ \/ s \in shells' /\ feeder'[s] = "up" /\ copier'[s] = "starting"
         \/ (s \in shells' <=> s \in shells) /\ feeder'[s] = feeder[s] /\ copier'[s] = copier[s]
  BY ONLY <1>4, <1>5, s \in Sessions
<1>7. ShellsTyped'
  BY <1>1, <1>2, <1>3, <1>6 DEF ShellsTyped
<1>8. ASSUME NEW t \in Sessions, t # s PROVE OpenedOnce(t)' /\ FedOrTold(t)' /\ ClosedBehind(t)'
  <2>1. serving'[t] = serving[t] /\ copier'[t] = copier[t] /\ feeder'[t] = feeder[t]
        /\ (t \in shells' <=> t \in shells)
    BY <1>2, <1>6, <1>8
  <2>2. InQueue("close", toBroker[t]) => InQueue("close", toBroker[t])'
    BY <1>2 DEF InQueue
  <2> QED
    BY <1>2, <1>8, <2>1, <2>2, TakenElsewhere
<1>9. OpenedOnce(s)' /\ FedOrTold(s)' /\ ClosedBehind(s)'
  <2>1. OpenedOnce(s) /\ ClosedBehind(s)
    BY DEF ShellInv
  <2>2. Opens(s, 1) /\ 1 \in Nat
    BY <1>1, <1>2, TakenOrder
  <2>3. /\ call[s] \notin Early /\ Unheard(s)
        /\ \A n, m \in Nat : Opens(s, n) /\ Opens(s, m) => n = m
    BY ONLY <2>1, <2>2 DEF OpenedOnce
  <2>4. copier[s] = "none" /\ serving[s] = "none" /\ input[s] = "none" /\ s \notin shells
    BY ONLY <2>3 DEF Unheard
  <2>5. /\ \A n \in Nat : ~Opens(s, n)'
        /\ (\A n \in Nat : Opens(s, n) => \E m \in Nat : Closes(s, m) /\ n < m) =>
                  \E n \in Nat : Closes(s, n)'
    BY <1>1, <1>2, <2>3, TakenOrder
  <2>6. /\ (Reaches(s)' <=> Reaches(s)) /\ call'[s] = call[s] /\ input'[s] = input[s]
        /\ serving'[s] = serving[s]
    BY <1>2 DEF Reaches
  <2>7. OpenedOnce(s)'
    BY ONLY <2>3, <2>4, <2>5, <2>6 DEF OpenedOnce
  <2>8. FedOrTold(s)'
    BY ONLY <1>6, <2>4, <2>6 DEF FedOrTold
  <2>9. ClosedBehind(s)'
    BY ONLY <2>1, <2>5, <2>6 DEF ClosedBehind
  <2> QED
    BY <2>7, <2>8, <2>9
<1> QED
  BY <1>7, <1>8, <1>9 DEF ShellInv

\* The daemon drops a relay and leaves a close for the broker.
LEMMA ShellCloseRelayed ==
  ASSUME ShellInv, NEW s \in Sessions, RelayShellClose(s)
  PROVE  ShellInv'
<1>1. ShellsTyped
  BY DEF ShellInv
<1>2. /\ Arrives(s, "close") /\ toClient' = Tail(toClient) /\ toClient # <<>>
      /\ shells' = shells \ {s}
      /\ UNCHANGED <<call, stream, connected, via, copier, feeder, serving, input>>
  BY DEF RelayShellClose, serverVars, Arrives
<1>3. /\ toBroker \in [Sessions -> Seq({"data", "close"})] /\ shells \subseteq Sessions
  BY <1>1 DEF ShellsTyped
<1>4. toClient' \in Seq(ShellFrames)
  BY <1>1, <1>2, FrameTaken
<1>5. /\ toBroker' \in [Sessions -> Seq({"data", "close"})]
      /\ \A t \in Sessions \ {s} : toBroker'[t] = toBroker[t]
      /\ InQueue("close", toBroker[s]) => InQueue("close", toBroker'[s])
      /\ s \in shells /\ feeder[s] = "up" => InQueue("close", toBroker'[s])
  <2>1. CASE s \in shells /\ feeder[s] = "up"
    <3>1. toBroker' = [toBroker EXCEPT ![s] = Append(@, "close")]
      BY <2>1 DEF RelayShellClose, SendBroker
    <3>2. /\ Append(toBroker[s], "close") \in Seq({"data", "close"})
          /\ InQueue("close", Append(toBroker[s], "close"))
      BY <1>3, QueueKeeps
    <3>3. /\ toBroker' \in [Sessions -> Seq({"data", "close"})]
          /\ (\A t \in Sessions \ {s} : toBroker'[t] = toBroker[t])
          /\ toBroker'[s] = Append(toBroker[s], "close")
      BY ONLY <1>3, <3>1, <3>2, s \in Sessions
    <3> QED
      BY ONLY <3>2, <3>3
  <2>2. CASE ~(s \in shells /\ feeder[s] = "up")
    <3>1. toBroker' = toBroker
      BY <2>2 DEF RelayShellClose
    <3> QED
      BY ONLY <1>3, <2>2, <3>1
  <2> QED
    BY <2>1, <2>2
<1>6. ShellsTyped'
  BY <1>1, <1>2, <1>3, <1>4, <1>5 DEF ShellsTyped
<1>7. ASSUME NEW t \in Sessions, t # s PROVE OpenedOnce(t)' /\ FedOrTold(t)' /\ ClosedBehind(t)'
  <2>1. serving'[t] = serving[t] /\ copier'[t] = copier[t] /\ feeder'[t] = feeder[t]
        /\ (t \in shells' <=> t \in shells)
    BY <1>2, <1>7
  <2>2. InQueue("close", toBroker[t]) => InQueue("close", toBroker[t])'
    BY <1>5, <1>7 DEF InQueue
  <2> QED
    BY <1>2, <1>7, <2>1, <2>2, TakenElsewhere
<1>8. OpenedOnce(s)' /\ FedOrTold(s)' /\ ClosedBehind(s)'
  <2>1. OpenedOnce(s) /\ FedOrTold(s) /\ ClosedBehind(s)
    BY DEF ShellInv
  <2>2. /\ \A n \in Nat : Opens(s, n)' => \E m \in Nat : Opens(s, m)
        /\ (\A n, m \in Nat : Opens(s, n) /\ Opens(s, m) => n = m) =>
               \A n, m \in Nat : Opens(s, n)' /\ Opens(s, m)' => n = m
        /\ (\A n \in Nat : Opens(s, n) => \E m \in Nat : Closes(s, m) /\ n < m) =>
               \A n \in Nat : Opens(s, n)' => \E m \in Nat : Closes(s, m)' /\ n < m
    BY <1>1, <1>2, TakenOrder
  <2>3. /\ (Reaches(s)' <=> Reaches(s)) /\ call'[s] = call[s] /\ input'[s] = input[s]
        /\ serving'[s] = serving[s] /\ copier'[s] = copier[s] /\ feeder'[s] = feeder[s]
        /\ s \notin shells' /\ (Unheard(s) => Unheard(s)')
    BY <1>2 DEF Reaches, Unheard
  <2>4. OpenedOnce(s)'
    BY ONLY <2>1, <2>2, <2>3 DEF OpenedOnce
  <2>5. InQueue("close", toBroker[s]) \/ (s \in shells /\ feeder[s] = "up") =>
            InQueue("close", toBroker[s])'
    BY <1>5 DEF InQueue
  <2>6. FedOrTold(s)'
    BY ONLY <2>1, <2>3, <2>5 DEF FedOrTold
  <2>7. ClosedBehind(s)'
    BY ONLY <2>1, <2>2, <2>3 DEF ClosedBehind
  <2> QED
    BY <2>4, <2>6, <2>7
<1> QED
  BY <1>6, <1>7, <1>8 DEF ShellInv

\* The start of a relay, and its reading thread.
LEMMA RelaySteps ==
  ASSUME ShellInv, NEW s \in Sessions,
         StartRelay(s) \/ CopyFrame(s) \/ CopyWouldBlock(s) \/ CopierEnds(s)
  PROVE  ShellInv'
<1>1. ShellsTyped /\ OpenedOnce(s) /\ FedOrTold(s)
  BY DEF ShellInv
<1>2. UNCHANGED <<call, stream, connected, via, toClient, shells, input>>
  BY DEF StartRelay, CopyFrame, CopyWouldBlock, CopierLeaves, CopierEnds, serverVars, linkVars,
         brokerVars
<1>3. Reaches(s)' <=> Reaches(s)
  BY <1>2 DEF Reaches
<1>4. /\ copier \in [Sessions -> {"none", "starting", "reading", "joining", "over"}]
      /\ feeder \in [Sessions -> {"none", "up", "over", "failed"}]
      /\ serving \in [Sessions -> {"none", "accepted", "running", "stopping", "over"}]
      /\ toBroker \in [Sessions -> Seq({"data", "close"})]
  BY <1>1 DEF ShellsTyped
<1>5. /\ copier[s] = "starting" => serving[s] = "none"
      /\ serving[s] \in {"none", "accepted"} => input[s] = "none"
  BY <1>1 DEF OpenedOnce
<1>6. CASE StartRelay(s)
  <2>1. /\ copier[s] = "starting"
        /\ \/ /\ copier' = [copier EXCEPT ![s] = "reading"]
              /\ serving' = [serving EXCEPT ![s] = "accepted"]
              /\ UNCHANGED <<feeder, toBroker>>
           \/ /\ copier' = [copier EXCEPT ![s] = "over"]
              /\ feeder' = [feeder EXCEPT ![s] = "over"]
              /\ toBroker' = [toBroker EXCEPT ![s] = <<>>]
              /\ UNCHANGED serving
    BY <1>6 DEF StartRelay
  <2>2. <<>> \in Seq({"data", "close"})
    OBVIOUS
  <2>3. /\ copier' \in [Sessions -> {"none", "starting", "reading", "joining", "over"}]
        /\ feeder' \in [Sessions -> {"none", "up", "over", "failed"}]
        /\ serving' \in [Sessions -> {"none", "accepted", "running", "stopping", "over"}]
        /\ toBroker' \in [Sessions -> Seq({"data", "close"})]
        /\ \A t \in Sessions \ {s} : /\ copier'[t] = copier[t] /\ feeder'[t] = feeder[t]
                                      /\ serving'[t] = serving[t] /\ toBroker'[t] = toBroker[t]
        /\ copier'[s] # "starting"
        /\ \/ serving'[s] = serving[s]
           \/ feeder'[s] = feeder[s] /\ toBroker'[s] = toBroker[s] /\ serving'[s] = "accepted"
    BY ONLY <1>4, <2>1, <2>2, s \in Sessions
  <2>4. ShellsTyped'
    BY <1>1, <1>2, <2>3 DEF ShellsTyped
  <2>5. serving[s] = "none" /\ input[s] = "none" /\ input'[s] = "none"
    BY <1>2, <1>5, <2>1
  <2>6. FedOrTold(s)'
    <3>1. CASE serving'[s] = serving[s]
      BY <2>3, <2>5, <3>1 DEF FedOrTold
    <3>2. CASE feeder'[s] = feeder[s] /\ toBroker'[s] = toBroker[s]
      <4>1. InQueue("close", toBroker[s])' <=> InQueue("close", toBroker[s])
        BY <3>2 DEF InQueue
      <4> QED
        BY <1>1, <1>2, <1>3, <2>1, <3>2, <4>1 DEF FedOrTold
    <3> QED
      BY <2>3, <3>1, <3>2
  <2> QED
    BY <1>2, <2>1, <2>3, <2>4, <2>5, <2>6, BrokerMoves
<1>7. CASE CopyFrame(s) \/ CopyWouldBlock(s) \/ CopierEnds(s)
  <2>1. /\ copier[s] \in {"reading", "joining"}
        /\ \/ copier' = copier
           \/ \E there \in {"joining", "over"} : copier' = [copier EXCEPT ![s] = there]
        /\ UNCHANGED <<feeder, serving, toBroker>>
    BY <1>7 DEF CopyFrame, CopyWouldBlock, CopierLeaves, CopierEnds, brokerVars
  <2>2. /\ copier' \in [Sessions -> {"none", "starting", "reading", "joining", "over"}]
        /\ \A t \in Sessions \ {s} : copier'[t] = copier[t]
        /\ copier'[s] # "starting"
    BY ONLY <1>4, <2>1, s \in Sessions
  <2>3. ShellsTyped'
    BY <1>1, <1>2, <2>1, <2>2 DEF ShellsTyped
  <2>4. FedOrTold(s)'
    <3>1. InQueue("close", toBroker[s])' <=> InQueue("close", toBroker[s])
      BY <2>1 DEF InQueue
    <3> QED
      BY <1>1, <1>2, <1>3, <2>1, <2>2, <3>1 DEF FedOrTold
  <2> QED
    BY <1>2, <1>5, <2>1, <2>2, <2>3, <2>4, BrokerMoves
<1> QED
  BY <1>6, <1>7

\* The sending thread finds no room on its connection.
LEMMA FeederFails ==
  ASSUME ShellInv, NEW s \in Sessions, FeederWouldBlock(s)
  PROVE  ShellInv'
<1>1. ShellsTyped
  BY DEF ShellInv
<1>2. UNCHANGED <<call, stream, connected, via, toClient, shells, copier, serving, input>>
  BY DEF FeederWouldBlock, serverVars, linkVars
<1>3. /\ feeder \in [Sessions -> {"none", "up", "over", "failed"}]
      /\ toBroker \in [Sessions -> Seq({"data", "close"})]
  BY <1>1 DEF ShellsTyped
<1>4. PICK n \in 0..Len(toBroker[s]) - 1 :
         toBroker' = [toBroker EXCEPT ![s] = SubSeq(toBroker[s], 1, n)]
  BY DEF FeederWouldBlock
<1>5. SubSeq(toBroker[s], 1, n) \in Seq({"data", "close"})
  <2>1. PICK q \in Seq({"data", "close"}) : q = toBroker[s]
    BY <1>3
  <2>2. Len(q) \in Nat /\ n \in 0..Len(q)
    BY <1>4, <2>1
  <2>3. SubSeq(q, 1, n) \in Seq({"data", "close"})
    BY ONLY <2>2, q \in Seq({"data", "close"})
  <2> QED
    BY <2>1, <2>3
<1>6. /\ toBroker' \in [Sessions -> Seq({"data", "close"})]
      /\ \A t \in Sessions \ {s} : toBroker'[t] = toBroker[t]
  BY ONLY <1>3, <1>4, <1>5, s \in Sessions
<1>7. feeder' = [feeder EXCEPT ![s] = "failed"]
  BY DEF FeederWouldBlock
<1>8. /\ feeder' \in [Sessions -> {"none", "up", "over", "failed"}]
      /\ \A t \in Sessions \ {s} : feeder'[t] = feeder[t]
      /\ feeder'[s] = "failed"
  BY ONLY <1>3, <1>7, s \in Sessions
<1>9. ShellsTyped'
  BY <1>1, <1>2, <1>6, <1>8 DEF ShellsTyped
<1>10. FedOrTold(s)'
  BY <1>8 DEF FedOrTold
<1> QED
  BY <1>2, <1>6, <1>8, <1>9, <1>10, BrokerMoves

\* The broker's threads and the daemon's sending thread.
LEMMA BrokerSteps ==
  ASSUME ShellInv, NEW s \in Sessions,
         \/ FeederEnds(s) \/ ServeSession(s) \/ InputThread(s) \/ InputWouldBlock(s)
         \/ KillSession(s) \/ JoinThreads(s)
  PROVE  ShellInv'
<1>1. ShellsTyped /\ OpenedOnce(s) /\ FedOrTold(s)
  BY DEF ShellInv
<1>2. UNCHANGED <<call, stream, connected, via, toClient, shells, copier>>
  BY DEF FeederEnds, ServeSession, InputThread, InputWouldBlock, KillSession, JoinThreads,
         serverVars, linkVars, daemonVars
<1>3. Reaches(s)' <=> Reaches(s)
  BY <1>2 DEF Reaches
<1>4. /\ feeder \in [Sessions -> {"none", "up", "over", "failed"}]
      /\ serving \in [Sessions -> {"none", "accepted", "running", "stopping", "over"}]
      /\ input \in [Sessions -> {"none", "reading", "over"}]
      /\ toBroker \in [Sessions -> Seq({"data", "close"})]
  BY <1>1 DEF ShellsTyped
<1>5. /\ copier[s] = "starting" => serving[s] = "none"
      /\ serving[s] \in {"none", "accepted"} => input[s] = "none"
  BY <1>1 DEF OpenedOnce
<1>6. CASE FeederEnds(s)
  <2>1. /\ feeder[s] = "up" /\ feeder' = [feeder EXCEPT ![s] = "over"]
        /\ UNCHANGED <<serving, input, toBroker>>
    BY <1>6 DEF FeederEnds, brokerVars
  <2>2. /\ feeder' \in [Sessions -> {"none", "up", "over", "failed"}]
        /\ \A t \in Sessions \ {s} : feeder'[t] = feeder[t]
    BY ONLY <1>4, <2>1, s \in Sessions
  <2>3. ShellsTyped'
    BY <1>1, <1>2, <2>1, <2>2 DEF ShellsTyped
  <2>4. FedOrTold(s)'
    <3>1. InQueue("close", toBroker[s])' <=> InQueue("close", toBroker[s])
      BY <2>1 DEF InQueue
    <3>2. CASE s \notin shells
      BY <1>1, <1>2, <1>3, <2>1, <3>1, <3>2 DEF FedOrTold
    <3>3. CASE ~BrokerEnd(s) /\ copier[s] # "starting"
      BY <1>2, <2>1, <3>3 DEF FedOrTold, BrokerEnd
    <3> QED
      BY <1>6, <3>2, <3>3 DEF FeederEnds
  <2> QED
    BY <1>2, <2>1, <2>2, <2>3, <2>4, BrokerMoves
<1>7. CASE ServeSession(s)
  <2>1. /\ serving[s] = "accepted" /\ UNCHANGED <<feeder, toBroker>>
        /\ \/ serving' = [serving EXCEPT ![s] = "over"] /\ input' = input
           \/ /\ serving' = [serving EXCEPT ![s] = "running"]
              /\ input' = [input EXCEPT ![s] = "reading"]
    BY <1>7 DEF ServeSession, StartThreads, daemonVars
  <2>2. /\ serving' \in [Sessions -> {"none", "accepted", "running", "stopping", "over"}]
        /\ input' \in [Sessions -> {"none", "reading", "over"}]
        /\ \A t \in Sessions \ {s} : serving'[t] = serving[t] /\ input'[t] = input[t]
        /\ serving'[s] \in {"over", "running"} /\ copier[s] # "starting"
    BY ONLY <1>4, <1>5, <2>1, s \in Sessions
  <2>3. ShellsTyped'
    BY <1>1, <1>2, <2>1, <2>2 DEF ShellsTyped
  <2>4. FedOrTold(s)'
    <3>1. InQueue("close", toBroker[s])' <=> InQueue("close", toBroker[s])
      BY <2>1 DEF InQueue
    <3> QED
      BY <1>1, <1>2, <1>3, <2>1, <3>1 DEF FedOrTold
  <2> QED
    BY <1>2, <2>1, <2>2, <2>3, <2>4, BrokerMoves
<1>8. CASE InputThread(s) \/ InputWouldBlock(s)
  <2>1. /\ input[s] = "reading" /\ UNCHANGED <<feeder, serving>>
        /\ \/ input' = input /\ toBroker[s] # <<>> /\ Head(toBroker[s]) = "data"
           \/ input' = [input EXCEPT ![s] = "over"]
        /\ \/ toBroker' = toBroker /\ toBroker[s] = <<>>
           \/ toBroker[s] # <<>> /\ toBroker' = [toBroker EXCEPT ![s] = Tail(@)]
    BY <1>8 DEF InputThread, InputWouldBlock, InputEnds, daemonVars
  <2>2. toBroker[s] # <<>> => Tail(toBroker[s]) \in Seq({"data", "close"})
    BY <1>4, QueueKeeps
  <2>3. /\ toBroker' \in [Sessions -> Seq({"data", "close"})]
        /\ \A t \in Sessions \ {s} : toBroker'[t] = toBroker[t]
        /\ toBroker[s] # <<>> => toBroker'[s] = Tail(toBroker[s])
    BY ONLY <1>4, <2>1, <2>2, s \in Sessions
  <2>4. /\ input' \in [Sessions -> {"none", "reading", "over"}]
        /\ \A t \in Sessions \ {s} : input'[t] = input[t]
        /\ input'[s] = "over" \/ (input'[s] = input[s] /\ toBroker[s] # <<>>
                                  /\ Head(toBroker[s]) = "data")
    BY ONLY <1>4, <2>1, s \in Sessions
  <2>5. ShellsTyped'
    BY <1>1, <1>2, <2>1, <2>3, <2>4 DEF ShellsTyped
  <2>6. FedOrTold(s)'
    <3>1. CASE input'[s] = "over"
      BY <1>2, <1>5, <2>1, <3>1 DEF FedOrTold
    <3>2. CASE input'[s] # "over"
      <4>1. InQueue("close", toBroker[s]) => InQueue("close", Tail(toBroker[s]))
        BY <1>4, <2>4, <3>2, QueueKeeps
      <4>2. InQueue("close", toBroker[s]) => InQueue("close", toBroker[s])'
        BY <2>3, <2>4, <3>2, <4>1 DEF InQueue
      <4> QED
        BY <1>1, <1>2, <1>3, <2>1, <2>4, <3>2, <4>2 DEF FedOrTold
    <3> QED
      BY <3>1, <3>2
  <2>7. /\ serving[s] # "none" /\ serving'[s] # "none" /\ serving'[s] # "accepted"
        /\ copier'[s] # "starting"
    BY <1>2, <1>5, <2>1
  <2> QED
    BY <1>2, <2>1, <2>3, <2>4, <2>5, <2>6, <2>7, BrokerMoves
<1>9. CASE KillSession(s)
  <2>1. /\ serving[s] = "running" /\ serving' = [serving EXCEPT ![s] = "stopping"]
        /\ UNCHANGED <<feeder, input, toBroker>>
    BY <1>9 DEF KillSession, daemonVars
  <2>2. /\ serving' \in [Sessions -> {"none", "accepted", "running", "stopping", "over"}]
        /\ \A t \in Sessions \ {s} : serving'[t] = serving[t]
        /\ serving'[s] = "stopping" /\ copier[s] # "starting"
    BY ONLY <1>4, <1>5, <2>1, s \in Sessions
  <2>3. ShellsTyped'
    BY <1>1, <1>2, <2>1, <2>2 DEF ShellsTyped
  <2>4. FedOrTold(s)'
    <3>1. InQueue("close", toBroker[s])' <=> InQueue("close", toBroker[s])
      BY <2>1 DEF InQueue
    <3> QED
      BY <1>1, <1>2, <1>3, <2>1, <2>2, <3>1 DEF FedOrTold
  <2> QED
    BY <1>2, <2>1, <2>2, <2>3, <2>4, BrokerMoves
<1>10. CASE JoinThreads(s)
  <2>1. /\ serving[s] = "stopping" /\ serving' = [serving EXCEPT ![s] = "over"]
        /\ toBroker' = [toBroker EXCEPT ![s] = <<>>] /\ input[s] = "over"
        /\ UNCHANGED <<feeder, input>>
    BY <1>10 DEF JoinThreads, daemonVars
  <2>2. /\ serving' \in [Sessions -> {"none", "accepted", "running", "stopping", "over"}]
        /\ \A t \in Sessions \ {s} : serving'[t] = serving[t]
        /\ serving'[s] = "over" /\ copier[s] # "starting"
    BY ONLY <1>4, <1>5, <2>1, s \in Sessions
  <2>3. <<>> \in Seq({"data", "close"})
    OBVIOUS
  <2>4. /\ toBroker' \in [Sessions -> Seq({"data", "close"})]
        /\ \A t \in Sessions \ {s} : toBroker'[t] = toBroker[t]
    BY ONLY <1>4, <2>1, <2>3, s \in Sessions
  <2>5. ShellsTyped'
    BY <1>1, <1>2, <2>1, <2>2, <2>4 DEF ShellsTyped
  <2>6. FedOrTold(s)'
    BY <1>2, <2>1, <2>2 DEF FedOrTold
  <2> QED
    BY <1>2, <2>1, <2>2, <2>4, <2>5, <2>6, BrokerMoves
<1> QED
  BY <1>6, <1>7, <1>8, <1>9, <1>10

\* The server's handler and its relay.
LEMMA ServerSteps ==
  ASSUME ShellInv, NEW s \in Sessions,
         \/ OpenShell(s) \/ OpenStep(s) \/ RelayAdminFrame(s) \/ FeedClient(s)
         \/ ForwardOutput(s) \/ OutputForwarded(s) \/ RelayEnds(s) \/ EndStep(s)
  PROVE  ShellInv'
<1>1. UNCHANGED <<stream, connected, shells, copier, feeder, serving, input, toBroker>>
  BY DEF OpenShell, OpenStep, ValidateShellOpen, CreateShellSession, DeliverShellOpen,
         RegisterShellSession, OpenShellFails, RelayAdminFrame, FeedClient, ForwardOutput,
         OutputForwarded, RelayEnds, EndStep, UnregisterShellSession, EndShellRow, TellClient,
         linkVars, daemonVars, brokerVars
<1>2. CASE /\ ~DeliverShellOpen(s)
           /\ ~(FeedClient(s) /\ Reaches(s)) /\ ~(TellClient(s) /\ Reaches(s))
  <2>1. UNCHANGED <<via, toClient>>
    BY <1>2 DEF OpenShell, OpenStep, ValidateShellOpen, CreateShellSession,
         RegisterShellSession, OpenShellFails, RelayAdminFrame, FeedClient, ForwardOutput,
         OutputForwarded, RelayEnds, EndStep, UnregisterShellSession, EndShellRow, TellClient,
         linkVars
  <2>2. PICK there \in Calls :
           /\ CallGoes(s, there)
           /\ there \in Early => call[s] \in Early
           /\ there = "done" => call[s] \in Early \/ ~Reaches(s)
    <3>1. CASE OpenShell(s) \/ ValidateShellOpen(s) \/ RegisterShellSession(s) \/ OpenShellFails(s)
      BY <3>1 DEF OpenShell, ValidateShellOpen, RegisterShellSession, OpenShellFails, Calls, Early
    <3>2. CASE CreateShellSession(s)
      BY <3>2 DEF CreateShellSession, Calls, Early
    <3>3. CASE RelayAdminFrame(s)
      BY <3>3 DEF RelayAdminFrame, Calls, Early
    <3>4. CASE FeedClient(s) \/ ForwardOutput(s) \/ OutputForwarded(s) \/ RelayEnds(s)
      BY <1>2, <3>4 DEF FeedClient, ForwardOutput, OutputForwarded, RelayEnds, Calls, Early
    <3>5. CASE EndStep(s)
      BY <1>2, <3>5 DEF EndStep, UnregisterShellSession, EndShellRow, TellClient, Calls, Early
    <3> QED
      BY <1>2, <3>1, <3>2, <3>3, <3>4, <3>5 DEF OpenStep
  <2> QED
    BY <1>1, <2>1, <2>2, CallMoves
<1>3. CASE DeliverShellOpen(s)
  <2>1. /\ CallGoes(s, "delivered") /\ SendClient(s, "open") /\ call[s] \in Early
        /\ via' \in {via, [via EXCEPT ![s] = stream]}
        /\ "delivered" \in Calls /\ "delivered" \notin Early
    BY <1>3 DEF DeliverShellOpen, Calls, Early
  <2> QED
    BY <1>1, <2>1, FrameGoes
<1>4. CASE FeedClient(s) /\ Reaches(s)
  <2>1. /\ SendClient(s, "data") /\ via' = via
        /\ \E there \in {"leaving", "relay"} : CallGoes(s, there)
    BY <1>4 DEF FeedClient
  <2>2. PICK there \in {"leaving", "relay"} : CallGoes(s, there)
    BY <2>1
  <2>3. there \in Calls /\ there \notin Early /\ there # "done"
    BY <2>2 DEF Calls, Early
  <2> QED
    BY <1>1, <2>1, <2>2, <2>3, FrameGoes
<1>5. CASE TellClient(s) /\ Reaches(s)
  <2>1. /\ SendClient(s, "close") /\ via' = via /\ CallGoes(s, "done")
        /\ "done" \in Calls /\ "done" \notin Early
    BY <1>5 DEF TellClient, Calls, Early
  <2> QED
    BY <1>1, <2>1, FrameGoes
<1> QED
  BY <1>2, <1>3, <1>4, <1>5

\* The invariant of the shell sessions.
THEOREM ShellsInvariant == ShellSpec => []ShellInv
<1>1. ShellInit => ShellInv
  <2> SUFFICES ASSUME ShellInit PROVE ShellInv
    OBVIOUS
  <2>0. <<>> \in Seq(ShellFrames) /\ <<>> \in Seq({"data", "close"}) /\ DOMAIN <<>> = {}
    OBVIOUS
  <2>1. ShellsTyped
    BY <2>0 DEF ShellInit, ShellsTyped, Calls
  <2>2. ASSUME NEW t \in Sessions PROVE OpenedOnce(t) /\ FedOrTold(t) /\ ClosedBehind(t)
    BY <2>0 DEF ShellInit, OpenedOnce, FedOrTold, ClosedBehind, Unheard, Opens, Early
  <2> QED
    BY <2>1, <2>2 DEF ShellInv
<1>2. ShellInv /\ [ShellNext]_shellVars => ShellInv'
  <2> SUFFICES ASSUME ShellInv, [ShellNext]_shellVars PROVE ShellInv'
    OBVIOUS
  <2>1. ASSUME NEW s \in Sessions,
               \/ OpenShell(s) \/ OpenStep(s) \/ RelayAdminFrame(s) \/ FeedClient(s)
               \/ ForwardOutput(s) \/ OutputForwarded(s) \/ RelayEnds(s) \/ EndStep(s)
        PROVE  ShellInv'
    BY <2>1, ServerSteps
  <2>2. ASSUME NEW s \in Sessions,
               \/ ShellHousekeeping(s) \/ RouteData(s) \/ RouteClose(s) \/ AdminStalls(s)
               \/ ShellClose(s)
        PROVE  ShellInv'
    <3>1. UNCHANGED <<call, stream, connected, via, toClient, shells, copier, feeder, serving, input, toBroker>>
      BY <2>2 DEF ShellHousekeeping, RouteData, RouteClose, AdminStalls, ShellClose,
           linkVars, daemonVars, brokerVars
    <3> QED
      BY <3>1, ShellsQuiet
  <2>3. ASSUME NEW s \in Sessions,
               \/ OutputEnds(s) \/ OutputData(s) \/ OutputFails(s) \/ SessionTimeout(s)
               \/ ShellExits(s)
        PROVE  ShellInv'
    <3>1. UNCHANGED <<call, stream, connected, via, toClient, shells, copier, feeder, serving, input, toBroker>>
      BY <2>3 DEF OutputEnds, OutputData, OutputFails, SessionTimeout, ShellExits,
           serverVars, linkVars, daemonVars
    <3> QED
      BY <3>1, ShellsQuiet
  <2>4. ASSUME NEW s \in Sessions, RouteStrayData(s) \/ RelayStrayData(s) PROVE ShellInv'
    BY <2>4, StreamBreaks DEF RouteStrayData, RelayStrayData, serverVars, brokerVars
  <2>5. ASSUME NEW s \in Sessions,
               OpenShellSession(s) \/ RelayShellData(s) \/ RelayShellClose(s)
        PROVE  ShellInv'
    BY <2>5, ShellOpened, ShellDataRelayed, ShellCloseRelayed
  <2>6. ASSUME NEW s \in Sessions,
               \/ FeederEnds(s) \/ ServeSession(s) \/ InputThread(s) \/ InputWouldBlock(s)
               \/ KillSession(s) \/ JoinThreads(s)
        PROVE  ShellInv'
    BY <2>6, BrokerSteps
  <2>10. ASSUME NEW s \in Sessions,
                \/ StartRelay(s) \/ CopyFrame(s) \/ CopyWouldBlock(s) \/ CopierEnds(s)
                \/ FeederWouldBlock(s)
         PROVE  ShellInv'
    BY <2>10, RelaySteps, FeederFails
  <2>7. ASSUME StreamLost PROVE ShellInv'
    BY <2>7, StreamBreaks DEF StreamLost, serverVars, brokerVars
  <2>8. ASSUME Reconnect PROVE ShellInv'
    BY <2>8, StreamReturns
  <2>9. ASSUME UNCHANGED shellVars PROVE ShellInv'
    BY <2>9, ShellsQuiet DEF shellVars, serverVars, linkVars, daemonVars, brokerVars
  <2> QED
    BY <2>1, <2>2, <2>3, <2>4, <2>5, <2>6, <2>7, <2>8, <2>9, <2>10
       DEF ShellNext, RouteStep, DaemonStep
<1> QED
  BY <1>1, <1>2, PTL DEF ShellSpec

\* While its control stream lasts, a session that the server has ended does
\* not go on reading input on the device unless its close is on the way
\* (end_shell_session, relay_shell_close, input_loop).
THEOREM ShellsEndedTold == ShellSpec => []EndedIsTold
<1>1. ShellInv => EndedIsTold
  <2> SUFFICES ASSUME ShellInv, NEW s \in Sessions,
                      call[s] = "done", Reaches(s), input[s] = "reading",
                      feeder[s] # "failed"
               PROVE  InQueue(Frame("close", s), toClient) \/ InQueue("close", toBroker[s])
    BY DEF EndedIsTold
  <2>1. FedOrTold(s) /\ ClosedBehind(s)
    BY DEF ShellInv
  <2>2. CASE s \in shells
    <3>1. PICK n \in Nat : Closes(s, n)
      BY <2>1, <2>2 DEF ClosedBehind
    <3> QED
      BY <3>1 DEF Closes, InQueue
  <2>3. CASE s \notin shells
    BY <2>1, <2>3 DEF FedOrTold
  <2> QED
    BY <2>2, <2>3
<1> QED
  BY <1>1, ShellsInvariant, PTL

===============================================================================
