---------------------------- MODULE AdminProfiles ----------------------------
(***************************************************************************)
(* A profile of the Admin application (apps/admin/src-tauri/src/           *)
(* profiles.rs): its enrollment, the renewal of its certificate, and the   *)
(* recovery, on every use, of a credential change that was interrupted.    *)
(* The generations of credentials lie in the profile's directory; the      *)
(* active one is named by the three files of ActivePointer, whose file     *)
(* operations are taken here one by one, by the call that holds the        *)
(* profile's lock.  That call can die at any of them, each of them can     *)
(* fail, and what is asked of the server can be lost on the way there or   *)
(* back.  A command runs over the connection that the call returns, after  *)
(* the lock was released, and changes nothing of a profile.                *)
(*                                                                         *)
(* An enrollment makes a directory of its own, so one profile is one       *)
(* enrollment and its renewals.  Values are its generations.               *)
(***************************************************************************)
EXTENDS ActivePointer, Naturals

CONSTANTS
    MaxCrashes,     \* bound: how often the application dies
    MaxOutages      \* bound: how often a call fails while it lives on

ASSUME ProfileBounds == MaxCrashes \in Nat /\ MaxOutages \in Nat

VARIABLES
    app,        \* where the call is that holds the profile's lock
    loaded,     \* the generation it has loaded
    fresh,      \* the generation it is making
    made,       \* generations whose key pair was made
    disk,       \* generations with their files and profile-<id>.json
    status,     \* the server's view of each generation's certificate
    asked,      \* the request the call waits for
    late,       \* requests nobody waits for that may still arrive
    botched,    \* history: a generation was deleted although its pointer
                \* could not be withdrawn
    crashes, outages

appVars == <<app, loaded, fresh, made>>
serverVars == <<status, asked, late>>
boundVars == <<crashes, outages, botched>>
profileVars == <<activeVars, appVars, disk, serverVars, boundVars>>

\* A request is sent over a connection that presents the certificate of
\* generation by, if it has one.
Request(op, g, by) == [op |-> op, gen |-> g, by |-> by]
NoRequest == Request("none", None, None)

ProfileInit ==
    /\ Init
    /\ current = None
    /\ app = "absent"
    /\ loaded = None
    /\ fresh = None
    /\ made = {}
    /\ disk = {}
    /\ status = [g \in Values |-> "unused"]
    /\ asked = NoRequest
    /\ late = {}
    /\ botched = FALSE
    /\ crashes = 0
    /\ outages = 0

AppGoto(there) == app' = there /\ UNCHANGED <<loaded, fresh, made>>

\* The call ends and releases the profile's lock.
Returns == app' = "idle" /\ loaded' = None /\ fresh' = None /\ UNCHANGED made

----------------------------------------------------------------------------
(***************************************************************************)
(* The server, as far as the certificates of one Admin go.                 *)
(***************************************************************************)
Usable(g) == status[g] \in {"active", "retiring"}

\* enroll_admin and renew_admin_certificate issue a pending certificate;
\* activate_admin_identity makes it the current one, and its predecessor is
\* good for one more hour.
Accepts(r) ==
    CASE r.op = "enroll" -> TRUE
      [] r.op = "renew" -> Usable(r.by)
      [] r.op = "activate" -> status[r.gen] \in {"pending", "active", "retiring", "retired"}

Effect(r) ==
    status' =
        IF r.op # "activate" THEN [status EXCEPT ![r.gen] = "pending"]
        ELSE IF status[r.gen] # "pending" THEN status
        ELSE [g \in Values |-> CASE g = r.gen -> "active"
                                 [] g # r.gen /\ status[g] = "active" -> "retiring"
                                 [] OTHER -> status[g]]

\* The hour of a superseded certificate is over; a pending one expires and
\* is swept.
Retire(g) ==
    /\ \/ status[g] = "retiring" /\ status' = [status EXCEPT ![g] = "retired"]
       \/ status[g] = "pending" /\ status' = [status EXCEPT ![g] = "swept"]
    /\ UNCHANGED <<activeVars, appVars, disk, asked, late, boundVars>>

\* A request whose sender has given up arrives after all.
LateRequest(r) ==
    /\ r \in late
    /\ late' = late \ {r}
    /\ IF Accepts(r) THEN Effect(r) ELSE UNCHANGED status
    /\ UNCHANGED <<activeVars, appVars, disk, asked, boundVars>>

----------------------------------------------------------------------------
(***************************************************************************)
(* Calls to the server.  A call is answered, or is lost: its request is    *)
(* dropped or arrives late, or its answer is dropped.                      *)
(***************************************************************************)
Asks == [enrolling |-> "enroll", renewing |-> "renew", activating |-> "activate",
         confirming |-> "activate"]

Subject == IF app = "confirming" THEN loaded ELSE fresh

SendRequest ==
    /\ app \in DOMAIN Asks
    /\ asked = NoRequest
    /\ asked' = Request(Asks[app], Subject, loaded)
    /\ UNCHANGED <<activeVars, appVars, disk, status, late, boundVars>>

\* Where the call goes on, in enroll_admin_inner, renew_admin_profile and
\* admin_client.
AfterSuccess == CASE app = "enrolling" -> "persisting"
                  [] app = "renewing" -> "persisting"
                  [] app = "activating" -> "committing"
                  [] app = "confirming" -> "finalizing"

AfterFailure == CASE app = "enrolling" -> "removing"
                  [] app = "renewing" -> "connecting"
                  [] app = "activating" -> "undoing"
                  [] app = "confirming" -> "restoring"

Answered ==
    /\ asked # NoRequest
    /\ asked' = NoRequest
    /\ IF Accepts(asked) THEN Effect(asked) /\ AppGoto(AfterSuccess)
       ELSE UNCHANGED status /\ AppGoto(AfterFailure)
    /\ UNCHANGED <<activeVars, disk, late, boundVars>>

Lost ==
    /\ asked # NoRequest
    /\ outages < MaxOutages
    /\ outages' = outages + 1
    /\ asked' = NoRequest
    /\ AppGoto(AfterFailure)
    /\ \/ UNCHANGED <<status, late>>
       \/ late' = late \cup {asked} /\ UNCHANGED status
       \/ Accepts(asked) /\ Effect(asked) /\ UNCHANGED late
    /\ UNCHANGED <<activeVars, disk, crashes, botched>>

----------------------------------------------------------------------------
(***************************************************************************)
(* enroll_admin_inner, admin_client and renew_admin_profile.               *)
(***************************************************************************)
Make(g, there) ==
    /\ g \notin made
    /\ made' = made \cup {g}
    /\ fresh' = g
    /\ app' = there

\* The directory, the lock, and both keys, before the server is asked.
EnrollAdmin(g) ==
    /\ app = "absent"
    /\ made = {}
    /\ Make(g, "enrolling")
    /\ UNCHANGED <<activeVars, loaded, disk, serverVars, boundVars>>

\* persist_profile_generation, or it fails and cleans up after itself.
PersistProfileGeneration ==
    /\ app = "persisting"
    /\ \/ disk' = disk \cup {fresh} /\ AppGoto("publishing")
       \/ UNCHANGED disk /\ AppGoto(IF loaded = None THEN "removing" ELSE "connecting")
    /\ UNCHANGED <<activeVars, serverVars, boundVars>>

\* publish_active_profile; the steps of the publication are ActivePointer's.
PublishActiveProfile ==
    /\ app = "publishing"
    /\ BeginPublish(fresh)
    /\ AppGoto("published")
    /\ UNCHANGED <<disk, serverVars, boundVars>>

\* It succeeded; or secure_profile_tree fails and it is rolled back; or it
\* failed, or was rolled back whether or not that succeeded.
Published ==
    /\ app = "published"
    /\ pc = "free"
    /\ \/ publication /\ AppGoto("activating")
       \/ publication /\ AppGoto("unsecured")
       \/ ~publication /\ AppGoto("cleaning")
    /\ UNCHANGED <<activeVars, disk, serverVars, boundVars>>

\* Mutant: the files go first.
RollbackPublicationLast ==
    /\ app \in {"undoing", "unsecured"}
    /\ disk' = disk \ {fresh}
    /\ BeginRollback
    /\ AppGoto(IF app = "undoing" THEN "undone" ELSE "published")
    /\ UNCHANGED <<serverVars, boundVars>>

\* PointerPublication::rollback, when activate_admin_profile or, within
\* publish_active_profile, secure_profile_tree failed.
RollbackPublication ==
    /\ app \in {"undoing", "unsecured"}
    /\ BeginRollback
    /\ AppGoto(IF app = "undoing" THEN "undone" ELSE "published")
    /\ UNCHANGED <<disk, serverVars, boundVars>>

\* The activation failed.  If the rollback failed too the generation is
\* retained: an enrollment returns, a renewal leaves admin_client to go on
\* with the certificate it has.
Undone ==
    /\ app = "undone"
    /\ pc = "free"
    /\ \/ outcome = "ok" /\ AppGoto("cleaning")
       \/ outcome # "ok" /\ loaded = None /\ Returns
       \/ outcome # "ok" /\ loaded # None /\ AppGoto("connecting")
    /\ UNCHANGED <<activeVars, disk, serverVars, boundVars>>

\* cleanup_profile_generation; in an enrollment the directory goes as a
\* whole.
CleanupProfileGeneration ==
    /\ app = "cleaning"
    /\ pc = "free"
    /\ IF loaded = None THEN AppGoto("removing") /\ UNCHANGED <<disk, botched>>
       ELSE /\ disk' = disk \ {fresh}
            /\ botched' = (botched \/ outcome = "stuck")
            /\ AppGoto("connecting")
    /\ UNCHANGED <<activeVars, serverVars, crashes, outages>>

RemoveProfileDirectory ==
    /\ app = "removing"
    /\ disk' = {}
    /\ current' = None
    /\ next' = None
    /\ previous' = None
    /\ AppGoto("absent")
    /\ UNCHANGED <<pc, value, publication, outcome, cut, serverVars, boundVars>>

\* PointerPublication::commit, and commit_active_profile of admin_client.
CommitActiveProfile ==
    /\ app \in {"committing", "finalizing"}
    /\ BeginCommit
    /\ AppGoto(IF app = "committing" THEN "done" ELSE "recovered")
    /\ UNCHANGED <<disk, serverVars, boundVars>>

\* An enrollment is over.  admin_client goes on with the renewed generation;
\* if the commit, or secure_profile_tree after it, failed, with the old one.
Replaced ==
    /\ app = "done"
    /\ pc = "free"
    /\ \/ loaded = None /\ Returns
       \/ /\ loaded # None
          /\ outcome = "ok"
          /\ app' = "connecting"
          /\ loaded' = fresh
          /\ fresh' = None
          /\ UNCHANGED made
       \/ loaded # None /\ AppGoto("connecting")
    /\ UNCHANGED <<activeVars, disk, serverVars, boundVars>>

\* Mutant: the recovered pointer is committed without asking the server.
LoadProfileTrusting ==
    /\ app = "idle"
    /\ ReadPointer
    /\ IF Recovered.current \in disk
       THEN app' = "finalizing" /\ loaded' = Recovered.current
       ELSE UNCHANGED <<app, loaded>>
    /\ UNCHANGED <<fresh, made, disk, serverVars, boundVars>>

\* admin_client: the lock, load_profile_from_dir and what it finds.  A
\* profile without a pointer, or with one to a file that is not there, fails.
LoadProfile ==
    /\ app = "idle"
    /\ ReadPointer
    /\ IF Recovered.current \in disk
       THEN app' = "confirming" /\ loaded' = Recovered.current
       ELSE UNCHANGED <<app, loaded>>
    /\ UNCHANGED <<fresh, made, disk, serverVars, boundVars>>

\* rollback_active_profile_if_previous; the call fails.
RestorePrevious ==
    /\ app = "restoring"
    /\ BeginRollbackIfPrevious
    /\ AppGoto("restored")
    /\ UNCHANGED <<disk, serverVars, boundVars>>

Restored ==
    /\ app = "restored"
    /\ pc = "free"
    /\ Returns
    /\ UNCHANGED <<activeVars, disk, serverVars, boundVars>>

\* commit_active_profile failed, and so does the call; or the certificate is
\* good for another 30 days, or it is to be renewed.
RenewalDue ==
    /\ app = "recovered"
    /\ pc = "free"
    /\ \/ Returns
       \/ outcome = "ok" /\ AppGoto("connecting")
       \/ outcome = "ok" /\ \E g \in Values : Make(g, "renewing") /\ UNCHANGED loaded
    /\ UNCHANGED <<activeVars, disk, serverVars, boundVars>>

\* admin_client_for_profile reads the files of the loaded generation and
\* connects, or fails; admin_client returns.
AdminClientForProfile ==
    /\ app = "connecting"
    /\ Returns
    /\ UNCHANGED <<activeVars, disk, serverVars, boundVars>>

\* list_profiles_inner reads the pointer and takes no profile lock.
ListProfiles ==
    /\ app # "absent"
    /\ ReadPointer
    /\ UNCHANGED <<appVars, disk, serverVars, boundVars>>

\* The application dies.  What it asked is on its way.
AppDies ==
    /\ app \notin {"absent", "idle"}
    /\ crashes < MaxCrashes
    /\ crashes' = crashes + 1
    /\ \/ Crash
       \/ pc = "free" /\ ~publication /\ UNCHANGED activeVars
    /\ Returns
    /\ late' = late \cup ({asked} \ {NoRequest})
    /\ asked' = NoRequest
    /\ UNCHANGED <<disk, status, outages, botched>>

----------------------------------------------------------------------------
PointerStep ==
    /\ \/ CheckPending \/ CreateNext \/ WriteNext \/ SetAside \/ Install
       \/ SyncDirectory \/ UndoNext \/ UndoCurrent \/ Restore
       \/ Commit \/ DropNext \/ CheckPrevious \/ RemoveCurrent \/ Reinstate
    /\ UNCHANGED <<appVars, disk, serverVars, boundVars>>

ProfileNext ==
    \/ \E g \in Values : Retire(g) \/ EnrollAdmin(g)
    \/ \E r \in late : LateRequest(r)
    \/ SendRequest \/ Answered \/ Lost
    \/ PersistProfileGeneration \/ PublishActiveProfile \/ Published
    \/ RollbackPublication \/ Undone \/ CleanupProfileGeneration
    \/ RemoveProfileDirectory \/ CommitActiveProfile \/ Replaced
    \/ LoadProfile \/ RestorePrevious \/ Restored \/ RenewalDue \/ AdminClientForProfile
    \/ ListProfiles \/ PointerStep \/ AppDies

ProfileSpec == ProfileInit /\ [][ProfileNext]_profileVars

----------------------------------------------------------------------------
ProfileTypeOK ==
    /\ TypeOK
    /\ loaded \in Values \cup {None}
    /\ fresh \in Values \cup {None}
    /\ disk \subseteq made
    /\ made \subseteq Values

\* Whatever the application dies in, whatever calls are lost and whichever
\* file operation fails, the active pointer, and the one it would fall back
\* to, name a generation whose files are there: generations are written before
\* they are published, and removed only after the pointer was withdrawn.  Not
\* once the code has removed one whose pointer it had failed to withdraw,
\* which it does when a publication fails and its undoing, or the rollback
\* after secure_profile_tree, fails as well.
ProfileNeverDangles ==
    app # "removing" /\ ~botched => {ViewCurrent, ViewPrevious} \subseteq disk \cup {None}

\* The certificate the server has made the Admin's current one is the one the
\* profile points to, with its key, or the one it falls back to from a
\* generation on disk that the server has not activated (publish, then
\* activate, then commit), whatever the application dies in, and also when the commit or the
\* rollback of a renewal fails and a command goes on with the certificate that
\* was renewed.  So no crash locks the Admin out when the hour of the
\* predecessor is over.  A request or an answer that is lost while the
\* application lives on does (the activation counts as failed, and the key of
\* the certificate that was activated is deleted), and so does a pointer that
\* could not be withdrawn from a deleted generation.
ActiveIsReachable ==
    \A g \in Values :
        outages = 0 /\ ~botched /\ status[g] = "active" =>
            /\ g \in disk
            /\ \/ ViewCurrent = g
               \/ /\ ViewPrevious = g
                  /\ ViewCurrent \in disk
                  /\ status[ViewCurrent] \in {"pending", "swept"}

=============================================================================
