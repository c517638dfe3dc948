------------------------------ MODULE Accounts ------------------------------
(***************************************************************************)
(* Accounts, their browser sessions and their deletion: the Google login   *)
(* (internal/identity/oauth, users), sessions with rotating refresh tokens *)
(* (internal/identity/sessions), cookies (identity/browser) and the        *)
(* deletion requests and purges of internal/privacy.                       *)
(*                                                                         *)
(* A transaction is one action, except for Rotate, whose row locks matter: *)
(* it locks and reads in one action and commits in another.                *)
(***************************************************************************)
EXTENDS Naturals, FiniteSets

CONSTANTS
    Users,          \* rows of users; who returns after a deletion gets a new one
    Logins,         \* callbacks of Google; a session is known by its login
    Refreshes,      \* requests to /auth/refresh
    Workers,        \* maintenance loops of worker processes
    MaxFaults,      \* bound: faults of workers
    NoUser, Nobody  \* no user; nobody, as the holder of a row lock

ASSUME SentinelAssumption == NoUser \notin Users /\ Nobody \notin Refreshes
ASSUME FaultsAssumption == MaxFaults \in Nat

VARIABLES
    account,    \* account[u]: users.status, "absent" before and "deleted" after the row
    guest,      \* migrated_user_id of the guest who logs in
    login,      \* login[l]: how far the callback got, and for whom
    session,    \* session[l]: row of auth_sessions and its auth_refresh_tokens
    lock,       \* lock[l]: the refresh that holds the row lock of session l
    refresh,    \* refresh[f]: how far f got, and what it read
    cookie,     \* cookie[l]: the refresh token the browser of l holds, 0 for none
    job,        \* job[u]: account_deletion_jobs.status
    overdue,    \* users whose job has been processing for 15 minutes
    purging,    \* purging[w]: jobs that w has claimed and not finished
    faults,     \* number of faults so far
    reused,     \* sessions with reuse_detected_at
    unsure,     \* history: sessions with a lost reply or with overlapping refreshes
    late        \* history: sessions that were created for an account being deleted

vars == <<account, guest, login, session, lock, refresh, cookie, job, overdue, purging,
          faults, reused, unsure, late>>

people == <<account, guest, login>>
rotation == <<session, lock, refresh, cookie, reused, unsure>>
deletion == <<job, overdue, purging, faults>>

Token == Nat \ {0}
NoSession == [state |-> "none", user |-> NoUser, issued |-> 0, used |-> {}]
Unsent(l) == [stage |-> "idle", session |-> l, token |-> 0, seen |-> "nothing", answer |-> 0]

\* The tokens of a session are numbered in the order they were issued.
TypeOK ==
    /\ account \in [Users -> {"absent", "active", "deletion_pending", "deleted"}]
    /\ guest \in Users \cup {NoUser}
    /\ login \in [Logins -> [stage : {"started", "provisioned", "done"}, user : Users \cup {NoUser}]]
    /\ session \in [Logins -> [state : {"none", "live", "revoked", "deleted"},
                               user : Users \cup {NoUser}, issued : Nat, used : SUBSET Token]]
    /\ lock \in [Logins -> Refreshes \cup {Nobody}]
    /\ refresh \in [Refreshes -> [stage : {"idle", "sent", "locked", "answered", "done"},
                                  session : Logins, token : Nat,
                                  seen : {"nothing", "unused", "used", "revoked"}, answer : Nat]]
    /\ cookie \in [Logins -> Nat]
    /\ \A l \in Logins : cookie[l] <= session[l].issued /\ session[l].used \subseteq 1..session[l].issued
    /\ job \in [Users -> {"none", "pending", "processing", "failed", "completed"}]
    /\ overdue \subseteq Users
    /\ purging \in [Workers -> SUBSET Users]
    /\ faults \in 0..MaxFaults
    /\ reused \subseteq Logins /\ unsure \subseteq Logins /\ late \subseteq Logins

Init ==
    /\ account = [u \in Users |-> "absent"]
    /\ guest = NoUser
    /\ login = [l \in Logins |-> [stage |-> "started", user |-> NoUser]]
    /\ session = [l \in Logins |-> NoSession]
    /\ lock = [l \in Logins |-> Nobody]
    /\ refresh \in [Refreshes -> {Unsent(l) : l \in Logins}]
    /\ cookie = [l \in Logins |-> 0]
    /\ job = [u \in Users |-> "none"]
    /\ overdue = {}
    /\ purging = [w \in Workers |-> {}]
    /\ faults = 0
    /\ reused = {}
    /\ unsure = {}
    /\ late = {}

-----------------------------------------------------------------------------
(* Complete: the callback of Google *)

\* ProvisionGoogle: one serializable transaction finds or creates the user, and migrates
\* the guest who logs in.  Its commit may be reported as an error.
Provision(l, u, carriesGuest) ==
    /\ login[l].stage = "started"
    /\ account[u] \in {"absent", "active"}
    /\ carriesGuest => guest \in {NoUser, u}
    /\ account' = [account EXCEPT ![u] = "active"]
    /\ guest' = IF carriesGuest THEN u ELSE guest
    /\ \E stage \in {"provisioned", "done"} :
          login' = [login EXCEPT ![l] = [stage |-> stage, user |-> u]]
    /\ UNCHANGED <<rotation, deletion, late>>

\* The account is not active, the guest belongs to another user, or an error remains
\* after the retries of serialization failures.
ProvisionFails(l) ==
    /\ login[l].stage = "started"
    /\ login' = [login EXCEPT ![l].stage = "done"]
    /\ UNCHANGED <<account, guest, rotation, deletion, late>>

\* The rows of a new session, and of a token more.
CreateAuthSession(u) == [state |-> "live", user |-> u, issued |-> 0, used |-> {}]
InsertRefreshToken(s) == [s EXCEPT !.issued = @ + 1]

\* sessions.Create, in a transaction of its own, then the cookies of Issue, unless the
\* commit is reported as an error or the reply is lost.
CreateSession(l) ==
    LET u == login[l].user IN
    /\ login[l].stage = "provisioned"
    /\ account[u] # "deleted"
    /\ session' = [session EXCEPT ![l] = InsertRefreshToken(CreateAuthSession(u))]
    /\ \E token \in {0, 1} : cookie' = [cookie EXCEPT ![l] = token]
    /\ login' = [login EXCEPT ![l].stage = "done"]
    /\ late' = IF account[u] = "active" THEN late ELSE late \cup {l}
    /\ UNCHANGED <<account, guest, lock, refresh, reused, unsure, deletion>>

\* Among other errors: the user was deleted, and the foreign key refuses the session.
CreateSessionFails(l) ==
    /\ login[l].stage = "provisioned"
    /\ login' = [login EXCEPT ![l].stage = "done"]
    /\ UNCHANGED <<account, guest, rotation, deletion, late>>

-----------------------------------------------------------------------------
(* Rotate: /auth/refresh *)

Pending(f, l) == refresh[f].session = l /\ refresh[f].stage \in {"sent", "locked", "answered"}

\* A tab presents the cookie; the tabs of a browser share it.
Send(f) ==
    LET l == refresh[f].session IN
    /\ refresh[f].stage = "idle"
    /\ cookie[l] > 0
    /\ refresh' = [refresh EXCEPT ![f].stage = "sent", ![f].token = cookie[l]]
    /\ unsure' = IF \E g \in Refreshes : Pending(g, l) THEN unsure \cup {l} ELSE unsure
    /\ UNCHANGED <<people, session, lock, cookie, reused, deletion, late>>

Verdict(l, token) ==
    IF token \in session[l].used THEN "used"
    ELSE IF session[l].state = "revoked" THEN "revoked"
    ELSE "unused"

\* Variant: the SELECT without FOR UPDATE.
ReadToken(f) ==
    LET l == refresh[f].session IN
    /\ refresh[f].stage = "sent"
    /\ session[l].state # "deleted"
    /\ refresh' = [refresh EXCEPT ![f].stage = "locked", ![f].seen = Verdict(l, refresh[f].token)]
    /\ UNCHANGED <<people, session, lock, cookie, reused, unsure, deletion, late>>

\* LockRefreshToken: FOR UPDATE of the token and of its session.
LockToken(f) ==
    LET l == refresh[f].session IN
    /\ refresh[f].stage = "sent"
    /\ session[l].state # "deleted"
    /\ lock[l] = Nobody
    /\ lock' = [lock EXCEPT ![l] = f]
    /\ refresh' = [refresh EXCEPT ![f].stage = "locked", ![f].seen = Verdict(l, refresh[f].token)]
    /\ UNCHANGED <<people, session, cookie, reused, unsure, deletion, late>>

\* The row is gone, or the transaction does not get anywhere: an error, which clears the
\* cookies.
RefreshFails(f) ==
    LET l == refresh[f].session IN
    /\ refresh[f].stage \in {"sent", "locked"}
    /\ lock' = [lock EXCEPT ![l] = IF @ = f THEN Nobody ELSE @]
    /\ refresh' = [refresh EXCEPT ![f].stage = "answered", ![f].answer = 0]
    /\ UNCHANGED <<people, session, cookie, reused, unsure, deletion, late>>

Answer(f, token) ==
    LET l == refresh[f].session IN
    /\ refresh[f].stage = "locked"
    /\ lock' = [lock EXCEPT ![l] = IF @ = f THEN Nobody ELSE @]
    /\ refresh' = [refresh EXCEPT ![f].stage = "answered", ![f].answer = token]
    /\ UNCHANGED <<people, cookie, unsure, deletion, late>>

RevokeSessionFamily(l) == session' = [session EXCEPT ![l].state = "revoked"]

\* The token was used before: RevokeSessionFamily.
DetectReuse(f) ==
    LET l == refresh[f].session IN
    /\ refresh[f].seen = "used"
    /\ Answer(f, 0)
    /\ RevokeSessionFamily(l)
    /\ reused' = reused \cup {l}

\* The session was revoked (one that has expired is refused alike).
RefuseToken(f) ==
    /\ refresh[f].seen = "revoked"
    /\ Answer(f, 0)
    /\ UNCHANGED <<session, reused>>

MarkRefreshTokenUsed(s, token) == [s EXCEPT !.used = @ \cup {token}]

\* Variant: the next token is inserted, and the one presented is not marked.
RotateUnmarked(f) ==
    LET l == refresh[f].session
        next == session[l].issued + 1
    IN
    /\ refresh[f].seen = "unused"
    /\ \E answer \in {0, next} : Answer(f, answer)
    /\ session' = [session EXCEPT ![l] = InsertRefreshToken(@)]
    /\ UNCHANGED reused

\* Variant: the next token is handed out, and not inserted.
RotateUnsaved(f) ==
    LET l == refresh[f].session
        next == session[l].issued + 1
    IN
    /\ refresh[f].seen = "unused"
    /\ \E answer \in {0, next} : Answer(f, answer)
    /\ session' = [session EXCEPT ![l] = MarkRefreshTokenUsed(@, refresh[f].token)]
    /\ UNCHANGED reused

\* MarkRefreshTokenUsed, which updates an unused token only, InsertRefreshToken and the
\* commit, which may be reported as an error.
Rotate(f) ==
    LET l == refresh[f].session
        next == session[l].issued + 1
    IN
    /\ refresh[f].seen = "unused"
    /\ refresh[f].token \notin session[l].used
    /\ \E answer \in {0, next} : Answer(f, answer)
    /\ session' = [session EXCEPT ![l] =
                       InsertRefreshToken(MarkRefreshTokenUsed(@, refresh[f].token))]
    /\ UNCHANGED reused

\* Variant: Issue sets the access cookie, and leaves the refresh cookie alone.
DeliverAccess(f) ==
    LET l == refresh[f].session IN
    /\ refresh[f].stage = "answered"
    /\ refresh' = [refresh EXCEPT ![f].stage = "done"]
    /\ cookie' = [cookie EXCEPT ![l] = IF refresh[f].answer = 0 THEN 0 ELSE @]
    /\ UNCHANGED <<people, session, lock, reused, unsure, deletion, late>>

\* The reply reaches the browser: Issue sets the cookies, Clear removes them.
Deliver(f) ==
    LET l == refresh[f].session IN
    /\ refresh[f].stage = "answered"
    /\ refresh' = [refresh EXCEPT ![f].stage = "done"]
    /\ cookie' = [cookie EXCEPT ![l] = refresh[f].answer]
    /\ UNCHANGED <<people, session, lock, reused, unsure, deletion, late>>

\* The reply is lost, or Issue fails.
LoseReply(f) ==
    /\ refresh[f].stage = "answered"
    /\ refresh' = [refresh EXCEPT ![f].stage = "done"]
    /\ unsure' = unsure \cup {refresh[f].session}
    /\ UNCHANGED <<people, session, lock, cookie, reused, deletion, late>>

\* Logout, or the removal of a session in the settings; only the first clears its cookies.
Revoke(l) ==
    /\ session[l].state = "live"
    /\ lock[l] = Nobody
    /\ session' = [session EXCEPT ![l].state = "revoked"]
    /\ \E token \in {0, cookie[l]} : cookie' = [cookie EXCEPT ![l] = token]
    /\ UNCHANGED <<people, lock, refresh, reused, unsure, deletion, late>>

-----------------------------------------------------------------------------
(* Deletion *)

SessionsOf(u) == {l \in Logins : session[l].user = u}
Unlocked(u) == \A l \in SessionsOf(u) : lock[l] = Nobody
End(u, state) == [l \in Logins |-> IF l \in SessionsOf(u) THEN [session[l] EXCEPT !.state = state]
                                   ELSE session[l]]

CreateAccountDeletionJob(u) == job' = [job EXCEPT ![u] = "pending"]

\* Variant: the status changes, and sessions stay.
RequestOnly(u) ==
    /\ account[u] = "active"
    /\ account' = [account EXCEPT ![u] = "deletion_pending"]
    /\ CreateAccountDeletionJob(u)
    /\ UNCHANGED <<guest, login, rotation, overdue, purging, faults, late>>

\* Service.Request: status, sessions and job change in one transaction.  For a user who is
\* not active it returns the job there is, or a conflict.
Request(u) ==
    /\ account[u] = "active"
    /\ \A l \in SessionsOf(u) : session[l].state = "live" => lock[l] = Nobody
    /\ account' = [account EXCEPT ![u] = "deletion_pending"]
    /\ session' = End(u, "revoked")
    /\ CreateAccountDeletionJob(u)
    /\ UNCHANGED <<guest, login, lock, refresh, cookie, reused, unsure, overdue, purging, faults, late>>

\* Variant: a job is claimed once, unless it failed.
ClaimableUnstarted(u) == job[u] \in {"pending", "failed"}

\* Jobs that wait, failed, or have been processing for too long.
Claimable(u) ==
    \/ job[u] \in {"pending", "failed"}
    \/ job[u] = "processing" /\ u \in overdue

Fault ==
    /\ faults < MaxFaults
    /\ faults' = faults + 1

\* PurgeDue, ClaimAccountDeletionJobs: fewer accounts are due than a batch holds.
Claim(w) ==
    LET batch == {u \in Users : Claimable(u)} IN
    /\ purging[w] = {}
    /\ batch # {}
    /\ job' = [u \in Users |-> IF u \in batch THEN "processing" ELSE job[u]]
    /\ overdue' = overdue \ batch
    /\ \/ purging' = [purging EXCEPT ![w] = batch] /\ UNCHANGED faults
       \/ Fault /\ UNCHANGED purging
    /\ UNCHANGED <<people, rotation, late>>

\* The user can be deleted, and the job completed.  Deleting a user sets migrated_user_id
\* of its guest to NULL, which the CHECK on guest_sessions refuses beside migrated_at.
Purgeable(u) == account[u] = "deletion_pending" /\ guest # u /\ job[u] = "processing"

FailJob(u) == [job EXCEPT ![u] = IF @ = "processing" THEN "failed" ELSE @]
Finish(w, u) == purging' = [purging EXCEPT ![w] = @ \ {u}]

CompleteAccountDeletionJob(u) ==
    /\ job' = [job EXCEPT ![u] = "completed"]
    /\ overdue' = overdue \ {u}

\* DeleteUserForPurge, which cascades to sessions and tokens, and CompleteAccountDeletionJob.
Purge(w, u) ==
    /\ u \in purging[w]
    /\ Purgeable(u)
    /\ Unlocked(u)
    /\ account' = [account EXCEPT ![u] = "deleted"]
    /\ session' = End(u, "deleted")
    /\ CompleteAccountDeletionJob(u)
    /\ Finish(w, u)
    /\ UNCHANGED <<guest, login, lock, refresh, cookie, reused, unsure, faults, late>>

\* The transaction is rolled back, and Service.fail notes it.
PurgeRefused(w, u) ==
    /\ u \in purging[w]
    /\ ~Purgeable(u)
    /\ job' = FailJob(u)
    /\ overdue' = overdue \ {u}
    /\ Finish(w, u)
    /\ UNCHANGED <<people, rotation, faults, late>>

\* PostgreSQL fails, perhaps for fail as well.
PurgeFails(w, u) ==
    /\ u \in purging[w]
    /\ Fault
    /\ job' \in {job, FailJob(u)}
    /\ overdue' = IF job' = job THEN overdue ELSE overdue \ {u}
    /\ Finish(w, u)
    /\ UNCHANGED <<people, rotation, late>>

\* A worker stops or dies.
Stop(w) ==
    /\ purging[w] # {}
    /\ Fault
    /\ purging' = [purging EXCEPT ![w] = {}]
    /\ UNCHANGED <<people, rotation, job, overdue, late>>

Abandoned(u) == \A w \in Workers : u \notin purging[w]

\* Fifteen minutes pass since the claim of a job that nobody works on.
BecomeOverdue(u) ==
    /\ job[u] = "processing"
    /\ u \notin overdue
    /\ Abandoned(u)
    /\ overdue' = overdue \cup {u}
    /\ UNCHANGED <<people, rotation, job, purging, faults, late>>

\* They pass while a slow worker still has it.
Overrun(u) ==
    /\ job[u] = "processing"
    /\ u \notin overdue
    /\ ~Abandoned(u)
    /\ Fault
    /\ overdue' = overdue \cup {u}
    /\ UNCHANGED <<people, rotation, job, purging, late>>

-----------------------------------------------------------------------------

Refresh(f) ==
    \/ Send(f) \/ LockToken(f) \/ RefreshFails(f)
    \/ DetectReuse(f) \/ RefuseToken(f) \/ Rotate(f)
    \/ Deliver(f) \/ LoseReply(f)

Complete(l) ==
    \/ \E u \in Users, carriesGuest \in BOOLEAN : Provision(l, u, carriesGuest)
    \/ ProvisionFails(l)
    \/ CreateSession(l)
    \/ CreateSessionFails(l)

Next ==
    \/ \E l \in Logins : Complete(l) \/ Revoke(l)
    \/ \E f \in Refreshes : Refresh(f)
    \/ \E u \in Users : Request(u) \/ BecomeOverdue(u) \/ Overrun(u)
    \/ \E w \in Workers :
          \/ Claim(w) \/ Stop(w)
          \/ \E u \in Users : Purge(w, u) \/ PurgeRefused(w, u) \/ PurgeFails(w, u)

Spec == Init /\ [][Next]_vars

\* The ticker of a maintenance loop fires, a loop goes through its batch, time passes, and
\* transactions end.
FairSpec ==
    /\ Spec
    /\ \A w \in Workers : /\ WF_vars(Claim(w))
                          /\ \A u \in Users : WF_vars(Purge(w, u) \/ PurgeRefused(w, u))
    /\ \A u \in Users : WF_vars(BecomeOverdue(u))
    /\ \A f \in Refreshes : WF_vars(DetectReuse(f) \/ RefuseToken(f) \/ Rotate(f))

-----------------------------------------------------------------------------
(* Properties *)

\* A session has one unused token, however many requests present one at a time: Rotate
\* gives a successor to the first of them only.
OneLiveToken ==
    \A l \in Logins : session[l].issued > 0 =>
        Cardinality((1..session[l].issued) \ session[l].used) = 1

\* A session that was revoked stays so, and a rotation under way issues no token for it:
\* Revoke and Request wait for the row that Rotate has locked, and the other way round.
RevocationIsFinal ==
    [][\A l \in Logins : session[l].state \in {"revoked", "deleted"} =>
          /\ session'[l].state \in {session[l].state, "deleted"}
          /\ session'[l].issued = session[l].issued]_vars

\* Reuse is detected only after a lost reply or overlapping refreshes: a browser that does
\* one refresh at a time, and gets its answers, is never logged out as a thief.
NoFalseReuse == reused \subseteq unsure

\* Docs: on acceptance of a deletion all sessions are revoked immediately.  That holds for all
\* but those of a login that was under way.
ClosedAccountHasNoSession ==
    \A l \in Logins : session[l].state = "live" => account[session[l].user] = "active" \/ l \in late

\* An accepted deletion is carried out in spite of workers that die or overrun, unless the
\* account took over a guest session.
EventuallyPurged ==
    \A u \in Users : job[u] = "pending" ~> account[u] = "deleted" \/ guest = u

\* Docs: "a durable job removes account-owned content within 24 hours".
ContentRemoved == \A u \in Users : job[u] = "pending" ~> account[u] = "deleted"

=============================================================================
