-------------------------- MODULE OwnershipProofs --------------------------
(***************************************************************************)
(* Proofs about who is whom and who owns what: Accounts and Conversations, *)
(* for any number of users, logins, refreshes, workers, keys, requests,    *)
(* rows and every page size.                                               *)
(*                                                                         *)
(* Of Accounts: the types, one live token per session, reuse that is never *)
(* detected falsely, no session of a closed account, and revocation that   *)
(* is final.  Of Conversations: the types, a creation that is posted again *)
(* makes no second conversation, and lists that show everything once.      *)
(***************************************************************************)
EXTENDS Accounts, Conversations, TLAPS, FiniteSetTheorems, FunctionTheorems, SequenceTheorems

-----------------------------------------------------------------------------
(* Accounts: the inductive invariant *)

Unused(l) == (1..session[l].issued) \ session[l].used

\* A login creates its session once, at its end; a session has an owner, one unused token,
\* and goes with the row of its owner.
SessionsSound == \A l \in Logins :
    /\ login[l].stage # "done" => session[l].state = "none"
    /\ login[l].stage = "provisioned" => login[l].user \in Users
    /\ session[l].state = "none" =>
         session[l].user = NoUser /\ session[l].issued = 0 /\ session[l].used = {}
    /\ session[l].state # "none" =>
         session[l].user \in Users /\ \E t \in 1..session[l].issued : Unused(l) = {t}
    /\ session[l].state = "deleted" => account[session[l].user] = "deleted"

\* A refresh presents a token that was issued; from LockRefreshToken to its end it has the
\* row lock, and what it found out about the session remains true.
RefreshesSound == \A f \in Refreshes : LET l == refresh[f].session IN
    /\ refresh[f].stage \in {"sent", "locked", "answered"} =>
         refresh[f].token \in 1..session[l].issued
    /\ refresh[f].stage = "answered" => refresh[f].answer <= session[l].issued
    /\ refresh[f].stage = "locked" =>
         /\ lock[l] = f
         /\ session[l].state \in {"live", "revoked"}
         /\ refresh[f].seen = "unused" => session[l].state = "live"

\* A browser that refreshes once at a time and gets its answers: the one refresh under way
\* presents an unused token, and so does the cookie unless an answer is on its way.
Careful(l) ==
    /\ l \notin reused
    /\ \A f, g \in Refreshes : Pending(f, l) /\ Pending(g, l) => f = g
    /\ \A f \in Refreshes : refresh[f].session = l =>
         /\ refresh[f].stage \in {"sent", "locked"} => refresh[f].token \notin session[l].used
         /\ refresh[f].stage = "locked" => refresh[f].seen # "used"
         /\ refresh[f].stage = "answered" => refresh[f].answer \notin session[l].used
    /\ cookie[l] \in session[l].used =>
         \E f \in Refreshes : refresh[f].session = l /\ refresh[f].stage = "answered"

CarefulSound == \A l \in Logins : l \notin unsure => Careful(l)

RefreshRecord == [stage : {"idle", "sent", "locked", "answered", "done"},
                  session : Logins, token : Nat,
                  seen : {"nothing", "unused", "used", "revoked"}, answer : Nat]

SessionRecord == [state : {"none", "live", "revoked", "deleted"},
                  user : Users \cup {NoUser}, issued : Nat, used : SUBSET Token]

IInv ==
    /\ TypeOK
    /\ SessionsSound /\ RefreshesSound /\ CarefulSound
    /\ ClosedAccountHasNoSession

-----------------------------------------------------------------------------
(* Steps that touch neither sessions nor refreshes *)

LEMMA RotationSame ==
    ASSUME RefreshesSound, CarefulSound, UNCHANGED rotation
    PROVE  RefreshesSound' /\ CarefulSound'
  BY DEF RefreshesSound, CarefulSound, Careful, Pending, rotation

LEMMA InitIInv == Init => IInv
  <1> SUFFICES ASSUME Init PROVE IInv
    OBVIOUS
  <1>1. TypeOK
    BY FaultsAssumption DEF Init, TypeOK, NoSession, Unsent, Token
  <1>2. SessionsSound
    BY DEF Init, SessionsSound, NoSession
  <1>3. \A f \in Refreshes : refresh[f].stage = "idle"
    BY DEF Init, Unsent
  <1>4. RefreshesSound /\ CarefulSound
    BY <1>3 DEF Init, RefreshesSound, CarefulSound, Careful, Pending, NoSession
  <1>5. ClosedAccountHasNoSession
    BY DEF Init, ClosedAccountHasNoSession, NoSession
  <1> QED
    BY <1>1, <1>2, <1>4, <1>5 DEF IInv

LEMMA ProvisionStep ==
    ASSUME IInv, NEW l \in Logins, NEW u \in Users, NEW carriesGuest \in BOOLEAN,
           Provision(l, u, carriesGuest)
    PROVE  IInv'
  <1> USE DEF IInv
  <1>1. PICK stage \in {"provisioned", "done"} :
            login' = [login EXCEPT ![l] = [stage |-> stage, user |-> u]]
    BY DEF Provision
  <1>2. TypeOK'
    BY <1>1 DEF TypeOK, Provision, rotation, deletion
  <1>3. SessionsSound'
    BY <1>1 DEF TypeOK, SessionsSound, Provision, rotation, Unused
  <1>4. ClosedAccountHasNoSession'
    BY SentinelAssumption DEF TypeOK, ClosedAccountHasNoSession, Provision, rotation
  <1> QED
    BY <1>2, <1>3, <1>4, RotationSame DEF Provision

LEMMA LoginFailsStep ==
    ASSUME IInv, NEW l \in Logins, ProvisionFails(l) \/ CreateSessionFails(l)
    PROVE  IInv'
  <1> USE DEF IInv
  <1>1. /\ login' = [login EXCEPT ![l].stage = "done"]
        /\ login[l].stage # "done"
        /\ UNCHANGED <<account, guest, rotation, deletion, late>>
    BY DEF ProvisionFails, CreateSessionFails
  <1>2. TypeOK'
    <2>1. login' \in [Logins -> [stage : {"started", "provisioned", "done"}, user : Users \cup {NoUser}]]
      BY <1>1 DEF TypeOK
    <2> QED
      BY <1>1, <2>1 DEF TypeOK, rotation, deletion
  <1>3. SessionsSound'
    <2>1. \A k \in Logins : login'[k].stage \in {login[k].stage, "done"} /\ login'[k].user = login[k].user
      BY <1>1 DEF TypeOK
    <2>2. login[l].stage # "done" /\ session' = session /\ account' = account
      BY <1>1 DEF rotation
    <2>3. \A k \in Logins : login'[k].stage # "done" => login[k].stage # "done"
      BY <2>1
    <2>4. \A k \in Logins : login'[k].stage = "provisioned" => login[k].stage = "provisioned"
      BY <2>1
    <2> QED
      BY <2>1, <2>2, <2>3, <2>4 DEF SessionsSound, Unused
  <1>4. ClosedAccountHasNoSession'
    BY <1>1 DEF TypeOK, ClosedAccountHasNoSession, rotation
  <1> QED
    BY <1>1, <1>2, <1>3, <1>4, RotationSame

LEMMA CreateSessionStep ==
    ASSUME IInv, NEW l \in Logins, CreateSession(l)
    PROVE  IInv'
  <1> USE DEF IInv
  <1> DEFINE new == [state |-> "live", user |-> login[l].user, issued |-> 1, used |-> {}]
  <1>1. PICK token \in {0, 1} : cookie' = [cookie EXCEPT ![l] = token]
    BY DEF CreateSession
  <1>2. /\ session' = [session EXCEPT ![l] = new]
        /\ login[l].user \in Users
        /\ session[l].issued = 0
        /\ session[l].used = {}
        /\ session[l].state = "none"
    <2>1. InsertRefreshToken(CreateAuthSession(login[l].user)) = new
      BY DEF InsertRefreshToken, CreateAuthSession
    <2>2. login[l].stage = "provisioned"
      BY DEF CreateSession
    <2> QED
      BY <2>1, <2>2 DEF CreateSession, SessionsSound
  <1>3. TypeOK'
    <2>1. session' \in [Logins -> [state : {"none", "live", "revoked", "deleted"},
                                   user : Users \cup {NoUser}, issued : Nat, used : SUBSET Token]]
      BY <1>2 DEF TypeOK
    <2>2. login' \in [Logins -> [stage : {"started", "provisioned", "done"}, user : Users \cup {NoUser}]]
      BY DEF TypeOK, CreateSession
    <2>3. \A k \in Logins : cookie'[k] <= session'[k].issued /\ session'[k].used \subseteq 1..session'[k].issued
      BY <1>1, <1>2 DEF TypeOK
    <2> QED
      BY <1>1, <2>1, <2>2, <2>3 DEF TypeOK, CreateSession, deletion
  <1>4. SessionsSound'
    <2> SUFFICES ASSUME NEW k \in Logins
                 PROVE  /\ login'[k].stage # "done" => session'[k].state = "none"
                        /\ login'[k].stage = "provisioned" => login'[k].user \in Users
                        /\ session'[k].state = "none" =>
                             session'[k].user = NoUser /\ session'[k].issued = 0 /\ session'[k].used = {}
                        /\ session'[k].state # "none" =>
                             session'[k].user \in Users
                             /\ \E t \in 1..session'[k].issued : (1..session'[k].issued) \ session'[k].used = {t}
                        /\ session'[k].state = "deleted" => account'[session'[k].user] = "deleted"
      BY DEF SessionsSound, Unused
    <2>1. CASE k = l
      <3>1. session'[k] = new
        BY <2>1, <1>2 DEF TypeOK
      <3>4. login'[k].stage = "done"
        BY <2>1 DEF TypeOK, CreateSession
      <3>2. 1 \in 1..1 /\ (1..1) \ {} = {1}
        OBVIOUS
      <3>3. /\ new.state = "live" /\ new.user = login[l].user
            /\ new.issued = 1 /\ new.used = {}
        OBVIOUS
      <3> QED
        BY <3>1, <3>2, <3>3, <3>4, <1>2
    <2>2. CASE k # l
      BY <2>2, <1>2 DEF TypeOK, SessionsSound, CreateSession, Unused
    <2> QED
      BY <2>1, <2>2
  <1>5. \A f \in Refreshes : refresh[f].session = l =>
            refresh[f].stage \notin {"sent", "locked", "answered"}
    BY <1>2 DEF RefreshesSound
  <1>6. RefreshesSound'
    BY <1>2, <1>5 DEF TypeOK, RefreshesSound, CreateSession
  <1>7. CarefulSound'
    BY <1>1, <1>2, <1>5 DEF TypeOK, CarefulSound, Careful, Pending, CreateSession
  <1>8. ClosedAccountHasNoSession'
    BY <1>2 DEF TypeOK, ClosedAccountHasNoSession, CreateSession
  <1> QED
    BY <1>3, <1>4, <1>6, <1>7, <1>8

-----------------------------------------------------------------------------
(* Refreshes *)

\* Steps of a refresh that leave the rows of sessions as they are.
LEMMA SessionsSame ==
    ASSUME IInv, UNCHANGED <<session, people, late>>
    PROVE  SessionsSound' /\ ClosedAccountHasNoSession'
  BY DEF IInv, SessionsSound, ClosedAccountHasNoSession, people, Unused

LEMMA SendStep ==
    ASSUME IInv, NEW f \in Refreshes, Send(f)
    PROVE  IInv'
  <1> USE DEF IInv
  <1> DEFINE l == refresh[f].session
             new == [refresh[f] EXCEPT !.stage = "sent", !.token = cookie[l]]
  <1>1. refresh' = [refresh EXCEPT ![f] = new] /\ l \in Logins
    BY DEF Send, TypeOK
  <1>2. /\ new.stage = "sent" /\ new.token = cookie[l] /\ new.session = l
        /\ cookie[l] \in 1..session[l].issued
        /\ refresh[f].stage = "idle"
    BY <1>1 DEF TypeOK, Send
  <1>3. TypeOK'
    <2>1. new \in RefreshRecord
      <3>1. refresh[f] \in RefreshRecord /\ cookie[l] \in Nat
        BY <1>1 DEF TypeOK, RefreshRecord
      <3> QED
        BY <3>1 DEF RefreshRecord
    <2>2. unsure' \subseteq Logins
      BY <1>1 DEF Send, TypeOK
    <2> QED
      BY <1>1, <2>1, <2>2 DEF TypeOK, RefreshRecord, Send, people, deletion
  <1> HIDE DEF new
  <1>o. /\ refresh'[f] = new
        /\ \A g \in Refreshes : refresh'[g].session = refresh[g].session
        /\ \A g \in Refreshes : g # f => refresh'[g] = refresh[g]
    BY <1>1, <1>2 DEF TypeOK
  <1>4. RefreshesSound'
    BY <1>1, <1>2 DEF TypeOK, RefreshesSound, Send
  <1>5. CarefulSound'
    <2> SUFFICES ASSUME NEW k \in Logins, k \notin unsure'
                 PROVE  Careful(k)'
      BY DEF CarefulSound
    <2>1. Careful(k)
      BY DEF CarefulSound, Send
    <2>2. CASE k # l
      <3>1. \A g \in Refreshes : refresh'[g].session = k => refresh'[g] = refresh[g]
        BY <2>2, <1>o
      <3>2. \A g \in Refreshes : Pending(g, k)' <=> Pending(g, k)
        BY <2>2, <1>o DEF Pending
      <3>3. cookie' = cookie /\ session' = session /\ reused' = reused
        BY DEF Send
      <3>4. cookie[k] \in session[k].used =>
              \E g \in Refreshes : refresh'[g].session = k /\ refresh'[g].stage = "answered"
        BY <2>1, <2>2, <1>o DEF Careful
      <3>5. \A g \in Refreshes : refresh'[g].session = k =>
              /\ refresh'[g].stage \in {"sent", "locked"} => refresh'[g].token \notin session[k].used
              /\ refresh'[g].stage = "locked" => refresh'[g].seen # "used"
              /\ refresh'[g].stage = "answered" => refresh'[g].answer \notin session[k].used
        BY <2>1, <3>1, <1>o DEF Careful
      <3> QED
        BY <2>1, <3>2, <3>3, <3>4, <3>5 DEF Careful
    <2>3. CASE k = l
      <3>1. \A g \in Refreshes : ~Pending(g, l)
        BY <2>3 DEF Send
      <3>2. cookie[l] \notin session[l].used
        BY <2>1, <2>3, <3>1 DEF Careful, Pending
      <3> QED
        BY <2>1, <2>3, <3>1, <3>2, <1>o, <1>2 DEF Careful, Pending, Send
    <2> QED
      BY <2>2, <2>3
  <1> QED
    BY <1>3, <1>4, <1>5, SessionsSame DEF Send

LEMMA LockTokenStep ==
    ASSUME IInv, NEW f \in Refreshes, LockToken(f)
    PROVE  IInv'
  <1> USE DEF IInv
  <1> DEFINE l == refresh[f].session
             new == [refresh[f] EXCEPT !.stage = "locked", !.seen = Verdict(l, refresh[f].token)]
  <1>1. refresh' = [refresh EXCEPT ![f] = new] /\ l \in Logins
    BY DEF LockToken, TypeOK
  <1>2. /\ new.stage = "locked" /\ new.token = refresh[f].token /\ new.session = l
        /\ new.seen = Verdict(l, refresh[f].token)
        /\ refresh[f].stage = "sent"
        /\ refresh[f].token \in 1..session[l].issued
    BY <1>1 DEF TypeOK, LockToken, RefreshesSound
  <1>3. TypeOK'
    <2>1. new \in RefreshRecord
      <3>1. /\ refresh[f] \in RefreshRecord
            /\ Verdict(l, refresh[f].token) \in {"unused", "used", "revoked"}
        BY <1>1 DEF TypeOK, RefreshRecord, Verdict
      <3> QED
        BY <3>1 DEF RefreshRecord
    <2> QED
      BY <1>1, <2>1 DEF TypeOK, RefreshRecord, LockToken, people, deletion
  <1>4. session[l].state \in {"live", "revoked"}
    BY <1>1, <1>2 DEF TypeOK, SessionsSound, LockToken
  <1>5. /\ Verdict(l, refresh[f].token) = "unused" => session[l].state = "live"
        /\ refresh[f].token \notin session[l].used => Verdict(l, refresh[f].token) # "used"
    BY <1>4 DEF Verdict
  <1> HIDE DEF new
  <1>o. /\ refresh'[f] = new
        /\ \A g \in Refreshes : refresh'[g].session = refresh[g].session
        /\ \A g \in Refreshes : g # f => refresh'[g] = refresh[g]
    BY <1>1, <1>2 DEF TypeOK
  <1>6. RefreshesSound'
    <2> SUFFICES ASSUME NEW g \in Refreshes
                 PROVE  LET k == refresh'[g].session IN
                        /\ refresh'[g].stage \in {"sent", "locked", "answered"} =>
                             refresh'[g].token \in 1..session[k].issued
                        /\ refresh'[g].stage = "answered" => refresh'[g].answer <= session[k].issued
                        /\ refresh'[g].stage = "locked" =>
                             /\ lock'[k] = g
                             /\ session[k].state \in {"live", "revoked"}
                             /\ refresh'[g].seen = "unused" => session[k].state = "live"
      BY DEF RefreshesSound, LockToken
    <2>1. CASE g = f
      BY <2>1, <1>o, <1>1, <1>2, <1>4, <1>5 DEF TypeOK, LockToken
    <2>2. CASE g # f
      <3>1. lock'[refresh[g].session] = lock[refresh[g].session] \/ refresh[g].session = l
        BY DEF TypeOK, LockToken
      <3>2. lock[l] = Nobody
        BY DEF LockToken
      <3> QED
        BY <2>2, <3>1, <3>2, <1>o, SentinelAssumption DEF RefreshesSound
    <2> QED
      BY <2>1, <2>2
  <1>7. CarefulSound'
    <2> SUFFICES ASSUME NEW k \in Logins, k \notin unsure
                 PROVE  Careful(k)'
      BY DEF CarefulSound, LockToken
    <2>1. Careful(k) /\ cookie' = cookie /\ session' = session /\ reused' = reused
      BY DEF CarefulSound, LockToken
    <2>2. \A g \in Refreshes : Pending(g, k)' <=> Pending(g, k)
      BY <1>o, <1>2 DEF Pending
    <2>3. \A g \in Refreshes : g # f => refresh'[g] = refresh[g]
      BY <1>o
    <2>4. cookie[k] \in session[k].used =>
            \E g \in Refreshes : refresh'[g].session = k /\ refresh'[g].stage = "answered"
      BY <2>1, <2>3, <1>2, <1>o DEF Careful
    <2>5. \A g \in Refreshes : refresh'[g].session = k =>
            /\ refresh'[g].stage \in {"sent", "locked"} => refresh'[g].token \notin session[k].used
            /\ refresh'[g].stage = "locked" => refresh'[g].seen # "used"
            /\ refresh'[g].stage = "answered" => refresh'[g].answer \notin session[k].used
      BY <2>1, <2>3, <1>2, <1>o, <1>5 DEF Careful
    <2> QED
      BY <2>1, <2>2, <2>4, <2>5 DEF Careful
  <1> QED
    BY <1>3, <1>6, <1>7, SessionsSame DEF LockToken

LEMMA RefreshFailsStep ==
    ASSUME IInv, NEW f \in Refreshes, RefreshFails(f)
    PROVE  IInv'
  <1> USE DEF IInv
  <1> DEFINE l == refresh[f].session
             new == [refresh[f] EXCEPT !.stage = "answered", !.answer = 0]
  <1>1. refresh' = [refresh EXCEPT ![f] = new] /\ l \in Logins
    BY DEF RefreshFails, TypeOK
  <1>2. /\ new.stage = "answered" /\ new.token = refresh[f].token /\ new.session = l
        /\ new.answer = 0
        /\ refresh[f].stage \in {"sent", "locked"}
        /\ refresh[f].token \in 1..session[l].issued
        /\ 0 \notin session[l].used
    BY <1>1 DEF TypeOK, RefreshFails, RefreshesSound
  <1>3. TypeOK'
    <2>1. new \in RefreshRecord
      <3>1. refresh[f] \in RefreshRecord
        BY <1>1 DEF TypeOK, RefreshRecord
      <3> QED
        BY <3>1 DEF RefreshRecord
    <2> QED
      BY <1>1, <2>1 DEF TypeOK, RefreshRecord, RefreshFails, people, deletion
  <1> HIDE DEF new
  <1>o. /\ refresh'[f] = new
        /\ \A g \in Refreshes : refresh'[g].session = refresh[g].session
        /\ \A g \in Refreshes : g # f => refresh'[g] = refresh[g]
    BY <1>1, <1>2 DEF TypeOK
  <1>4. RefreshesSound'
    BY <1>1, <1>2, SentinelAssumption DEF TypeOK, RefreshesSound, RefreshFails
  <1>5. CarefulSound'
    <2> SUFFICES ASSUME NEW k \in Logins, k \notin unsure
                 PROVE  Careful(k)'
      BY DEF CarefulSound, RefreshFails
    <2>1. Careful(k) /\ cookie' = cookie /\ session' = session /\ reused' = reused
      BY DEF CarefulSound, RefreshFails
    <2>2. \A g \in Refreshes : Pending(g, k)' <=> Pending(g, k)
      BY <1>o, <1>2 DEF Pending
    <2>3. \A g \in Refreshes : g # f => refresh'[g] = refresh[g]
      BY <1>o
    <2>4. cookie[k] \in session[k].used =>
            \E g \in Refreshes : refresh'[g].session = k /\ refresh'[g].stage = "answered"
      BY <2>1, <2>3, <1>2, <1>o DEF Careful
    <2>5. \A g \in Refreshes : refresh'[g].session = k =>
            /\ refresh'[g].stage \in {"sent", "locked"} => refresh'[g].token \notin session[k].used
            /\ refresh'[g].stage = "locked" => refresh'[g].seen # "used"
            /\ refresh'[g].stage = "answered" => refresh'[g].answer \notin session[k].used
      BY <2>1, <2>3, <1>2, <1>o DEF Careful
    <2> QED
      BY <2>1, <2>2, <2>4, <2>5 DEF Careful
  <1> QED
    BY <1>3, <1>4, <1>5, SessionsSame DEF RefreshFails

\* The end of a transaction that holds the row lock: whatever row it leaves, the other
\* refreshes of the session have no lock, and none of them is under way if the browser is
\* careful.
LEMMA AnswerStep ==
    ASSUME IInv, NEW f \in Refreshes, NEW token \in Nat, Answer(f, token),
           NEW l \in Logins, l = refresh[f].session, NEW row \in SessionRecord,
           session' = [session EXCEPT ![l] = row],
           row.user = session[l].user, row.state \in {session[l].state, "revoked"},
           row.issued >= session[l].issued, row.used \subseteq 1..row.issued,
           session[l].used \subseteq row.used,
           \E t \in 1..row.issued : (1..row.issued) \ row.used = {t},
           token <= row.issued, token \notin row.used,
           reused' = reused \/ (l \in unsure /\ reused' = reused \cup {l})
    PROVE  IInv'
  <1> USE DEF IInv
  <1> DEFINE new == [refresh[f] EXCEPT !.stage = "answered", !.answer = token]
  <1>1. refresh' = [refresh EXCEPT ![f] = new]
    BY DEF Answer, TypeOK
  <1>2. /\ new.stage = "answered" /\ new.token = refresh[f].token /\ new.session = l
        /\ new.answer = token
    BY DEF TypeOK
  <1>3. /\ refresh[f].stage = "locked" /\ lock[l] = f
        /\ session[l].state \in {"live", "revoked"}
        /\ refresh[f].token \in 1..session[l].issued
        /\ session[l].issued \in Nat /\ row.issued \in Nat
    BY DEF TypeOK, RefreshesSound, Answer, SessionRecord
  <1>4. new \in RefreshRecord
    <2>1. refresh[f] \in RefreshRecord
      BY DEF TypeOK, RefreshRecord
    <2> QED
      BY <2>1 DEF RefreshRecord
  <1> HIDE DEF new
  <1>o. /\ refresh'[f] = new
        /\ \A g \in Refreshes : refresh'[g].session = refresh[g].session
        /\ \A g \in Refreshes : g # f => refresh'[g] = refresh[g]
    BY <1>1, <1>2 DEF TypeOK
  <1>s. session'[l] = row /\ \A k \in Logins : k # l => session'[k] = session[k]
    BY DEF TypeOK
  <1>5. TypeOK'
    <2>1. session' \in [Logins -> SessionRecord]
      BY DEF TypeOK, SessionRecord
    <2>2. refresh' \in [Refreshes -> RefreshRecord]
      BY <1>1, <1>4 DEF TypeOK, RefreshRecord
    <2>3. \A k \in Logins : cookie'[k] <= session'[k].issued /\ session'[k].used \subseteq 1..session'[k].issued
      BY <1>s, <1>3 DEF TypeOK, Answer
    <2>4. reused' \subseteq Logins
      BY DEF TypeOK
    <2> QED
      BY <2>1, <2>2, <2>3, <2>4 DEF TypeOK, RefreshRecord, SessionRecord, Answer, people, deletion
  <1>6. SessionsSound'
    <2>1. row.state \in {"live", "revoked"} /\ row.user \in Users
      BY <1>3 DEF SessionsSound
    <2> SUFFICES ASSUME NEW k \in Logins
                 PROVE  /\ login[k].stage # "done" => session'[k].state = "none"
                        /\ login[k].stage = "provisioned" => login[k].user \in Users
                        /\ session'[k].state = "none" =>
                             session'[k].user = NoUser /\ session'[k].issued = 0 /\ session'[k].used = {}
                        /\ session'[k].state # "none" =>
                             session'[k].user \in Users
                             /\ \E t \in 1..session'[k].issued : (1..session'[k].issued) \ session'[k].used = {t}
                        /\ session'[k].state = "deleted" => account[session'[k].user] = "deleted"
      BY DEF SessionsSound, Unused, Answer, people
    <2>2. CASE k = l
      BY <2>1, <2>2, <1>s, <1>3 DEF SessionsSound
    <2>3. CASE k # l
      BY <2>3, <1>s DEF SessionsSound, Unused
    <2> QED
      BY <2>2, <2>3
  <1>7. RefreshesSound'
    <2> SUFFICES ASSUME NEW g \in Refreshes
                 PROVE  LET k == refresh'[g].session IN
                        /\ refresh'[g].stage \in {"sent", "locked", "answered"} =>
                             refresh'[g].token \in 1..session'[k].issued
                        /\ refresh'[g].stage = "answered" => refresh'[g].answer <= session'[k].issued
                        /\ refresh'[g].stage = "locked" =>
                             /\ lock'[k] = g
                             /\ session'[k].state \in {"live", "revoked"}
                             /\ refresh'[g].seen = "unused" => session'[k].state = "live"
      BY DEF RefreshesSound
    <2>1. CASE g = f
      BY <2>1, <1>o, <1>s, <1>2, <1>3
    <2>2. CASE g # f /\ refresh[g].session = l
      BY <2>2, <1>o, <1>s, <1>3 DEF RefreshesSound, TypeOK
    <2>3. CASE g # f /\ refresh[g].session # l
      <3>1. lock'[refresh[g].session] = lock[refresh[g].session]
        BY <2>3 DEF TypeOK, Answer
      <3> QED
        BY <2>3, <3>1, <1>o, <1>s DEF RefreshesSound, TypeOK
    <2> QED
      BY <2>1, <2>2, <2>3
  <1>8. CarefulSound'
    <2> SUFFICES ASSUME NEW k \in Logins, k \notin unsure
                 PROVE  Careful(k)'
      BY DEF CarefulSound, Answer
    <2>1. /\ Careful(k) /\ cookie' = cookie
          /\ k \notin reused'
      BY DEF CarefulSound, Careful, Answer
    <2>2. \A g \in Refreshes : Pending(g, k)' <=> Pending(g, k)
      BY <1>o, <1>2, <1>3 DEF Pending
    <2>3. cookie[k] \in session'[k].used =>
            \E g \in Refreshes : refresh'[g].session = k /\ refresh'[g].stage = "answered"
      BY <2>1, <1>2, <1>3, <1>o, <1>s DEF Careful
    <2>4. ASSUME NEW g \in Refreshes, refresh'[g].session = k
          PROVE  /\ refresh'[g].stage \in {"sent", "locked"} => refresh'[g].token \notin session'[k].used
                 /\ refresh'[g].stage = "locked" => refresh'[g].seen # "used"
                 /\ refresh'[g].stage = "answered" => refresh'[g].answer \notin session'[k].used
      <3>1. CASE g = f
        <4>1. k = l
          BY <3>1, <2>4, <1>o, <1>2
        <4> QED
          BY <3>1, <4>1, <1>o, <1>s, <1>2
      <3>2. CASE g # f /\ k = l
        <4>1. ~Pending(g, l)
          BY <2>1, <3>2, <1>3 DEF Careful, Pending
        <4> QED
          BY <4>1, <3>2, <2>4, <1>o DEF Pending
      <3>3. CASE g # f /\ k # l
        BY <3>3, <2>4, <2>1, <1>o, <1>s DEF Careful
      <3> QED
        BY <3>1, <3>2, <3>3, <1>o, <2>4
    <2> QED
      BY <2>1, <2>2, <2>3, <2>4 DEF Careful
  <1>9. ClosedAccountHasNoSession'
    BY <1>s DEF ClosedAccountHasNoSession, Answer, people
  <1> QED
    BY <1>5, <1>6, <1>7, <1>8, <1>9

\* What a refresh finds when it has the lock.
LEMMA LockedFacts ==
    ASSUME IInv, NEW f \in Refreshes, refresh[f].stage = "locked",
           NEW l, l = refresh[f].session
    PROVE  /\ l \in Logins /\ session[l] \in SessionRecord
           /\ session[l].used \subseteq 1..session[l].issued
           /\ refresh[f].token \in 1..session[l].issued
           /\ session[l].state \in {"live", "revoked"}
           /\ \E t \in 1..session[l].issued : Unused(l) = {t}
  <1>1. l \in Logins /\ session[l] \in SessionRecord /\ session[l].used \subseteq 1..session[l].issued
    BY DEF IInv, TypeOK, SessionRecord
  <1>2. refresh[f].token \in 1..session[l].issued /\ session[l].state \in {"live", "revoked"}
    BY DEF IInv, RefreshesSound
  <1>3. session[l].state # "none"
    BY <1>2
  <1>4. \E t \in 1..session[l].issued : Unused(l) = {t}
    BY <1>1, <1>3 DEF IInv, SessionsSound
  <1> QED
    BY <1>1, <1>2, <1>4

LEMMA DetectReuseStep ==
    ASSUME IInv, NEW f \in Refreshes, DetectReuse(f)
    PROVE  IInv'
  <1> DEFINE l == refresh[f].session
             row == [session[l] EXCEPT !.state = "revoked"]
  <1>1. Answer(f, 0) /\ refresh[f].stage = "locked" /\ reused' = reused \cup {l}
    BY DEF DetectReuse, Answer
  <1>2. /\ l \in Logins /\ session[l] \in SessionRecord
        /\ session[l].used \subseteq 1..session[l].issued
        /\ \E t \in 1..session[l].issued : Unused(l) = {t}
    BY <1>1, LockedFacts
  <1>3. l \in unsure
    BY <1>1, <1>2 DEF IInv, CarefulSound, Careful, DetectReuse
  <1>4. /\ row \in SessionRecord /\ row.user = session[l].user /\ row.state = "revoked"
        /\ row.issued = session[l].issued /\ row.used = session[l].used
        /\ session[l].issued \in Nat
    BY <1>2 DEF SessionRecord
  <1>5. session' = [session EXCEPT ![l] = row]
    BY DEF DetectReuse, RevokeSessionFamily
  <1> HIDE DEF row, l
  <1>6. l = refresh[f].session
    BY DEF l
  <1>7. 0 \notin row.used /\ 0 <= row.issued
    BY <1>2, <1>4
  <1>8. \E t \in 1..row.issued : (1..row.issued) \ row.used = {t}
    BY <1>2, <1>4 DEF Unused
  <1>9. /\ row.issued >= session[l].issued /\ row.used \subseteq 1..row.issued
        /\ session[l].used \subseteq row.used /\ row.state \in {session[l].state, "revoked"}
        /\ 0 \in Nat
    BY <1>2, <1>4
  <1> QED
    BY <1>1, <1>2, <1>3, <1>4, <1>5, <1>6, <1>7, <1>8, <1>9, AnswerStep

LEMMA RefuseTokenStep ==
    ASSUME IInv, NEW f \in Refreshes, RefuseToken(f)
    PROVE  IInv'
  <1> DEFINE l == refresh[f].session
             row == session[l]
  <1>1. Answer(f, 0) /\ refresh[f].stage = "locked" /\ reused' = reused
    BY DEF RefuseToken, Answer
  <1>2. /\ l \in Logins /\ row \in SessionRecord
        /\ row.used \subseteq 1..row.issued
        /\ \E t \in 1..row.issued : Unused(l) = {t}
    BY <1>1, LockedFacts
  <1>3. session' = [session EXCEPT ![l] = row]
    BY <1>2 DEF RefuseToken, IInv, TypeOK
  <1>4. 0 \notin row.used /\ 0 <= row.issued /\ row.issued \in Nat
    BY <1>2 DEF SessionRecord
  <1>5. l = refresh[f].session /\ row = session[l]
    OBVIOUS
  <1>6. \E t \in 1..row.issued : (1..row.issued) \ row.used = {t}
    BY <1>2 DEF Unused
  <1> HIDE DEF row, l
  <1>7. /\ row.issued >= session[l].issued /\ row.user = session[l].user
        /\ session[l].used \subseteq row.used /\ row.state \in {session[l].state, "revoked"}
        /\ 0 \in Nat
    BY <1>4, <1>5
  <1> QED
    BY <1>1, <1>2, <1>3, <1>4, <1>5, <1>6, <1>7, AnswerStep

LEMMA RotateStep ==
    ASSUME IInv, NEW f \in Refreshes, Rotate(f)
    PROVE  IInv'
  <1> DEFINE l == refresh[f].session
             next == session[l].issued + 1
             row == InsertRefreshToken(MarkRefreshTokenUsed(session[l], refresh[f].token))
  <1>1. PICK answer \in {0, next} : Answer(f, answer)
    BY DEF Rotate
  <1>2. refresh[f].stage = "locked" /\ reused' = reused
    BY <1>1 DEF Rotate, Answer
  <1>3. /\ l \in Logins /\ session[l] \in SessionRecord
        /\ session[l].used \subseteq 1..session[l].issued
        /\ refresh[f].token \in 1..session[l].issued
        /\ \E t \in 1..session[l].issued : Unused(l) = {t}
    BY <1>2, LockedFacts
  <1>4. /\ row.user = session[l].user /\ row.state = session[l].state
        /\ row.issued = next /\ row.used = session[l].used \cup {refresh[f].token}
        /\ row \in SessionRecord /\ session[l].issued \in Nat
    <2> DEFINE s == session[l]
               marked == [s EXCEPT !.used = @ \cup {refresh[f].token}]
    <2>1. s \in SessionRecord /\ refresh[f].token \in Token /\ s.issued \in Nat
      BY <1>3 DEF SessionRecord, Token
    <2>2. /\ marked \in SessionRecord /\ marked.user = s.user /\ marked.state = s.state
          /\ marked.issued = s.issued /\ marked.used = s.used \cup {refresh[f].token}
      BY <2>1 DEF SessionRecord
    <2>3. row = [marked EXCEPT !.issued = @ + 1]
      BY DEF InsertRefreshToken, MarkRefreshTokenUsed
    <2> HIDE DEF marked, row
    <2> QED
      BY <2>1, <2>2, <2>3 DEF SessionRecord
  <1>5. session' = [session EXCEPT ![l] = row]
    BY <1>3 DEF Rotate, IInv, TypeOK
  <1>6. (1..next) \ row.used = {next}
    <2>1. refresh[f].token \in Unused(l)
      BY <1>3 DEF Rotate, Unused
    <2>2. Unused(l) = {refresh[f].token}
      BY <2>1, <1>3
    <2> QED
      BY <2>2, <1>3, <1>4 DEF Unused
  <1>7. /\ answer \in Nat /\ answer <= row.issued /\ answer \notin row.used
        /\ row.used \subseteq 1..row.issued /\ row.issued >= session[l].issued
        /\ next \in 1..row.issued
    BY <1>1, <1>3, <1>4
  <1>8. l = refresh[f].session
    OBVIOUS
  <1> HIDE DEF row, l, next
  <1> QED
    BY <1>1, <1>2, <1>3, <1>4, <1>5, <1>6, <1>7, <1>8, AnswerStep

LEMMA DoneStep ==
    ASSUME IInv, NEW f \in Refreshes, Deliver(f) \/ LoseReply(f)
    PROVE  IInv'
  <1> USE DEF IInv
  <1> DEFINE l == refresh[f].session
             new == [refresh[f] EXCEPT !.stage = "done"]
  <1>1. /\ refresh' = [refresh EXCEPT ![f] = new] /\ l \in Logins
        /\ refresh[f].stage = "answered"
        /\ UNCHANGED <<people, session, lock, reused, deletion, late>>
    BY DEF Deliver, LoseReply, TypeOK
  <1>2. /\ new.stage = "done" /\ new.session = l
        /\ refresh[f].answer \in Nat /\ refresh[f].answer <= session[l].issued
    BY <1>1 DEF TypeOK, RefreshesSound
  <1>3. \/ cookie' = [cookie EXCEPT ![l] = refresh[f].answer] /\ unsure' = unsure
        \/ cookie' = cookie /\ unsure' = unsure \cup {l}
    BY DEF Deliver, LoseReply
  <1>4. TypeOK'
    <2>1. refresh' \in [Refreshes -> RefreshRecord]
      <3>1. refresh[f] \in RefreshRecord
        BY DEF TypeOK, RefreshRecord
      <3>2. new \in RefreshRecord
        BY <3>1 DEF RefreshRecord
      <3> QED
        BY <1>1, <3>2 DEF TypeOK, RefreshRecord
    <2>2. cookie' \in [Logins -> Nat] /\ \A k \in Logins : cookie'[k] <= session[k].issued
      BY <1>1, <1>2, <1>3 DEF TypeOK
    <2>3. unsure' \subseteq Logins
      BY <1>1, <1>3 DEF TypeOK
    <2> QED
      BY <1>1, <2>1, <2>2, <2>3 DEF TypeOK, RefreshRecord, people, deletion
  <1> HIDE DEF new
  <1>o. /\ refresh'[f] = new
        /\ \A g \in Refreshes : refresh'[g].session = refresh[g].session
        /\ \A g \in Refreshes : g # f => refresh'[g] = refresh[g]
    BY <1>1, <1>2 DEF TypeOK
  <1>5. RefreshesSound'
    BY <1>1, <1>2, <1>o DEF RefreshesSound
  <1>6. CarefulSound'
    <2> SUFFICES ASSUME NEW k \in Logins, k \notin unsure'
                 PROVE  Careful(k)'
      BY DEF CarefulSound
    <2>1. Careful(k) /\ k \notin reused' /\ session' = session
      BY <1>1, <1>3 DEF CarefulSound, Careful
    <2>2. \A g \in Refreshes : Pending(g, k)' => Pending(g, k)
      BY <1>o, <1>2 DEF Pending
    <2>3. cookie'[k] \notin session[k].used \/ k # l
      BY <1>1, <1>2, <1>3, <2>1 DEF TypeOK, Careful
    <2>4. k # l => cookie'[k] = cookie[k]
      BY <1>1, <1>3 DEF TypeOK
    <2>5. cookie'[k] \in session[k].used =>
            \E g \in Refreshes : refresh'[g].session = k /\ refresh'[g].stage = "answered"
      BY <2>1, <2>3, <2>4, <1>o DEF Careful
    <2>6. \A g \in Refreshes : refresh'[g].session = k =>
            /\ refresh'[g].stage \in {"sent", "locked"} => refresh'[g].token \notin session[k].used
            /\ refresh'[g].stage = "locked" => refresh'[g].seen # "used"
            /\ refresh'[g].stage = "answered" => refresh'[g].answer \notin session[k].used
      BY <2>1, <1>2, <1>o DEF Careful
    <2> QED
      BY <2>1, <2>2, <2>5, <2>6 DEF Careful
  <1> QED
    BY <1>1, <1>4, <1>5, <1>6, SessionsSame

LEMMA RevokeStep ==
    ASSUME IInv, NEW l \in Logins, Revoke(l)
    PROVE  IInv'
  <1> USE DEF IInv
  <1> DEFINE row == [session[l] EXCEPT !.state = "revoked"]
  <1>1. PICK token \in {0, cookie[l]} : cookie' = [cookie EXCEPT ![l] = token]
    BY DEF Revoke
  <1>2. /\ session' = [session EXCEPT ![l] = row]
        /\ session[l].state = "live" /\ lock[l] = Nobody
        /\ UNCHANGED <<people, lock, refresh, reused, unsure, deletion, late>>
    BY DEF Revoke, TypeOK
  <1>3. /\ row.state = "revoked" /\ row.user = session[l].user
        /\ row.issued = session[l].issued /\ row.used = session[l].used
        /\ row \in SessionRecord
    <2>1. session[l] \in SessionRecord
      BY DEF TypeOK, SessionRecord
    <2> QED
      BY <2>1 DEF SessionRecord
  <1> HIDE DEF row
  <1>s. session'[l] = row /\ \A k \in Logins : k # l => session'[k] = session[k]
    BY <1>2 DEF TypeOK
  <1>t. \A k \in Logins : session'[k].issued = session[k].issued /\ session'[k].used = session[k].used
                          /\ session'[k].user = session[k].user
    BY <1>3, <1>s
  <1>4. TypeOK'
    <2>1. session' \in [Logins -> SessionRecord]
      BY <1>2, <1>3 DEF TypeOK, SessionRecord
    <2>2. cookie' \in [Logins -> Nat] /\ \A k \in Logins : cookie'[k] \in {0, cookie[k]}
      BY <1>1 DEF TypeOK
    <2>3. \A k \in Logins : cookie'[k] <= session'[k].issued /\ session'[k].used \subseteq 1..session'[k].issued
      BY <1>t, <2>2 DEF TypeOK
    <2> QED
      BY <1>2, <2>1, <2>2, <2>3 DEF TypeOK, SessionRecord, people, deletion
  <1>5. SessionsSound'
    <2> SUFFICES ASSUME NEW k \in Logins
                 PROVE  /\ login[k].stage # "done" => session'[k].state = "none"
                        /\ login[k].stage = "provisioned" => login[k].user \in Users
                        /\ session'[k].state = "none" =>
                             session'[k].user = NoUser /\ session'[k].issued = 0 /\ session'[k].used = {}
                        /\ session'[k].state # "none" =>
                             session'[k].user \in Users
                             /\ \E t \in 1..session'[k].issued : (1..session'[k].issued) \ session'[k].used = {t}
                        /\ session'[k].state = "deleted" => account[session'[k].user] = "deleted"
      BY <1>2 DEF SessionsSound, Unused, people
    <2>1. CASE k = l
      <3>1. /\ session[l].user \in Users /\ login[l].stage = "done"
            /\ \E t \in 1..session[l].issued : Unused(l) = {t}
        BY <1>2 DEF SessionsSound
      <3> QED
        BY <2>1, <3>1, <1>s, <1>3 DEF Unused
    <2>2. CASE k # l
      BY <2>2, <1>s DEF SessionsSound, Unused
    <2> QED
      BY <2>1, <2>2
  <1>6. RefreshesSound'
    BY <1>2, <1>3, <1>s, <1>t, SentinelAssumption DEF TypeOK, RefreshesSound
  <1>7. CarefulSound'
    <2>1. \A k \in Logins : cookie'[k] \in {0, cookie[k]} /\ 0 \notin session[k].used
      BY <1>1 DEF TypeOK
    <2> QED
      BY <2>1, <1>2, <1>t DEF CarefulSound, Careful, Pending
  <1>8. ClosedAccountHasNoSession'
    BY <1>2, <1>3, <1>s DEF ClosedAccountHasNoSession, people
  <1> QED
    BY <1>4, <1>5, <1>6, <1>7, <1>8

-----------------------------------------------------------------------------
(* Deletion *)

\* All sessions of u end; none of them has its row locked while it lives.
LEMMA EndFacts ==
    ASSUME IInv, NEW u \in Users, NEW state \in {"revoked", "deleted"}, session' = End(u, state)
    PROVE  /\ session' \in [Logins -> SessionRecord]
           /\ \A l \in Logins :
                /\ session'[l].issued = session[l].issued /\ session'[l].used = session[l].used
                /\ session'[l].user = session[l].user
                /\ session'[l].state = IF session[l].user = u THEN state ELSE session[l].state
  <1>1. \A l \in Logins : session[l] \in SessionRecord
    BY DEF IInv, TypeOK, SessionRecord
  <1>2. \A l \in Logins : session'[l] =
            IF session[l].user = u THEN [session[l] EXCEPT !.state = state] ELSE session[l]
    BY DEF End, SessionsOf
  <1>3. ASSUME NEW l \in Logins
        PROVE  /\ session'[l] \in SessionRecord
               /\ session'[l].issued = session[l].issued /\ session'[l].used = session[l].used
               /\ session'[l].user = session[l].user
               /\ session'[l].state = IF session[l].user = u THEN state ELSE session[l].state
    BY <1>1, <1>2 DEF SessionRecord
  <1> QED
    BY <1>3 DEF End

LEMMA CarefulEnd ==
    ASSUME IInv, UNCHANGED <<refresh, cookie, reused, unsure>>,
           \A l \in Logins : session'[l].used = session[l].used
    PROVE  CarefulSound'
  BY DEF IInv, CarefulSound, Careful, Pending

LEMMA RequestStep ==
    ASSUME IInv, NEW u \in Users, Request(u)
    PROVE  IInv'
  <1> USE DEF IInv
  <1>1. /\ session' \in [Logins -> SessionRecord]
        /\ \A l \in Logins :
             /\ session'[l].issued = session[l].issued /\ session'[l].used = session[l].used
             /\ session'[l].user = session[l].user
             /\ session'[l].state = IF session[l].user = u THEN "revoked" ELSE session[l].state
    BY EndFacts DEF Request
  <1>2. account' = [account EXCEPT ![u] = "deletion_pending"] /\ account[u] = "active"
    BY DEF Request
  <1>3. \A l \in Logins : session[l].user = u => session[l].state \in {"live", "revoked"}
    BY <1>2, SentinelAssumption DEF TypeOK, SessionsSound
  <1>4. \A l \in Logins : session[l].user = u /\ session[l].state = "live" => lock[l] = Nobody
    BY DEF Request, SessionsOf
  <1>5. TypeOK'
    <2>1. \A k \in Logins : cookie[k] <= session'[k].issued /\ session'[k].used \subseteq 1..session'[k].issued
      BY <1>1 DEF TypeOK
    <2> QED
      BY <1>1, <1>2, <2>1 DEF TypeOK, SessionRecord, Request, CreateAccountDeletionJob
  <1>6. SessionsSound'
    <2>1. \A k \in Logins : session'[k].state # "none" => session[k].state # "none"
      BY <1>1, <1>3
    <2>2. \A k \in Logins : session[k].state = "none" => session'[k].state = "none"
      BY <1>1, <1>3
    <2>3. \A v \in Users : account[v] = "deleted" => account'[v] = "deleted"
      BY <1>2 DEF TypeOK
    <2>4. \A k \in Logins : session'[k].state = "deleted" => account'[session'[k].user] = "deleted"
      BY <1>1, <1>2, <1>3, <2>3 DEF TypeOK, SessionsSound
    <2>5. \A k \in Logins : Unused(k)' = Unused(k)
      BY <1>1 DEF Unused
    <2> QED
      BY <1>1, <2>1, <2>2, <2>4, <2>5 DEF SessionsSound, Request
  <1>7. RefreshesSound'
    BY <1>1, <1>3, <1>4, SentinelAssumption DEF TypeOK, RefreshesSound, Request
  <1>8. CarefulSound'
    BY <1>1, CarefulEnd DEF Request
  <1>9. ClosedAccountHasNoSession'
    BY <1>1, <1>2 DEF TypeOK, ClosedAccountHasNoSession, Request
  <1> QED
    BY <1>5, <1>6, <1>7, <1>8, <1>9

LEMMA PurgeStep ==
    ASSUME IInv, NEW w \in Workers, NEW u \in Users, Purge(w, u)
    PROVE  IInv'
  <1> USE DEF IInv
  <1>1. /\ session' \in [Logins -> SessionRecord]
        /\ \A l \in Logins :
             /\ session'[l].issued = session[l].issued /\ session'[l].used = session[l].used
             /\ session'[l].user = session[l].user
             /\ session'[l].state = IF session[l].user = u THEN "deleted" ELSE session[l].state
    BY EndFacts DEF Purge
  <1>2. account' = [account EXCEPT ![u] = "deleted"]
    BY DEF Purge
  <1>3. \A l \in Logins : session[l].user = u => session[l].state # "none" /\ lock[l] = Nobody
    BY SentinelAssumption DEF SessionsSound, Purge, Unlocked, SessionsOf
  <1>4. TypeOK'
    <2>1. \A k \in Logins : cookie[k] <= session'[k].issued /\ session'[k].used \subseteq 1..session'[k].issued
      BY <1>1 DEF TypeOK
    <2> QED
      BY <1>1, <1>2, <2>1 DEF TypeOK, SessionRecord, Purge, CompleteAccountDeletionJob, Finish
  <1>5. SessionsSound'
    <2>1. \A k \in Logins : session'[k].state # "none" => session[k].state # "none"
      BY <1>1, <1>3
    <2>2. \A k \in Logins : session[k].state = "none" => session'[k].state = "none"
      BY <1>1, <1>3
    <2>3. \A v \in Users : account[v] = "deleted" => account'[v] = "deleted"
      BY <1>2 DEF TypeOK
    <2>4. \A k \in Logins : session'[k].state = "deleted" => account'[session'[k].user] = "deleted"
      BY <1>1, <1>2, <1>3, <2>3 DEF TypeOK, SessionsSound
    <2>5. \A k \in Logins : Unused(k)' = Unused(k)
      BY <1>1 DEF Unused
    <2> QED
      BY <1>1, <2>1, <2>2, <2>4, <2>5 DEF SessionsSound, Purge
  <1>6. RefreshesSound'
    BY <1>1, <1>3, SentinelAssumption DEF TypeOK, RefreshesSound, Purge
  <1>7. CarefulSound'
    BY <1>1, CarefulEnd DEF Purge
  <1>8. ClosedAccountHasNoSession'
    BY <1>1, <1>2 DEF TypeOK, ClosedAccountHasNoSession, Purge
  <1> QED
    BY <1>4, <1>5, <1>6, <1>7, <1>8

\* Steps of workers, of time and of failures that change jobs only.
LEMMA JobStep ==
    ASSUME IInv, UNCHANGED <<people, rotation, late>>,
           job' \in [Users -> {"none", "pending", "processing", "failed", "completed"}],
           overdue' \subseteq Users, purging' \in [Workers -> SUBSET Users],
           faults' \in 0..MaxFaults
    PROVE  IInv'
  <1> USE DEF IInv
  <1>1. TypeOK'
    BY DEF TypeOK, people, rotation
  <1>2. RefreshesSound' /\ CarefulSound'
    BY RotationSame
  <1>3. SessionsSound' /\ ClosedAccountHasNoSession'
    BY SessionsSame DEF rotation
  <1> QED
    BY <1>1, <1>2, <1>3

LEMMA WorkerStep ==
    ASSUME IInv, NEW w \in Workers,
           \/ Claim(w) \/ Stop(w)
           \/ \E u \in Users : PurgeRefused(w, u) \/ PurgeFails(w, u)
    PROVE  IInv'
  <1> USE FaultsAssumption DEF IInv, TypeOK, Fault
  <1>1. CASE Claim(w)
    BY <1>1, JobStep DEF Claim
  <1>2. CASE Stop(w)
    BY <1>2, JobStep DEF Stop
  <1>3. ASSUME NEW u \in Users, PurgeRefused(w, u) PROVE IInv'
    BY <1>3, JobStep DEF PurgeRefused, FailJob, Finish
  <1>4. ASSUME NEW u \in Users, PurgeFails(w, u) PROVE IInv'
    BY <1>4, JobStep DEF PurgeFails, FailJob, Finish
  <1> QED
    BY <1>1, <1>2, <1>3, <1>4

LEMMA OverdueStep ==
    ASSUME IInv, NEW u \in Users, BecomeOverdue(u) \/ Overrun(u)
    PROVE  IInv'
  BY FaultsAssumption, JobStep DEF IInv, TypeOK, Fault, BecomeOverdue, Overrun

-----------------------------------------------------------------------------
(* The invariant *)

LEMMA NextIInv == IInv /\ [Next]_vars => IInv'
  <1> SUFFICES ASSUME IInv, [Next]_vars PROVE IInv'
    OBVIOUS
  <1>1. ASSUME NEW l \in Logins, Complete(l) PROVE IInv'
    BY <1>1, ProvisionStep, LoginFailsStep, CreateSessionStep DEF Complete
  <1>2. ASSUME NEW l \in Logins, Revoke(l) PROVE IInv'
    BY <1>2, RevokeStep
  <1>3. ASSUME NEW f \in Refreshes, Refresh(f) PROVE IInv'
    BY <1>3, SendStep, LockTokenStep, RefreshFailsStep, DetectReuseStep, RefuseTokenStep,
       RotateStep, DoneStep DEF Refresh
  <1>4. ASSUME NEW u \in Users, Request(u) \/ BecomeOverdue(u) \/ Overrun(u) PROVE IInv'
    BY <1>4, RequestStep, OverdueStep
  <1>5. ASSUME NEW w \in Workers,
               \/ Claim(w) \/ Stop(w)
               \/ \E u \in Users : Purge(w, u) \/ PurgeRefused(w, u) \/ PurgeFails(w, u)
        PROVE  IInv'
    BY <1>5, PurgeStep, WorkerStep
  <1>6. CASE UNCHANGED vars
    <2>1. UNCHANGED <<people, rotation, late>> /\ UNCHANGED deletion
      BY <1>6 DEF vars, people, rotation, deletion
    <2> QED
      BY <2>1, JobStep DEF IInv, TypeOK, deletion
  <1> QED
    BY <1>1, <1>2, <1>3, <1>4, <1>5, <1>6 DEF Next

THEOREM Invariant == Spec => []IInv
  BY InitIInv, NextIInv, PTL DEF Spec

\* Every variable of identity and privacy keeps its type; a cookie and a used token were
\* issued.
THEOREM TypeCorrect == Spec => []TypeOK
  <1>1. IInv => TypeOK
    BY DEF IInv
  <1> QED
    BY <1>1, Invariant, PTL

\* A session has one unused refresh token, whichever requests race in Rotate.
THEOREM OneTokenAlwaysLive == Spec => []OneLiveToken
  <1>1. IInv => OneLiveToken
    <2> SUFFICES ASSUME IInv, NEW l \in Logins, session[l].issued > 0
                 PROVE  Cardinality((1..session[l].issued) \ session[l].used) = 1
      BY DEF OneLiveToken
    <2>1. session[l].state # "none"
      BY DEF IInv, SessionsSound
    <2>2. PICK t : Unused(l) = {t}
      BY <2>1 DEF IInv, SessionsSound
    <2> QED
      BY <2>2, FS_Singleton DEF Unused
  <1> QED
    BY <1>1, Invariant, PTL

\* A browser that refreshes once at a time and gets its answers is never logged out as a
\* thief (Rotate, RevokeSessionFamily).
THEOREM ReuseNeverFalse == Spec => []NoFalseReuse
  <1>1. IInv => NoFalseReuse
    BY DEF IInv, TypeOK, CarefulSound, Careful, NoFalseReuse
  <1> QED
    BY <1>1, Invariant, PTL

\* Only a login that was under way when the deletion was accepted has a session left.
THEOREM ClosedAccountNeverHasSession == Spec => []ClosedAccountHasNoSession
  <1>1. IInv => ClosedAccountHasNoSession
    BY DEF IInv
  <1> QED
    BY <1>1, Invariant, PTL

-----------------------------------------------------------------------------
(* Revocation *)

\* What RevocationIsFinal says of a step and one session.
Final(l) ==
    session[l].state \in {"revoked", "deleted"} =>
        /\ session'[l].state \in {session[l].state, "deleted"}
        /\ session'[l].issued = session[l].issued

\* A refresh whose token was unused holds the lock of a session that lives: rotation has
\* nothing to do with a revoked one.
LEMMA RefreshFinal ==
    ASSUME IInv, NEW f \in Refreshes, DetectReuse(f) \/ RefuseToken(f) \/ Rotate(f),
           NEW k \in Logins
    PROVE  Final(k)
  <1> DEFINE l == refresh[f].session
  <1>1. /\ refresh[f].stage = "locked" /\ l \in Logins
        /\ session[l].state \in {"live", "revoked"}
        /\ refresh[f].seen = "unused" => session[l].state = "live"
    BY DEF DetectReuse, RefuseToken, Rotate, Answer, IInv, TypeOK, RefreshesSound
  <1>2. CASE DetectReuse(f)
    <2>1. session' = [session EXCEPT ![l].state = "revoked"] /\ session \in [Logins -> SessionRecord]
      BY <1>2 DEF DetectReuse, RevokeSessionFamily, IInv, TypeOK, SessionRecord
    <2> QED
      BY <2>1, <1>1 DEF Final, SessionRecord
  <1>3. CASE RefuseToken(f)
    BY <1>3 DEF RefuseToken, Final
  <1>4. CASE Rotate(f)
    <2>1. session[l].state = "live"
      BY <1>1, <1>4 DEF Rotate
    <2>2. \A m \in Logins : m # l => session'[m] = session[m]
      BY <1>4 DEF Rotate, IInv, TypeOK
    <2> QED
      BY <2>1, <2>2 DEF Final
  <1> QED
    BY <1>2, <1>3, <1>4

LEMMA StepFinal ==
    ASSUME IInv, [Next]_vars, NEW k \in Logins
    PROVE  Final(k)
  <1>1. ASSUME NEW l \in Logins, Complete(l) PROVE Final(k)
    <2>1. CASE CreateSession(l)
      <3>1. session[l].state = "none"
        BY <2>1 DEF CreateSession, IInv, SessionsSound
      <3>2. k # l => session'[k] = session[k]
        BY <2>1 DEF CreateSession, IInv, TypeOK
      <3> QED
        BY <3>1, <3>2 DEF Final
    <2>2. CASE session' = session
      BY <2>2 DEF Final
    <2> QED
      BY <1>1, <2>1, <2>2 DEF Complete, Provision, ProvisionFails, CreateSessionFails, rotation
  <1>2. ASSUME NEW l \in Logins, Revoke(l) PROVE Final(k)
    <2>1. session[l].state = "live" /\ (k # l => session'[k] = session[k])
      BY <1>2 DEF Revoke, IInv, TypeOK
    <2> QED
      BY <2>1 DEF Final
  <1>3. ASSUME NEW f \in Refreshes, Refresh(f) PROVE Final(k)
    <2>1. CASE session' = session
      BY <2>1 DEF Final
    <2> QED
      BY <1>3, <2>1, RefreshFinal DEF Refresh, Send, LockToken, RefreshFails, Deliver, LoseReply
  <1>4. ASSUME NEW u \in Users, Request(u) PROVE Final(k)
    <2>1. /\ session'[k].issued = session[k].issued
          /\ session'[k].state = IF session[k].user = u THEN "revoked" ELSE session[k].state
      BY <1>4, EndFacts DEF Request
    <2>2. session[k].user = u => session[k].state # "deleted"
      BY <1>4 DEF Request, IInv, SessionsSound
    <2> QED
      BY <2>1, <2>2 DEF Final
  <1>5. ASSUME NEW w \in Workers, NEW u \in Users, Purge(w, u) PROVE Final(k)
    <2>1. /\ session'[k].issued = session[k].issued
          /\ session'[k].state = IF session[k].user = u THEN "deleted" ELSE session[k].state
      BY <1>5, EndFacts DEF Purge
    <2> QED
      BY <2>1 DEF Final
  <1>6. CASE session' = session
    BY <1>6 DEF Final
  <1>7. ASSUME NEW u \in Users, BecomeOverdue(u) \/ Overrun(u) PROVE session' = session
    BY <1>7 DEF BecomeOverdue, Overrun, rotation
  <1>8. ASSUME NEW w \in Workers,
               \/ Claim(w) \/ Stop(w)
               \/ \E u \in Users : PurgeRefused(w, u) \/ PurgeFails(w, u)
        PROVE  session' = session
    BY <1>8 DEF Claim, Stop, PurgeRefused, PurgeFails, rotation
  <1>9. UNCHANGED vars => session' = session
    BY DEF vars
  <1> QED
    BY <1>1, <1>2, <1>3, <1>4, <1>5, <1>6, <1>7, <1>8, <1>9 DEF Next

\* A revoked session stays revoked, and no rotation gives it another token: Rotate, Revoke
\* and Service.Request take the same row lock.
THEOREM RevocationAlwaysFinal == Spec => RevocationIsFinal
  <1>1. IInv /\ [Next]_vars =>
          [\A l \in Logins : session[l].state \in {"revoked", "deleted"} =>
              /\ session'[l].state \in {session[l].state, "deleted"}
              /\ session'[l].issued = session[l].issued]_vars
    BY StepFinal DEF Final
  <1> QED
    BY <1>1, Invariant, PTL DEF Spec, RevocationIsFinal

-----------------------------------------------------------------------------
(* Conversations: the inductive invariant of the rows and of creation *)

RowRecord == [owner : {"guest", "user"}, key : Keys \cup EarlierKeys,
              posted : Keys \cup EarlierKeys, archived : BOOLEAN,
              deleted : BOOLEAN, updatedAt : Stamps]

CreationRecord == [pc : {"sent", "refused"}, actor : {"guest", "user"}, key : Keys]

RowTypes ==
    /\ conversation \in Seq(RowRecord)
    /\ migrated \in BOOLEAN
    /\ creation \in [Requests -> {NoCreation} \cup CreationRecord]

\* The creation key stays what was posted: sign-in keeps the column.
KeysKept == \A c \in DOMAIN conversation : conversation[c].key = conversation[c].posted

\* The unique indexes of PostgreSQL.
UniqueKeys ==
    \A c, d \in DOMAIN conversation :
        /\ conversation[c].owner = conversation[d].owner
        /\ conversation[c].key = conversation[d].key
        => c = d

\* Guests post keys of their own, so a sign-in cannot violate the user's index.
GuestKeys == \A c \in DOMAIN conversation :
    conversation[c].owner = "guest" => conversation[c].key \in Keys

\* Until the sign-in the account has what it brought, and requests are the guest's.
NothingNewBefore ==
    ~migrated =>
        /\ \A c \in DOMAIN conversation :
              conversation[c].owner = "user" => conversation[c].key \in EarlierKeys
        /\ \A q \in Requests : creation[q] # NoCreation => creation[q].actor = "guest"

RowsInv == RowTypes /\ KeysKept /\ UniqueKeys /\ GuestKeys /\ NothingNewBefore

-----------------------------------------------------------------------------

LEMMA InitRows == ConversationsInit => RowsInv
  <1> SUFFICES ASSUME ConversationsInit PROVE RowsInv
    OBVIOUS
  <1>1. PICK earlier \in [EarlierKeys -> Stamps], keys \in [1..Cardinality(EarlierKeys) -> EarlierKeys] :
            /\ \A i, j \in DOMAIN keys : keys[i] = keys[j] => i = j
            /\ conversation = [i \in DOMAIN keys |-> Row("user", keys[i], earlier[keys[i]])]
    BY DEF ConversationsInit
  <1>2. Cardinality(EarlierKeys) \in Nat
    BY LimitAssumption, FS_CardinalityType
  <1>3. /\ DOMAIN conversation = 1..Cardinality(EarlierKeys)
        /\ \A c \in DOMAIN conversation :
             /\ conversation[c] \in RowRecord
             /\ conversation[c].owner = "user" /\ conversation[c].key = keys[c]
             /\ conversation[c].posted = keys[c] /\ keys[c] \in EarlierKeys
    BY <1>1 DEF Row, RowRecord
  <1>4. conversation \in Seq(RowRecord)
    BY <1>1, <1>2, <1>3
  <1>5. RowTypes
    BY <1>4 DEF ConversationsInit, RowTypes
  <1>6. \A q \in Requests : creation[q] = NoCreation
    BY DEF ConversationsInit
  <1>7. \A c, d \in DOMAIN conversation : keys[c] = keys[d] => c = d
    BY <1>1, <1>3
  <1> QED
    BY <1>3, <1>5, <1>6, <1>7 DEF RowsInv, KeysKept, UniqueKeys, GuestKeys, NothingNewBefore

\* Steps of requests that write no row.
LEMMA CreationStep ==
    ASSUME RowsInv, NEW q \in Requests, Refuse(q) \/ AnswerCreation(q) \/ \E key \in Keys : Post(q, key)
    PROVE  RowsInv'
  <1> USE DEF RowsInv
  <1>1. UNCHANGED <<conversation, migrated>>
    BY DEF Refuse, AnswerCreation, Post
  <1>2. creation[q].pc # "idle" => creation[q] \in CreationRecord
    BY DEF RowTypes, NoCreation
  <1>3. PICK new \in {NoCreation} \cup CreationRecord :
            /\ creation' = [creation EXCEPT ![q] = new]
            /\ ~migrated /\ new # NoCreation => new.actor = "guest"
    <2>1. CASE Refuse(q)
      <3>1. creation[q] \in CreationRecord /\ creation[q] # NoCreation
        BY <2>1, <1>2 DEF Refuse, NoCreation
      <3>2. [creation[q] EXCEPT !.pc = "refused"] \in CreationRecord
        BY <3>1 DEF CreationRecord
      <3>3. creation' = [creation EXCEPT ![q] = [creation[q] EXCEPT !.pc = "refused"]]
        BY <2>1 DEF Refuse
      <3>4. [creation[q] EXCEPT !.pc = "refused"].actor = creation[q].actor
        BY <3>1 DEF CreationRecord
      <3> QED
        BY <3>1, <3>2, <3>3, <3>4 DEF NothingNewBefore
    <2>2. CASE AnswerCreation(q)
      BY <2>2 DEF AnswerCreation
    <2>4. CASE \E key \in Keys : Post(q, key)
      <3>1. PICK key \in Keys : Post(q, key)
        BY <2>4
      <3> DEFINE new == [pc |-> "sent", actor |-> Actor, key |-> key]
      <3>2. new \in CreationRecord /\ new.actor = Actor
        BY DEF CreationRecord, Actor
      <3>3. ~migrated => Actor = "guest"
        BY DEF Actor
      <3> QED
        BY <3>1, <3>2, <3>3 DEF Post
    <2> QED
      BY <2>1, <2>2, <2>4
  <1>4. RowTypes'
    BY <1>1, <1>3 DEF RowTypes
  <1>5. NothingNewBefore'
    BY <1>1, <1>3 DEF RowTypes, NothingNewBefore
  <1> QED
    BY <1>1, <1>4, <1>5 DEF KeysKept, UniqueKeys, GuestKeys

\* The unique index lets a row in when the owner has none with its key.
LEMMA InsertStep ==
    ASSUME RowsInv, NEW q \in Requests, NEW stamp \in Stamps, Insert(q, stamp)
    PROVE  RowsInv'
  <1> USE DEF RowsInv
  <1> DEFINE p == creation[q]
             row == Row(p.actor, p.key, stamp)
             n == Len(conversation) + 1
  <1>1. p \in CreationRecord /\ p # NoCreation
    BY DEF RowTypes, NoCreation, Insert
  <1>2. /\ row \in RowRecord /\ row.owner = p.actor /\ row.key = p.key /\ row.posted = p.key
        /\ p.key \in Keys /\ p.actor \in {"guest", "user"}
    BY <1>1 DEF CreationRecord, Row, RowRecord
  <1>3. conversation' = Append(conversation, row)
    BY DEF Insert
  <1> HIDE DEF row
  <1>4. /\ conversation' \in Seq(RowRecord) /\ n \in Nat \ {0}
        /\ DOMAIN conversation' = DOMAIN conversation \cup {n}
        /\ n \notin DOMAIN conversation
        /\ conversation'[n] = row
        /\ \A c \in DOMAIN conversation : conversation'[c] = conversation[c]
    BY <1>2, <1>3 DEF RowTypes
  <1>5. RowTypes'
    BY <1>4 DEF RowTypes, Insert
  <1>6. \A c \in DOMAIN conversation : conversation[c].owner # p.actor \/ conversation[c].key # p.key
    BY DEF Insert, Violates, CreatedBy
  <1>7. UniqueKeys'
    BY <1>2, <1>4, <1>6 DEF UniqueKeys
  <1>8. NothingNewBefore'
    BY <1>1, <1>2, <1>4 DEF NothingNewBefore, Insert, RowTypes
  <1>9. KeysKept' /\ GuestKeys'
    BY <1>2, <1>4 DEF KeysKept, GuestKeys
  <1> QED
    BY <1>5, <1>7, <1>8, <1>9

\* Rows change, and neither owner nor keys do.
LEMMA RowsChange ==
    ASSUME RowsInv, UNCHANGED <<migrated, creation>>, conversation' \in Seq(RowRecord),
           DOMAIN conversation' = DOMAIN conversation,
           \A c \in DOMAIN conversation :
               /\ conversation'[c].owner = conversation[c].owner
               /\ conversation'[c].key = conversation[c].key
               /\ conversation'[c].posted = conversation[c].posted
    PROVE  RowsInv'
  BY DEF RowsInv, RowTypes, KeysKept, UniqueKeys, GuestKeys, NothingNewBefore

\* A row that a table has in place of r differs from it in two flags.
SameRow(r, s) ==
    s \in RowRecord /\ s.owner = r.owner /\ s.key = r.key /\ s.posted = r.posted

LEMMA TouchStep ==
    ASSUME RowsInv, NEW cs, NEW stamp \in Stamps, NEW table, Touch(cs, stamp, table),
           \A c \in DOMAIN conversation : SameRow(conversation[c], table[c])
    PROVE  RowsInv'
  <1> DEFINE row(c) == IF c \in cs THEN [table[c] EXCEPT !.updatedAt = stamp] ELSE conversation[c]
  <1>1. conversation' = [c \in DOMAIN conversation |-> row(c)] /\ UNCHANGED <<migrated, creation>>
    BY DEF Touch
  <1>2. conversation \in Seq(RowRecord)
    BY DEF RowsInv, RowTypes
  <1>3. ASSUME NEW c \in DOMAIN conversation
        PROVE  /\ row(c) \in RowRecord
               /\ row(c).owner = conversation[c].owner /\ row(c).key = conversation[c].key
               /\ row(c).posted = conversation[c].posted
    <2>1. conversation[c] \in RowRecord
      BY <1>2
    <2> QED
      BY <2>1 DEF SameRow, RowRecord
  <1> HIDE DEF row
  <1>4. conversation' \in Seq(RowRecord) /\ DOMAIN conversation' = DOMAIN conversation
    BY <1>1, <1>2, <1>3
  <1> QED
    BY <1>1, <1>3, <1>4, RowsChange

LEMMA OwnerStep ==
    ASSUME RowsInv, NEW c \in DOMAIN conversation, NEW stamp \in Stamps,
           Update(c, stamp) \/ Delete(c, stamp) \/ Archive(c, stamp)
    PROVE  RowsInv'
  <1>1. \A d \in DOMAIN conversation : conversation[d] \in RowRecord
    BY DEF RowsInv, RowTypes
  <1>2. CASE Update(c, stamp)
    BY <1>1, <1>2, TouchStep DEF Update, SameRow
  <1>3. CASE Delete(c, stamp)
    <2> DEFINE table == [conversation EXCEPT ![c] = SoftDelete(@)]
    <2>1. SameRow(conversation[c], SoftDelete(conversation[c]))
      BY <1>1 DEF SameRow, SoftDelete, RowRecord
    <2>2. \A d \in DOMAIN conversation : SameRow(conversation[d], table[d])
      BY <1>1, <2>1 DEF SameRow
    <2>3. Touch({c}, stamp, table)
      BY <1>3 DEF Delete
    <2> HIDE DEF table
    <2> QED
      BY <2>2, <2>3, TouchStep
  <1>4. CASE Archive(c, stamp)
    <2> DEFINE table == [conversation EXCEPT ![c] = ChangeArchived(@)]
    <2>1. SameRow(conversation[c], ChangeArchived(conversation[c]))
      BY <1>1 DEF SameRow, ChangeArchived, RowRecord
    <2>2. \A d \in DOMAIN conversation : SameRow(conversation[d], table[d])
      BY <1>1, <2>1 DEF SameRow
    <2>3. Touch({c}, stamp, table)
      BY <1>4 DEF Archive
    <2> HIDE DEF table
    <2> QED
      BY <2>2, <2>3, TouchStep
  <1> QED
    BY <1>2, <1>3, <1>4

\* At the sign-in the rows of both owners come under one index: their keys are disjoint.
LEMMA MigrateStep ==
    ASSUME RowsInv, NEW stamp \in Stamps, Migrate(stamp)
    PROVE  RowsInv'
  <1> USE DEF RowsInv
  <1> DEFINE same == [k \in Keys |-> k]
             guests == {c \in DOMAIN conversation : conversation[c].owner = "guest"}
             moved(r) == [r EXCEPT !.owner = "user", !.updatedAt = stamp, !.key = same[@]]
  <1>1. /\ migrated' = TRUE /\ ~migrated /\ UNCHANGED creation
        /\ conversation' = [c \in DOMAIN conversation |->
               IF c \in guests THEN moved(conversation[c]) ELSE conversation[c]]
    BY DEF Migrate, HandOver
  <1>2. conversation \in Seq(RowRecord) /\ \A c \in DOMAIN conversation : conversation[c] \in RowRecord
    BY DEF RowTypes
  <1>3. ASSUME NEW c \in DOMAIN conversation
        PROVE  /\ conversation'[c] \in RowRecord
               /\ conversation'[c].owner = "user" /\ conversation'[c].key = conversation[c].key
               /\ conversation'[c].posted = conversation[c].posted
    <2>1. CASE c \in guests
      <3>1. conversation'[c] = moved(conversation[c])
        BY <1>1, <2>1
      <3>2. conversation[c].key \in Keys /\ same[conversation[c].key] = conversation[c].key
        BY <2>1 DEF GuestKeys
      <3> QED
        BY <3>1, <3>2, <1>2 DEF RowRecord
    <2>2. CASE c \notin guests
      <3>1. conversation'[c] = conversation[c]
        BY <1>1, <2>2
      <3>2. conversation[c].owner = "user"
        BY <2>2, <1>2 DEF RowRecord
      <3> QED
        BY <3>1, <3>2, <1>2
    <2> QED
      BY <2>1, <2>2
  <1> HIDE DEF same, guests, moved
  <1>4. DOMAIN conversation' = DOMAIN conversation /\ conversation' \in Seq(RowRecord)
    <2>1. DOMAIN conversation' = DOMAIN conversation
      BY <1>1
    <2>2. DOMAIN conversation = 1..Len(conversation) /\ Len(conversation) \in Nat
      BY <1>2
    <2>3. conversation' = [c \in 1..Len(conversation) |-> conversation'[c]]
      BY <1>1, <2>2
    <2>4. \A c \in 1..Len(conversation) : conversation'[c] \in RowRecord
      BY <1>3, <2>2
    <2> QED
      BY <2>1, <2>2, <2>3, <2>4
  <1>5. RowTypes'
    BY <1>1, <1>4 DEF RowTypes
  <1>6. UniqueKeys'
    <2> SUFFICES ASSUME NEW c \in DOMAIN conversation, NEW d \in DOMAIN conversation,
                        conversation[c].key = conversation[d].key
                 PROVE  c = d
      BY <1>3, <1>4 DEF UniqueKeys
    <2>1. conversation[c].owner \in {"guest", "user"} /\ conversation[d].owner \in {"guest", "user"}
      BY <1>2 DEF RowRecord
    <2>2. \A e \in {c, d} : conversation[e].owner = "guest" => conversation[e].key \in Keys
      BY DEF GuestKeys
    <2>3. \A e \in {c, d} : conversation[e].owner = "user" => conversation[e].key \in EarlierKeys
      BY <1>1 DEF NothingNewBefore
    <2>4. conversation[c].owner = conversation[d].owner
      BY <2>1, <2>2, <2>3, LimitAssumption
    <2> QED
      BY <2>4 DEF UniqueKeys
  <1>7. KeysKept' /\ GuestKeys' /\ NothingNewBefore'
    <2>1. \A c \in DOMAIN conversation' :
              /\ conversation'[c].owner = "user"
              /\ conversation'[c].key = conversation'[c].posted
      BY <1>3, <1>4 DEF KeysKept
    <2> QED
      BY <1>1, <2>1 DEF KeysKept, GuestKeys, NothingNewBefore
  <1> QED
    BY <1>5, <1>6, <1>7

LEMMA NextRows == RowsInv /\ [ConversationsNext]_conversationsVars => RowsInv'
  <1> SUFFICES ASSUME RowsInv, [ConversationsNext]_conversationsVars PROVE RowsInv'
    OBVIOUS
  <1>1. ASSUME NEW q \in Requests,
               \/ \E key \in Keys : Post(q, key)
               \/ \E stamp \in Stamps : Insert(q, stamp)
               \/ Refuse(q) \/ AnswerCreation(q)
        PROVE  RowsInv'
    BY <1>1, CreationStep, InsertStep
  <1>2. ASSUME NEW c \in DOMAIN conversation, NEW stamp \in Stamps,
               Update(c, stamp) \/ Delete(c, stamp) \/ Archive(c, stamp)
        PROVE  RowsInv'
    BY <1>2, OwnerStep
  <1>3. ASSUME NEW stamp \in Stamps, Migrate(stamp) PROVE RowsInv'
    BY <1>3, MigrateStep
  <1>4. CASE UNCHANGED <<conversation, migrated, creation>>
    BY <1>4 DEF RowsInv, RowTypes, KeysKept, UniqueKeys, GuestKeys, NothingNewBefore
  <1>5. (\E all \in BOOLEAN : Start(all)) \/ Page \/ UNCHANGED conversationsVars
            => UNCHANGED <<conversation, migrated, creation>>
    BY DEF Start, Page, ReadPage, conversationsVars
  <1> QED
    BY <1>1, <1>2, <1>3, <1>4, <1>5 DEF ConversationsNext

THEOREM RowsInvariant == ConversationsSpec => []RowsInv
  BY InitRows, NextRows, PTL DEF ConversationsSpec

\* A creation that is posted again, twice at once or across the sign-in, makes no second
\* conversation that somebody can reach (Create, createdByKey, MigrateGuestConversations).
THEOREM AlwaysCreatedOnce == ConversationsSpec => []CreatedOnce
  <1>1. RowsInv => CreatedOnce
    <2> SUFFICES ASSUME RowsInv, NEW c \in DOMAIN conversation, NEW d \in DOMAIN conversation,
                        Reachable(c), Reachable(d),
                        conversation[c].posted = conversation[d].posted
                 PROVE  c = d
      BY DEF CreatedOnce
    <2>1. conversation[c].key = conversation[d].key
      BY DEF RowsInv, KeysKept
    <2>2. conversation[c].owner \in {"guest", "user"} /\ conversation[d].owner \in {"guest", "user"}
      <3>1. conversation[c] \in RowRecord /\ conversation[d] \in RowRecord
        BY DEF RowsInv, RowTypes
      <3> QED
        BY <3>1 DEF RowRecord
    <2>3. conversation[c].owner = conversation[d].owner
      <3>1. CASE migrated
        BY <3>1 DEF Reachable
      <3>2. CASE ~migrated
        <4>1. \A e \in {c, d} : conversation[e].owner = "guest" => conversation[e].key \in Keys
          BY DEF RowsInv, GuestKeys
        <4>2. \A e \in {c, d} : conversation[e].owner = "user" => conversation[e].key \in EarlierKeys
          BY <3>2 DEF RowsInv, NothingNewBefore
        <4> QED
          BY <2>1, <2>2, <4>1, <4>2, LimitAssumption
      <3> QED
        BY <3>1, <3>2
    <2> QED
      BY <2>1, <2>3 DEF RowsInv, UniqueKeys
  <1> QED
    BY <1>1, RowsInvariant, PTL

-----------------------------------------------------------------------------
(* The order of a list: updated_at, then id, is total, so that the rows of a page can be  *)
(* counted off.                                                                           *)

\* Newer is a strict total order of the rows.
LEMMA NewerOrder ==
    ASSUME RowTypes, NEW b \in DOMAIN conversation, NEW c \in DOMAIN conversation,
           NEW d \in DOMAIN conversation
    PROVE  /\ ~Newer(b, b)
           /\ b = c \/ Newer(b, c) \/ Newer(c, b)
           /\ Newer(b, c) => ~Newer(c, b)
           /\ Newer(b, c) /\ Newer(c, d) => Newer(b, d)
  <1>1. \A e \in DOMAIN conversation : e \in Nat /\ conversation[e].updatedAt \in Nat
    <2>1. conversation \in Seq(RowRecord)
      BY DEF RowTypes
    <2>2. \A e \in DOMAIN conversation : e \in Nat /\ conversation[e] \in RowRecord
      BY <2>1
    <2> QED
      BY <2>2, LimitAssumption DEF RowRecord
  <1> QED
    BY <1>1 DEF Newer, Precedes

\* There are finitely many rows.
LEMMA RowsFinite ==
    ASSUME RowTypes, NEW rows \in SUBSET DOMAIN conversation
    PROVE  IsFiniteSet(rows) /\ Cardinality(rows) \in Nat
  <1>1. Len(conversation) \in Nat /\ DOMAIN conversation = 1..Len(conversation)
    BY DEF RowTypes
  <1>2. IsFiniteSet(DOMAIN conversation)
    BY <1>1, FS_Interval
  <1> QED
    BY <1>2, FS_Subset, FS_CardinalityType

\* A row has a rank among rows it belongs to.
LEMMA RankRange ==
    ASSUME RowTypes, NEW rows \in SUBSET DOMAIN conversation, NEW c \in rows
    PROVE  Rank(c, rows) \in 1..Cardinality(rows)
  <1> DEFINE newer == {d \in rows : Newer(d, c)}
  <1>1. newer \subseteq rows \ {c} /\ c \notin newer
    BY NewerOrder
  <1>2. IsFiniteSet(rows) /\ IsFiniteSet(newer) /\ Cardinality(rows) \in Nat /\ Cardinality(newer) \in Nat
    BY RowsFinite
  <1>3. IsFiniteSet(rows \ {c}) /\ Cardinality(rows \ {c}) = Cardinality(rows) - 1
    BY <1>2, FS_RemoveElement
  <1>4. Cardinality(newer) <= Cardinality(rows \ {c})
    BY <1>1, <1>3, FS_Subset
  <1>5. Rank(c, rows) = 1 + Cardinality(newer)
    BY DEF Rank
  <1> HIDE DEF newer
  <1> QED
    BY <1>2, <1>3, <1>4, <1>5

\* The newer row has the smaller rank.
LEMMA RankOrder ==
    ASSUME RowTypes, NEW rows \in SUBSET DOMAIN conversation, NEW c \in rows, NEW d \in rows,
           Newer(c, d)
    PROVE  Rank(c, rows) < Rank(d, rows)
  <1> DEFINE before == {e \in rows : Newer(e, c)}
             after == {e \in rows : Newer(e, d)}
  <1>1. before \subseteq after /\ c \in after /\ c \notin before
    BY NewerOrder
  <1>2. IsFiniteSet(after) /\ Cardinality(before) \in Nat /\ Cardinality(after) \in Nat
    BY RowsFinite
  <1>3. Cardinality(before) <= Cardinality(after) /\ Cardinality(before) # Cardinality(after)
    BY <1>1, <1>2, FS_Subset
  <1>4. Rank(c, rows) = 1 + Cardinality(before) /\ Rank(d, rows) = 1 + Cardinality(after)
    BY DEF Rank
  <1> HIDE DEF before, after
  <1> QED
    BY <1>2, <1>3, <1>4

\* No two rows have one rank.
LEMMA RankDiffers ==
    ASSUME RowTypes, NEW rows \in SUBSET DOMAIN conversation, NEW c \in rows, NEW d \in rows,
           Rank(c, rows) = Rank(d, rows)
    PROVE  c = d
  <1>1. Rank(c, rows) \in Nat /\ Rank(d, rows) \in Nat
    BY RankRange
  <1>2. ~Newer(c, d) /\ ~Newer(d, c)
    BY <1>1, RankOrder
  <1> QED
    BY <1>2, NewerOrder

\* Every rank is taken: ranking is an injection between sets of one size.
LEMMA RankTaken ==
    ASSUME RowTypes, NEW rows \in SUBSET DOMAIN conversation, NEW i \in 1..Cardinality(rows)
    PROVE  \E c \in rows : Rank(c, rows) = i
  <1> DEFINE rank == [c \in rows |-> Rank(c, rows)]
             ranks == 1..Cardinality(rows)
  <1>1. rank \in [rows -> ranks]
    BY RankRange
  <1>2. \A c, d \in rows : rank[c] = rank[d] => c = d
    BY RankDiffers
  <1>3. rank \in Injection(rows, ranks)
    BY <1>1, <1>2, Fun_IsInj
  <1>4. Cardinality(rows) \in Nat
    BY RowsFinite
  <1>5. IsFiniteSet(ranks) /\ Cardinality(ranks) = Cardinality(rows)
    BY <1>4, FS_Interval
  <1> HIDE DEF ranks
  <1>6. rank \in Surjection(rows, ranks)
    BY <1>3, <1>5, FS_Injection
  <1>7. \A k \in ranks : \E c \in rows : rank[c] = k
    BY <1>6, Fun_SurjectionProperties
  <1> QED
    BY <1>7 DEF ranks

\* What a query with LIMIT n returns: the rows of the ranks up to n, each once.
LEMMA FirstOfRows ==
    ASSUME RowTypes, NEW rows \in SUBSET DOMAIN conversation, NEW n \in Nat
    PROVE  LET k == IF Cardinality(rows) < n THEN Cardinality(rows) ELSE n IN
           /\ k \in Nat
           /\ FirstOf(rows, n) \in [1..k -> rows]
           /\ \A i \in 1..k : Rank(FirstOf(rows, n)[i], rows) = i
  <1> DEFINE k == IF Cardinality(rows) < n THEN Cardinality(rows) ELSE n
  <1>1. Cardinality(rows) \in Nat
    BY RowsFinite
  <1>2. k \in Nat /\ 1..k \subseteq 1..Cardinality(rows)
    BY <1>1
  <1>3. FirstOf(rows, n) = [i \in 1..k |-> CHOOSE c \in rows : Rank(c, rows) = i]
    BY DEF FirstOf
  <1> HIDE DEF k
  <1>4. ASSUME NEW i \in 1..k
        PROVE  FirstOf(rows, n)[i] \in rows /\ Rank(FirstOf(rows, n)[i], rows) = i
    <2>1. \E c \in rows : Rank(c, rows) = i
      BY <1>2, RankTaken
    <2> QED
      BY <1>3, <2>1
  <1>5. FirstOf(rows, n) \in [1..k -> rows]
    BY <1>3, <1>4
  <1> QED
    BY <1>2, <1>4, <1>5 DEF k

\* What List keeps of a query for one row more than the page.
Shown(rows) ==
    LET records == FirstOf(rows, Limit + 1) IN
    IF Len(records) > Limit THEN SubSeq(records, 1, Limit) ELSE records

PageLength(rows) == IF Cardinality(rows) < Limit THEN Cardinality(rows) ELSE Limit

\* A page has the rows of the first ranks, whether there is another page or not.
LEMMA ShownRows ==
    ASSUME RowTypes, NEW rows \in SUBSET DOMAIN conversation
    PROVE  /\ Len(FirstOf(rows, Limit + 1)) > Limit <=> Cardinality(rows) > Limit
           /\ Cardinality(rows) > Limit => Shown(rows)[Limit] = FirstOf(rows, Limit + 1)[Limit]
           /\ PageLength(rows) \in Nat
           /\ Shown(rows) \in [1..PageLength(rows) -> rows]
           /\ \A i \in 1..PageLength(rows) : Rank(Shown(rows)[i], rows) = i
  <1> DEFINE k == IF Cardinality(rows) < Limit + 1 THEN Cardinality(rows) ELSE Limit + 1
  <1>1. Cardinality(rows) \in Nat /\ Limit \in Nat \ {0} /\ Limit + 1 \in Nat
    BY RowsFinite, LimitAssumption
  <1>2. PICK records : records = FirstOf(rows, Limit + 1)
    OBVIOUS
  <1>3. k \in Nat /\ records \in [1..k -> rows] /\ \A i \in 1..k : Rank(records[i], rows) = i
    BY <1>1, <1>2, FirstOfRows
  <1>4. records \in Seq(rows) /\ Len(records) = k
    BY <1>3
  <1>5. PICK shown : shown = Shown(rows)
    OBVIOUS
  <1>6. PICK n : n = PageLength(rows)
    OBVIOUS
  <1>7. CASE k > Limit
    <2>1. k = Limit + 1 /\ n = Limit /\ Cardinality(rows) > Limit
      BY <1>1, <1>6, <1>7 DEF PageLength
    <2>2. shown = SubSeq(records, 1, Limit)
      BY <1>2, <1>4, <1>5, <1>7 DEF Shown
    <2>0. \A i \in 1..Limit : records[i] \in rows /\ i \in 1..k
      BY <1>1, <1>3, <2>1
    <2> HIDE DEF k
    <2>6. /\ shown \in Seq(rows) /\ Len(shown) = Limit
          /\ \A i \in 1..Limit : shown[i] = records[i]
      <3>1. /\ SubSeq(records, 1, Limit) \in Seq(rows)
            /\ Len(SubSeq(records, 1, Limit)) = IF 1 <= Limit THEN Limit - 1 + 1 ELSE 0
            /\ \A i \in 1..Limit - 1 + 1 : SubSeq(records, 1, Limit)[i] = records[1 + i - 1]
        BY <1>1, <2>0, SubSeqProperties
      <3> QED
        BY <1>1, <2>2, <3>1
    <2>3. shown \in [1..n -> rows] /\ \A i \in 1..n : shown[i] = records[i] /\ i \in 1..k
      BY <1>1, <2>0, <2>1, <2>6
    <2>4. \A i \in 1..n : Rank(shown[i], rows) = i
      BY <1>3, <2>3
    <2>5. Limit \in 1..n
      BY <1>1, <2>1
    <2> QED
      BY <1>1, <1>2, <1>4, <1>5, <1>6, <1>7, <2>1, <2>3, <2>4, <2>5
  <1>8. CASE ~(k > Limit)
    <2>1. n = k /\ k = Cardinality(rows) /\ ~(Cardinality(rows) > Limit)
      BY <1>1, <1>6, <1>8 DEF PageLength
    <2>2. shown = records
      BY <1>2, <1>4, <1>5, <1>8 DEF Shown
    <2> HIDE DEF k
    <2> QED
      BY <1>2, <1>3, <1>4, <1>5, <1>6, <1>8, <2>1, <2>2
  <1> QED
    BY <1>7, <1>8

\* A page shows a row once if its rank is on the page, and no other row.
LEMMA ShownTimes ==
    ASSUME RowTypes, NEW rows \in SUBSET DOMAIN conversation, NEW c
    PROVE  /\ c \in rows /\ Rank(c, rows) <= PageLength(rows) => Times(c, Shown(rows)) = 1
           /\ ~(c \in rows /\ Rank(c, rows) <= PageLength(rows)) => Times(c, Shown(rows)) = 0
  <1>1. PICK shown : shown = Shown(rows)
    OBVIOUS
  <1>2. PICK n : n = PageLength(rows)
    OBVIOUS
  <1>3. n \in Nat /\ shown \in [1..n -> rows] /\ \A i \in 1..n : Rank(shown[i], rows) = i
    BY <1>1, <1>2, ShownRows
  <1>4. Times(c, shown) = Cardinality({i \in 1..n : shown[i] = c})
    BY <1>3 DEF Times
  <1>5. ASSUME c \in rows, Rank(c, rows) <= n PROVE Times(c, shown) = 1
    <2>1. Rank(c, rows) \in 1..Cardinality(rows) /\ Cardinality(rows) \in Nat
      BY <1>5, RankRange, RowsFinite
    <2>2. Rank(c, rows) \in 1..n
      BY <1>3, <1>5, <2>1
    <2>3. shown[Rank(c, rows)] = c
      BY <1>3, <1>5, <2>2, RankDiffers
    <2>4. {i \in 1..n : shown[i] = c} = {Rank(c, rows)}
      BY <1>3, <2>2, <2>3
    <2> QED
      BY <1>4, <2>4, FS_Singleton
  <1>6. ASSUME ~(c \in rows /\ Rank(c, rows) <= n) PROVE Times(c, shown) = 0
    <2>1. {i \in 1..n : shown[i] = c} = {}
      <3> SUFFICES ASSUME NEW i \in 1..n, shown[i] = c PROVE FALSE
        OBVIOUS
      <3>1. c \in rows /\ Rank(c, rows) = i /\ i <= n
        BY <1>3
      <3> QED
        BY <1>6, <3>1
    <2> QED
      BY <1>4, <2>1, FS_EmptySet
  <1> QED
    BY <1>1, <1>2, <1>5, <1>6

-----------------------------------------------------------------------------
(* The reader: what is in front of the cursor was shown once, what is behind it never *)

ListingTyped ==
    /\ listing \in [pc : {"idle", "reading", "done"}, all : BOOLEAN, before : Nat, at : Nat,
                    shown : [DOMAIN listing.shown -> Nat]]
    /\ DOMAIN listing.shown \subseteq DOMAIN conversation

\* The next page starts in front of c.
IsBehind(c) == listing.before = 0 \/ Precedes(c, listing.at, listing.before)

ReadingSound ==
    /\ DOMAIN listing.shown \subseteq Listed(listing.all)
    /\ \A c \in DOMAIN listing.shown : listing.shown[c] = IF IsBehind(c) THEN 0 ELSE 1

ListingInv ==
    /\ ListingTyped
    /\ listing.pc = "reading" => ReadingSound
    /\ PagesComplete

LEMMA InitListing == ConversationsInit => ListingInv
  <1> SUFFICES ASSUME ConversationsInit PROVE ListingInv
    OBVIOUS
  <1>1. listing = NoListing
    BY DEF ConversationsInit
  <1>2. listing.pc = "idle" /\ listing.shown = <<>> /\ DOMAIN listing.shown = {}
    BY <1>1 DEF NoListing
  <1>3. listing.shown \in [DOMAIN listing.shown -> Nat]
    BY <1>2
  <1>4. ListingTyped
    BY <1>1, <1>2, <1>3 DEF NoListing, ListingTyped
  <1> QED
    BY <1>2, <1>4 DEF ListingInv, PagesComplete

\* Rows come or change, and the reader does without those that changed.
LEMMA OthersStep ==
    ASSUME ListingInv, UNCHANGED migrated,
           NEW kept \in SUBSET DOMAIN listing.shown,
           listing' = [listing EXCEPT !.shown = [c \in kept |-> listing.shown[c]]],
           \A c \in kept : c \in DOMAIN conversation' /\ conversation'[c] = conversation[c]
    PROVE  ListingInv'
  <1>1. PICK new : new = [c \in kept |-> listing.shown[c]]
    OBVIOUS
  <1>2. DOMAIN new = kept /\ new \in [kept -> Nat] /\ \A c \in kept : new[c] = listing.shown[c]
    BY <1>1 DEF ListingInv, ListingTyped
  <1>3. listing' = [listing EXCEPT !.shown = new]
    BY <1>1
  <1>4. /\ listing'.pc = listing.pc /\ listing'.all = listing.all
        /\ listing'.before = listing.before /\ listing'.at = listing.at
        /\ listing'.shown = new
        /\ listing' \in [pc : {"idle", "reading", "done"}, all : BOOLEAN, before : Nat, at : Nat,
                         shown : [kept -> Nat]]
    BY <1>2, <1>3 DEF ListingInv, ListingTyped
  <1>5. ListingTyped'
    BY <1>2, <1>4 DEF ListingTyped
  <1>6. PagesComplete'
    BY <1>2, <1>4 DEF ListingInv, PagesComplete
  <1>7. ASSUME listing.pc = "reading" PROVE ReadingSound'
    <2>1. ReadingSound
      BY <1>7 DEF ListingInv
    <2>2. \A c \in kept : c \in Listed(listing.all)
      BY <2>1 DEF ReadingSound
    <2>3. \A c \in kept : c \in Listed(listing.all)'
      BY <1>4, <2>2 DEF Listed, Owned, Reachable, Actor
    <2>4. \A c \in kept : IsBehind(c)' <=> IsBehind(c)
      BY <1>4 DEF IsBehind, Precedes
    <2>5. kept \subseteq Listed(listing.all)'
      BY <2>3
    <2>6. \A c \in kept : new[c] = IF IsBehind(c)' THEN 0 ELSE 1
      BY <1>2, <2>1, <2>4 DEF ReadingSound
    <2> QED
      BY <1>2, <1>4, <2>5, <2>6 DEF ReadingSound
  <1> QED
    BY <1>4, <1>5, <1>6, <1>7 DEF ListingInv

LEMMA TouchListing ==
    ASSUME ListingInv, NEW cs, NEW stamp, NEW table, Touch(cs, stamp, table)
    PROVE  ListingInv'
  <1> DEFINE kept == DOMAIN listing.shown \ cs
  <1>1. /\ UNCHANGED migrated
        /\ listing' = [listing EXCEPT !.shown = [c \in kept |-> listing.shown[c]]]
    BY DEF Touch, Disturb, ListingInv, ListingTyped
  <1>2. \A c \in kept : c \in DOMAIN conversation' /\ conversation'[c] = conversation[c]
    BY DEF Touch, ListingInv, ListingTyped
  <1> QED
    BY <1>1, <1>2, OthersStep

LEMMA SameListing ==
    ASSUME ListingInv, UNCHANGED <<migrated, listing>>,
           \A c \in DOMAIN conversation :
               c \in DOMAIN conversation' /\ conversation'[c] = conversation[c]
    PROVE  ListingInv'
  <1>1. listing.shown = [c \in DOMAIN listing.shown |-> listing.shown[c]]
    BY DEF ListingInv, ListingTyped
  <1>2. listing' = [listing EXCEPT !.shown = [c \in DOMAIN listing.shown |-> listing.shown[c]]]
    BY <1>1 DEF ListingInv, ListingTyped
  <1>3. \A c \in DOMAIN listing.shown : c \in DOMAIN conversation' /\ conversation'[c] = conversation[c]
    BY DEF ListingInv, ListingTyped
  <1> QED
    BY <1>2, <1>3, OthersStep

\* A guest's list under way ends with the sign-in: all its rows change their owner.
LEMMA MigrateListing ==
    ASSUME RowTypes, ListingInv, NEW stamp, Migrate(stamp)
    PROVE  ListingInv'
  <1> DEFINE guests == {c \in DOMAIN conversation : conversation[c].owner = "guest"}
             kept == DOMAIN listing.shown \ guests
  <1>1. PICK new : new = [c \in kept |-> listing.shown[c]]
    OBVIOUS
  <1>2. /\ listing' = [listing EXCEPT !.shown = new]
        /\ ~migrated /\ DOMAIN conversation' = DOMAIN conversation
    BY <1>1 DEF Migrate, HandOver, Disturb, ListingInv, ListingTyped
  <1>3. /\ DOMAIN new = kept /\ new \in [kept -> Nat] /\ \A c \in kept : new[c] = listing.shown[c]
        /\ kept \subseteq DOMAIN conversation
    BY <1>1 DEF ListingInv, ListingTyped
  <1>4. listing.pc = "reading" => kept = {}
    <2> SUFFICES ASSUME listing.pc = "reading" PROVE DOMAIN listing.shown \subseteq guests
      OBVIOUS
    <2>1. DOMAIN listing.shown \subseteq Listed(listing.all)
      BY DEF ListingInv, ReadingSound
    <2> QED
      BY <1>2, <2>1 DEF Listed, Owned, Actor
  <1> HIDE DEF kept, guests
  <1>5. /\ listing'.pc = listing.pc /\ listing'.shown = new
        /\ listing' \in [pc : {"idle", "reading", "done"}, all : BOOLEAN, before : Nat, at : Nat,
                         shown : [kept -> Nat]]
    BY <1>2, <1>3 DEF ListingInv, ListingTyped
  <1>6. ListingTyped'
    BY <1>2, <1>3, <1>5 DEF ListingTyped
  <1>7. kept \subseteq DOMAIN listing.shown
    BY DEF kept
  <1>8. PagesComplete'
    BY <1>3, <1>5, <1>7 DEF ListingInv, PagesComplete
  <1>9. listing.pc = "reading" => ReadingSound'
    BY <1>3, <1>4, <1>5 DEF ReadingSound
  <1> QED
    BY <1>5, <1>6, <1>8, <1>9 DEF ListingInv

LEMMA StartListing ==
    ASSUME ListingInv, NEW all \in BOOLEAN, Start(all)
    PROVE  ListingInv'
  <1>1. PICK new : new = [c \in Listed(all) |-> 0]
    OBVIOUS
  <1>2. listing' = [NoListing EXCEPT !.pc = "reading", !.all = all, !.shown = new]
    BY <1>1 DEF Start
  <1>3. /\ DOMAIN new = Listed(all) /\ new \in [Listed(all) -> Nat]
        /\ \A c \in Listed(all) : new[c] = 0
        /\ Listed(all) \subseteq DOMAIN conversation
    BY <1>1 DEF Listed, Owned
  <1>4. UNCHANGED <<conversation, migrated>>
    BY DEF Start
  <1>5. /\ listing'.pc = "reading" /\ listing'.all = all /\ listing'.before = 0
        /\ listing'.shown = new
        /\ listing' \in [pc : {"idle", "reading", "done"}, all : BOOLEAN, before : Nat, at : Nat,
                         shown : [Listed(all) -> Nat]]
    BY <1>2, <1>3 DEF NoListing
  <1>6. ListingTyped'
    BY <1>3, <1>4, <1>5 DEF ListingTyped
  <1>7. Listed(all)' = Listed(all)
    BY <1>4 DEF Listed, Owned, Reachable, Actor
  <1>8. ReadingSound'
    BY <1>3, <1>5, <1>7 DEF ReadingSound, IsBehind
  <1> QED
    BY <1>5, <1>6, <1>8 DEF ListingInv, PagesComplete

\* The page shows each row of its ranks once; the next cursor is its last row, so that what
\* is behind the next cursor is what was behind this one and is not on the page.
LEMMA PageListing ==
    ASSUME RowTypes, ListingInv, Page
    PROVE  ListingInv'
  <1>1. PICK rows : rows = Behind
    OBVIOUS
  <1>2. PICK records : records = FirstOf(rows, Limit + 1)
    OBVIOUS
  <1>3. PICK n : n = PageLength(rows)
    OBVIOUS
  <1>4. /\ listing.pc = "reading" /\ ReadingSound /\ ListingTyped
        /\ UNCHANGED <<conversation, migrated>>
    BY DEF Page, ReadPage, ListingInv
  <1>5. rows \subseteq Listed(listing.all) /\ \A c \in Listed(listing.all) : c \in rows <=> IsBehind(c)
    BY <1>1 DEF Behind, IsBehind
  <1>6. Listed(listing.all) \subseteq DOMAIN conversation /\ rows \in SUBSET DOMAIN conversation
    BY <1>5 DEF Listed, Owned
  <1>7. PICK new : new = [c \in DOMAIN listing.shown |-> listing.shown[c] + Times(c, Shown(rows))]
    OBVIOUS
  <1>8. \A c \in DOMAIN listing.shown :
            /\ c \in rows /\ Rank(c, rows) <= n => new[c] = 1
            /\ c \in rows /\ ~(Rank(c, rows) <= n) => new[c] = 0
            /\ c \notin rows => new[c] = 1
    <2> SUFFICES ASSUME NEW c \in DOMAIN listing.shown
                 PROVE  /\ c \in rows /\ Rank(c, rows) <= n => new[c] = 1
                        /\ c \in rows /\ ~(Rank(c, rows) <= n) => new[c] = 0
                        /\ c \notin rows => new[c] = 1
      OBVIOUS
    <2>1. new[c] = listing.shown[c] + Times(c, Shown(rows))
      BY <1>7
    <2>2. listing.shown[c] = IF c \in rows THEN 0 ELSE 1
      BY <1>4, <1>5 DEF ReadingSound
    <2> QED
      BY <1>3, <1>6, <2>1, <2>2, ShownTimes
  <1>9. DOMAIN new = DOMAIN listing.shown /\ new \in [DOMAIN listing.shown -> Nat]
    BY <1>7, <1>8
  <1>10. Cardinality(rows) \in Nat /\ Limit \in Nat \ {0}
    BY <1>6, RowsFinite, LimitAssumption
  <1>11. CASE Cardinality(rows) > Limit
    <2>1. Len(records) > Limit /\ n = Limit /\ Limit \in 1..n
      BY <1>2, <1>3, <1>6, <1>10, <1>11, ShownRows DEF PageLength
    <2>2. PICK r : r = records[Limit]
      OBVIOUS
    <2>3. r \in rows /\ Rank(r, rows) = Limit
      BY <1>2, <1>3, <1>6, <1>11, <2>1, <2>2, ShownRows
    <2>4. PICK at : at = conversation[r].updatedAt
      OBVIOUS
    <2>5. r \in Nat \ {0} /\ at \in Nat
      <3>1. conversation \in Seq(RowRecord) /\ r \in DOMAIN conversation
        BY <1>6, <2>3 DEF RowTypes
      <3>2. r \in Nat \ {0} /\ conversation[r] \in RowRecord
        BY <3>1
      <3> QED
        BY <3>2, <2>4, LimitAssumption DEF RowRecord
    <2>6. listing' = [listing EXCEPT !.pc = "reading", !.shown = new, !.before = r, !.at = at]
      BY <1>1, <1>2, <1>7, <2>1, <2>2, <2>4 DEF Page, ReadPage, Shown
    <2>7. /\ listing'.pc = "reading" /\ listing'.all = listing.all /\ listing'.before = r
          /\ listing'.at = at /\ listing'.shown = new
          /\ listing' \in [pc : {"idle", "reading", "done"}, all : BOOLEAN, before : Nat, at : Nat,
                           shown : [DOMAIN listing.shown -> Nat]]
      BY <1>4, <1>9, <2>5, <2>6 DEF ListingTyped
    <2>8. ListingTyped'
      BY <1>4, <1>9, <2>7 DEF ListingTyped
    <2>9. Listed(listing.all)' = Listed(listing.all)
      BY <1>4, <2>7 DEF Listed, Owned, Reachable, Actor
    <2>10. \A c \in DOMAIN listing.shown : IsBehind(c)' <=> Newer(r, c)
      BY <1>4, <2>4, <2>5, <2>7 DEF IsBehind, Newer, Precedes
    <2>11. \A c \in DOMAIN listing.shown : new[c] = IF Newer(r, c) THEN 0 ELSE 1
      <3> SUFFICES ASSUME NEW c \in DOMAIN listing.shown
                   PROVE  new[c] = IF Newer(r, c) THEN 0 ELSE 1
        OBVIOUS
      <3>1. c \in Listed(listing.all) /\ c \in DOMAIN conversation
        BY <1>4, <1>6 DEF ReadingSound
      <3>2. CASE c \in rows
        <4>1. Rank(c, rows) \in Nat
          BY <1>6, <3>2, RankRange
        <4>2. Newer(r, c) => Limit < Rank(c, rows)
          BY <1>6, <2>3, <3>2, RankOrder
        <4>3. Newer(c, r) => Rank(c, rows) < Limit
          BY <1>6, <2>3, <3>2, RankOrder
        <4>4. c = r \/ Newer(c, r) \/ Newer(r, c)
          BY <1>6, <2>3, <3>1, NewerOrder
        <4>5. Newer(r, c) <=> ~(Rank(c, rows) <= n)
          BY <1>10, <2>1, <2>3, <4>1, <4>2, <4>3, <4>4
        <4> QED
          BY <1>8, <3>2, <4>5
      <3>3. CASE c \notin rows
        <4>1. ~IsBehind(c) /\ IsBehind(r)
          BY <1>5, <2>3, <3>1, <3>3
        <4>2. ~Newer(r, c)
          <5>1. /\ c \in Nat /\ conversation[c].updatedAt \in Nat
                /\ listing.at \in Nat /\ listing.before \in Nat
            <6>1. conversation \in Seq(RowRecord)
              BY DEF RowTypes
            <6>2. c \in Nat /\ conversation[c] \in RowRecord
              BY <3>1, <6>1
            <6> QED
              BY <1>4, <6>2, LimitAssumption DEF RowRecord, ListingTyped
          <5> QED
            BY <2>4, <2>5, <4>1, <5>1 DEF IsBehind, Newer, Precedes
        <4> QED
          BY <1>8, <3>3, <4>2
      <3> QED
        BY <3>2, <3>3
    <2>12. \A c \in DOMAIN new : new[c] = IF IsBehind(c)' THEN 0 ELSE 1
      BY <1>9, <2>10, <2>11
    <2>13. ReadingSound'
      BY <1>4, <1>9, <2>7, <2>9, <2>12 DEF ReadingSound
    <2> QED
      BY <2>7, <2>8, <2>13 DEF ListingInv, PagesComplete
  <1>12. CASE ~(Cardinality(rows) > Limit)
    <2>1. ~(Len(records) > Limit) /\ n = Cardinality(rows)
      BY <1>2, <1>3, <1>6, <1>10, <1>12, ShownRows DEF PageLength
    <2>2. listing' = [listing EXCEPT !.pc = "done", !.shown = new, !.before = 0, !.at = 0]
      BY <1>1, <1>2, <1>7, <2>1 DEF Page, ReadPage, Shown
    <2>3. /\ listing'.pc = "done" /\ listing'.shown = new
          /\ listing' \in [pc : {"idle", "reading", "done"}, all : BOOLEAN, before : Nat, at : Nat,
                           shown : [DOMAIN listing.shown -> Nat]]
      BY <1>4, <1>9, <2>2 DEF ListingTyped
    <2>4. ListingTyped'
      BY <1>4, <1>9, <2>3 DEF ListingTyped
    <2>5. \A c \in rows : Rank(c, rows) <= n
      BY <1>6, <1>10, <2>1, RankRange
    <2>6. \A c \in DOMAIN new : new[c] = 1
      BY <1>8, <1>9, <2>5
    <2> QED
      BY <2>3, <2>4, <2>6 DEF ListingInv, PagesComplete
  <1> QED
    BY <1>11, <1>12

LEMMA NextListing == RowsInv /\ ListingInv /\ [ConversationsNext]_conversationsVars => ListingInv'
  <1> SUFFICES ASSUME RowTypes, ListingInv, [ConversationsNext]_conversationsVars PROVE ListingInv'
    BY DEF RowsInv
  <1>1. ASSUME NEW q \in Requests,
               \/ \E key \in Keys : Post(q, key)
               \/ Refuse(q) \/ AnswerCreation(q)
        PROVE  ListingInv'
    <2>1. UNCHANGED <<conversation, migrated, listing>>
      BY <1>1 DEF Post, Refuse, AnswerCreation
    <2> QED
      BY <2>1, SameListing
  <1>2. ASSUME NEW q \in Requests, NEW stamp \in Stamps, Insert(q, stamp) PROVE ListingInv'
    <2>1. /\ UNCHANGED <<migrated, listing>>
          /\ \E row : conversation' = Append(conversation, row)
      BY <1>2 DEF Insert
    <2>2. PICK row : conversation' = Append(conversation, row)
      BY <2>1
    <2>3. conversation \in Seq(RowRecord)
      BY DEF RowTypes
    <2>4. \A c \in DOMAIN conversation : c \in DOMAIN conversation' /\ conversation'[c] = conversation[c]
      BY <2>2, <2>3
    <2> QED
      BY <2>1, <2>4, SameListing
  <1>3. ASSUME NEW c \in DOMAIN conversation, NEW stamp \in Stamps,
               Update(c, stamp) \/ Delete(c, stamp) \/ Archive(c, stamp)
        PROVE  ListingInv'
    <2>1. \E table : Touch({c}, stamp, table)
      BY <1>3 DEF Update, Delete, Archive
    <2>2. PICK table : Touch({c}, stamp, table)
      BY <2>1
    <2> QED
      BY <2>2, TouchListing
  <1>4. ASSUME NEW stamp \in Stamps, Migrate(stamp) PROVE ListingInv'
    BY <1>4, MigrateListing
  <1>5. ASSUME NEW all \in BOOLEAN, Start(all) PROVE ListingInv'
    BY <1>5, StartListing
  <1>6. CASE Page
    BY <1>6, PageListing
  <1>7. CASE UNCHANGED conversationsVars
    BY <1>7, SameListing DEF conversationsVars
  <1> QED
    BY <1>1, <1>2, <1>3, <1>4, <1>5, <1>6, <1>7 DEF ConversationsNext

THEOREM ListingInvariant == ConversationsSpec => []ListingInv
  BY InitListing, NextListing, RowsInvariant, PTL DEF ConversationsSpec

\* Rows, requests and the reader keep their types; what a reader has is of rows that exist.
THEOREM ConversationsTypeCorrect == ConversationsSpec => []ConversationsTypeOK
  <1>1. RowsInv /\ ListingInv => ConversationsTypeOK
    <2> SUFFICES ASSUME RowsInv, ListingInv PROVE ConversationsTypeOK
      OBVIOUS
    <2>1. \A q \in Requests : creation[q] = NoCreation \/ creation[q] \in CreationRecord
      BY DEF RowsInv, RowTypes
    <2> QED
      BY <2>1 DEF RowsInv, RowTypes, RowRecord, CreationRecord, ListingInv, ListingTyped,
                  ConversationsTypeOK
  <1> QED
    BY <1>1, RowsInvariant, ListingInvariant, PTL

\* Whoever follows the cursors to the end has seen every conversation that nobody changed
\* exactly once, for every page size and however timestamps tie (List,
\* encodeConversationCursor, ListUserConversations).
THEOREM PagesAlwaysComplete == ConversationsSpec => []PagesComplete
  <1>1. ListingInv => PagesComplete
    BY DEF ListingInv
  <1> QED
    BY <1>1, ListingInvariant, PTL
=============================================================================
