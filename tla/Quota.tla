------------------------------- MODULE Quota -------------------------------
(***************************************************************************)
(* The quota service (internal/quota/service.go): the Redis generation     *)
(* lease of an actor, the PostgreSQL admission transaction under the       *)
(* global advisory lock, the usage rows it charges and the settlement that *)
(* refunds what a generation did not use.                                  *)
(*                                                                         *)
(* One element of Requests is one chat command on its way through          *)
(* MaxOutputTokens, Reserve, the generation itself and Settle.  Every      *)
(* request runs concurrently with the others, on any API replica: Redis    *)
(* and PostgreSQL are the only state they share.                           *)
(***************************************************************************)
EXTENDS Integers, FiniteSets, FiniteSetsExt

CONSTANTS
    Users,                  \* registered actors
    Guests,                 \* guest sessions
    Global,                 \* the synthetic "global" actor of daily_usage
    Requests,               \* chat commands; also their reservation ids and lease owners
    ActorOf,                \* the actor that issued each request
    NoRequest,              \* an absent lease or admission lock
    MaxDay,                 \* bound: UTC days a behaviour spans
    ModelMaxOutput,         \* max_output_tokens of the selected model
    UserMessageLimit, UserOutputLimit,      \* per user and UTC day
    GuestMessageLimit, GuestOutputLimit,    \* per guest session, never reset
    GlobalMessageCap, GlobalOutputCap,      \* over all actors, per UTC day
    GlobalConcurrentLimit                   \* reservations open at a time

Actors == Users \cup Guests
Limits == {ModelMaxOutput, UserMessageLimit, UserOutputLimit, GuestMessageLimit,
           GuestOutputLimit, GlobalMessageCap, GlobalOutputCap, GlobalConcurrentLimit}

ASSUME ActorAssumption ==
    /\ Users \cap Guests = {}
    /\ Global \notin Actors
    /\ ActorOf \in [Requests -> Actors]
    /\ NoRequest \notin Requests
    /\ IsFiniteSet(Requests)

\* integerDefinitions of internal/admin/service.go and DefaultPolicy admit positive limits only.
ASSUME LimitAssumption == MaxDay \in Nat \ {0} /\ Limits \subseteq Nat \ {0}

Days == 1..MaxDay

(***************************************************************************)
(* A usage row: daily_usage is keyed by actor and UTC date, a guest's      *)
(* allowance is in its guest_sessions row and never resets.                *)
(***************************************************************************)
Accounts == (Actors \cup {Global}) \X Days
AccountOf(actor, date) == <<actor, IF actor \in Guests THEN 1 ELSE date>>

MessageLimit(actor) ==
    IF actor = Global THEN GlobalMessageCap
    ELSE IF actor \in Guests THEN GuestMessageLimit ELSE UserMessageLimit
OutputLimit(actor) ==
    IF actor = Global THEN GlobalOutputCap
    ELSE IF actor \in Guests THEN GuestOutputLimit ELSE UserOutputLimit

VARIABLES
    day,            \* current UTC date
    pc,             \* pc[q]: how far request q got
    maxOutput,      \* maxOutput[q]: tokens q asks to reserve, 0 before MaxOutputTokens ran
    startedOn,      \* startedOn[q]: the usage date Reserve computed, 0 before Reserve
    counted,        \* counted[q]: open reservations q counted under the admission lock
    lease,          \* lease[a]: the request whose owner token is in Redis
    admission,      \* the transaction that holds the global admission advisory lock
    messages,       \* messages[<<a, d>>]: messages_used or prompt_count
    tokens,         \* tokens[<<a, d>>]: output_tokens_used or output_token_count
    status,         \* status[q]: the quota_reservations row of q
    actual,         \* actual[q]: actual_output_tokens
    lapsed          \* requests whose lease expired while they still needed it

vars == <<day, pc, maxOutput, startedOn, counted, lease, admission,
          messages, tokens, status, actual, lapsed>>

Phases == {"idle", "budgeted", "leased", "admitting", "working", "releasing",
           "refused", "done", "crashed"}

TypeOK ==
    /\ day \in Days
    /\ pc \in [Requests -> Phases]
    /\ maxOutput \in [Requests -> Nat]
    /\ startedOn \in [Requests -> 0..MaxDay]
    /\ counted \in [Requests -> Nat]
    /\ lease \in [Actors -> Requests \cup {NoRequest}]
    /\ admission \in Requests \cup {NoRequest}
    /\ messages \in [Accounts -> Nat]
    /\ tokens \in [Accounts -> Nat]
    /\ status \in [Requests -> {"none", "reserved", "committed", "refunded"}]
    /\ actual \in [Requests -> Nat]
    /\ lapsed \in SUBSET Requests

Init ==
    /\ day = 1
    /\ pc = [q \in Requests |-> "idle"]
    /\ maxOutput = [q \in Requests |-> 0]
    /\ startedOn = [q \in Requests |-> 0]
    /\ counted = [q \in Requests |-> 0]
    /\ lease = [a \in Actors |-> NoRequest]
    /\ admission = NoRequest
    /\ messages = [acc \in Accounts |-> 0]
    /\ tokens = [acc \in Accounts |-> 0]
    /\ status = [q \in Requests |-> "none"]
    /\ actual = [q \in Requests |-> 0]
    /\ lapsed = {}

-----------------------------------------------------------------------------
(* Operators *)

Smaller(x, y) == IF x < y THEN x ELSE y
Deduct(x, y) == IF x > y THEN x - y ELSE 0      \* GREATEST(x - y, 0)

\* The smallest of the model's limit and what is left of both budgets; may be <= 0.
AvailableOutput(actor, date) ==
    Smaller(ModelMaxOutput,
            Smaller(OutputLimit(actor) - tokens[AccountOf(actor, date)],
                    GlobalOutputCap - tokens[AccountOf(Global, date)]))

OpenReservations == {q \in Requests : status[q] = "reserved"}

\* Variant: the WHERE compares the row as it is, not as it becomes.
RowNotFull(actor, date, n) ==
    LET row == AccountOf(actor, date) IN
    messages[row] <= MessageLimit(actor) /\ tokens[row] <= OutputLimit(actor)

(***************************************************************************)
(* Whether the row of actor admits one more message and n more tokens.     *)
(* AddDailyUsage inserts the first row of a day without looking at the     *)
(* limits: its WHERE belongs to the ON CONFLICT branch.  The guest update  *)
(* always looks.                                                           *)
(***************************************************************************)
RowAdmits(actor, date, n) ==
    LET row == AccountOf(actor, date) IN
    \/ messages[row] = 0 /\ actor \notin Guests
    \/ /\ messages[row] + 1 <= MessageLimit(actor)
       /\ tokens[row] + n <= OutputLimit(actor)

Admissible(q) ==
    /\ counted[q] < GlobalConcurrentLimit
    /\ RowAdmits(ActorOf[q], startedOn[q], maxOutput[q])
    /\ RowAdmits(Global, startedOn[q], maxOutput[q])

\* The two usage rows a reservation of q charges.
RowsOf(q) == {AccountOf(ActorOf[q], startedOn[q]), AccountOf(Global, startedOn[q])}

-----------------------------------------------------------------------------
(* Actions *)

\* MaxOutputTokens: reads the remaining budgets, outside any transaction.
CheckBudget(q) ==
    LET available == AvailableOutput(ActorOf[q], day) IN
    /\ pc[q] = "idle"
    /\ \/ /\ available > 0
          /\ pc' = [pc EXCEPT ![q] = "budgeted"]
          /\ maxOutput' = [maxOutput EXCEPT ![q] = available]
       \/ /\ available <= 0
          /\ pc' = [pc EXCEPT ![q] = "refused"]
          /\ UNCHANGED maxOutput
    /\ UNCHANGED <<day, startedOn, counted, lease, admission, messages, tokens,
                   status, actual, lapsed>>

\* Variant: SET instead of SETNX.
AcquireLeaseAlways(q) ==
    /\ pc[q] = "budgeted"
    /\ lease' = [lease EXCEPT ![ActorOf[q]] = q]
    /\ startedOn' = [startedOn EXCEPT ![q] = day]
    /\ pc' = [pc EXCEPT ![q] = "leased"]
    /\ UNCHANGED <<day, maxOutput, counted, admission, messages, tokens, status,
                   actual, lapsed>>

\* Reserve, first half: rate limits, then SETNX of the actor's generation lease.
\* The rate windows are the environment's: they may refuse any request.
AcquireLease(q) ==
    /\ pc[q] = "budgeted"
    /\ \/ /\ lease[ActorOf[q]] = NoRequest
          /\ lease' = [lease EXCEPT ![ActorOf[q]] = q]
          /\ startedOn' = [startedOn EXCEPT ![q] = day]
          /\ pc' = [pc EXCEPT ![q] = "leased"]
       \/ /\ pc' = [pc EXCEPT ![q] = "refused"]     \* rate limited, the lease is taken, or
          /\ \/ UNCHANGED lease                     \* the reply of Redis is lost
             \/ lease[ActorOf[q]] = NoRequest /\ lease' = [lease EXCEPT ![ActorOf[q]] = q]
          /\ UNCHANGED startedOn
    /\ UNCHANGED <<day, maxOutput, counted, admission, messages, tokens, status,
                   actual, lapsed>>

\* Variant: the reservations are counted without the advisory lock.
BeginAdmissionUnlocked(q) ==
    /\ pc[q] = "leased"
    /\ admission' = q
    /\ counted' = [counted EXCEPT ![q] = Cardinality(OpenReservations)]
    /\ pc' = [pc EXCEPT ![q] = "admitting"]
    /\ UNCHANGED <<day, maxOutput, startedOn, lease, messages, tokens, status,
                   actual, lapsed>>

\* The admission transaction opens: advisory lock, then the count of open reservations.
BeginAdmission(q) ==
    /\ pc[q] = "leased"
    /\ admission = NoRequest
    /\ admission' = q
    /\ counted' = [counted EXCEPT ![q] = Cardinality(OpenReservations)]
    /\ pc' = [pc EXCEPT ![q] = "admitting"]
    /\ UNCHANGED <<day, maxOutput, startedOn, lease, messages, tokens, status,
                   actual, lapsed>>

\* It commits: both usage rows are charged and the reservation exists.  When the reply
\* to COMMIT is lost, Reserve fails all the same and nobody will settle it.
CommitAdmission(q) ==
    /\ pc[q] = "admitting"
    /\ Admissible(q)
    /\ messages' = [row \in Accounts |-> messages[row] + IF row \in RowsOf(q) THEN 1 ELSE 0]
    /\ tokens' = [row \in Accounts |-> tokens[row] + IF row \in RowsOf(q) THEN maxOutput[q] ELSE 0]
    /\ status' = [status EXCEPT ![q] = "reserved"]
    /\ admission' = NoRequest
    /\ counted' = [counted EXCEPT ![q] = 0]
    /\ \E phase \in {"working", "releasing"} : pc' = [pc EXCEPT ![q] = phase]
    /\ UNCHANGED <<day, maxOutput, startedOn, lease, actual, lapsed>>

\* It rolls back, because a limit is reached or the database fails; the deferred release follows.
AbortAdmission(q) ==
    /\ pc[q] = "admitting"
    /\ admission' = NoRequest
    /\ counted' = [counted EXCEPT ![q] = 0]
    /\ pc' = [pc EXCEPT ![q] = "releasing"]
    /\ UNCHANGED <<day, maxOutput, startedOn, lease, messages, tokens,
                   status, actual, lapsed>>

\* Variant: Settle refunds to the usage rows of the current day.
SettleToday(q) ==
    /\ pc[q] = "working"
    /\ status[q] = "reserved"
    /\ \E n \in 0..maxOutput[q] :
          /\ tokens' = [row \in Accounts |->
                IF row \in {AccountOf(ActorOf[q], day), AccountOf(Global, day)}
                THEN Deduct(tokens[row], maxOutput[q] - n) ELSE tokens[row]]
          /\ status' = [status EXCEPT ![q] = IF n = 0 THEN "refunded" ELSE "committed"]
          /\ actual' = [actual EXCEPT ![q] = n]
    /\ pc' = [pc EXCEPT ![q] = "releasing"]
    /\ UNCHANGED <<day, maxOutput, startedOn, counted, lease, admission, messages, lapsed>>

\* Variant: the delta of the usage rows is recorded as the tokens used.
SettleDelta(q) ==
    /\ pc[q] = "working"
    /\ status[q] = "reserved"
    /\ \E n \in 0..maxOutput[q] :
          /\ tokens' = [row \in Accounts |->
                IF row \in RowsOf(q) THEN Deduct(tokens[row], maxOutput[q] - n) ELSE tokens[row]]
          /\ status' = [status EXCEPT ![q] = IF n = 0 THEN "refunded" ELSE "committed"]
          /\ actual' = [actual EXCEPT ![q] = n - maxOutput[q]]
    /\ pc' = [pc EXCEPT ![q] = "releasing"]
    /\ UNCHANGED <<day, maxOutput, startedOn, counted, lease, admission, messages, lapsed>>

\* Settle, for a generation that used n of its reserved tokens.
SettleReservation(q) ==
    /\ pc[q] = "working"
    /\ status[q] = "reserved"
    /\ \E n \in 0..maxOutput[q] :
          /\ tokens' = [row \in Accounts |->
                          IF row \in RowsOf(q) THEN Deduct(tokens[row], maxOutput[q] - n)
                          ELSE tokens[row]]
          /\ status' = [status EXCEPT ![q] = IF n = 0 THEN "refunded" ELSE "committed"]
          /\ actual' = [actual EXCEPT ![q] = n]
    /\ pc' = [pc EXCEPT ![q] = "releasing"]
    /\ UNCHANGED <<day, maxOutput, startedOn, counted, lease, admission, messages, lapsed>>

\* The settlement transaction fails; every caller ignores the error.
SettleFails(q) ==
    /\ pc[q] = "working"
    /\ pc' = [pc EXCEPT ![q] = "releasing"]
    /\ UNCHANGED <<day, maxOutput, startedOn, counted, lease, admission, messages,
                   tokens, status, actual, lapsed>>

\* The deferred ReleaseLease: the script deletes the key only for its owner.
\* When Redis fails the error is dropped and the key stays until its TTL.
ReleaseLease(q) ==
    LET a == ActorOf[q] IN
    /\ pc[q] = "releasing"
    /\ pc' = [pc EXCEPT ![q] = "done"]
    /\ \/ lease' = [lease EXCEPT ![a] = IF lease[a] = q THEN NoRequest ELSE lease[a]]
       \/ UNCHANGED lease
    /\ lapsed' = lapsed \ {q}
    /\ UNCHANGED <<day, maxOutput, startedOn, counted, admission, messages, tokens,
                   status, actual>>

\* Requests that believe they hold their actor's lease.
Holding == {q \in Requests : pc[q] \in {"leased", "admitting", "working", "releasing"}}

\* The TTL runs out, or Redis evicts the key or restarts.
LeaseExpires(a) ==
    /\ lease[a] # NoRequest
    /\ lease' = [lease EXCEPT ![a] = NoRequest]
    /\ lapsed' = lapsed \cup ({lease[a]} \cap Holding)
    /\ UNCHANGED <<day, pc, maxOutput, startedOn, counted, admission, messages,
                   tokens, status, actual>>

\* The replica that runs q dies; PostgreSQL rolls its transaction back.
Crash(q) ==
    /\ q \in Holding
    /\ pc' = [pc EXCEPT ![q] = "crashed"]
    /\ admission' = IF admission = q THEN NoRequest ELSE admission
    /\ counted' = [counted EXCEPT ![q] = 0]
    /\ lapsed' = lapsed \ {q}
    /\ UNCHANGED <<day, maxOutput, startedOn, lease, messages, tokens, status, actual>>

Midnight ==
    /\ day < MaxDay
    /\ day' = day + 1
    /\ UNCHANGED <<pc, maxOutput, startedOn, counted, lease, admission, messages,
                   tokens, status, actual, lapsed>>

Step(q) ==
    \/ CheckBudget(q)
    \/ AcquireLease(q)
    \/ BeginAdmission(q)
    \/ CommitAdmission(q)
    \/ AbortAdmission(q)
    \/ SettleReservation(q)
    \/ SettleFails(q)
    \/ ReleaseLease(q)
    \/ Crash(q)

Next ==
    \/ \E q \in Requests : Step(q)
    \/ \E a \in Actors : LeaseExpires(a)
    \/ Midnight

Spec == Init /\ [][Next]_vars

-----------------------------------------------------------------------------
(* Properties *)

\* No account is ever charged beyond its limits, although the budget is read long
\* before it is charged and the first row of a day is inserted unchecked
\* (MaxOutputTokens, Reserve, AddDailyUsage, IncrementGuestAllowance).
BudgetsRespected ==
    \A row \in Accounts :
        /\ messages[row] <= MessageLimit(row[1])
        /\ tokens[row] <= OutputLimit(row[1])

\* Over all replicas no more reservations are open than the runtime limit allows:
\* the count is made under the global advisory lock that the insert still holds.
GlobalConcurrency == Cardinality(OpenReservations) <= GlobalConcurrentLimit

\* Two requests of one actor are past AcquireLease at the same time only if the
\* lease of one of them ran out while it was working.
LeaseExcludes ==
    \A q, r \in Holding :
        q # r /\ ActorOf[q] = ActorOf[r] => q \in lapsed \/ r \in lapsed

\* What a reservation contributes to the usage rows it charged.
Charge(q) ==
    IF status[q] = "reserved" THEN maxOutput[q]
    ELSE IF status[q] \in {"committed", "refunded"} THEN actual[q] ELSE 0
ChargedTo(row) == {q \in Requests : status[q] # "none" /\ row \in RowsOf(q)}

\* Every usage row is exactly the sum of its reservations, on the day each of them
\* was made, also when it settles after midnight: nothing is refunded twice, to
\* the wrong day, or lost in the GREATEST(..., 0) of AdjustDailyOutputUsage.
LedgerBalanced ==
    \A row \in Accounts :
        /\ tokens[row] = MapThenSumSet(Charge, ChargedTo(row))
        /\ messages[row] = Cardinality(ChargedTo(row))

\* A step of one request never takes the lease of another away, not even the late
\* release of a request whose own lease lapsed and was taken over (releaseLeaseScript).
NoForeignRelease ==
    [][\A q \in Requests, a \in Actors :
          pc'[q] # pc[q] /\ lease[a] \notin {q, NoRequest} => lease'[a] = lease[a]]_vars

=============================================================================
