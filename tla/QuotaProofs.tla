----------------------------- MODULE QuotaProofs -----------------------------
(***************************************************************************)
(* Proofs about Quota, for every set of actors and requests, every number  *)
(* of days and every positive limit.                                       *)
(***************************************************************************)
EXTENDS Quota, FiniteSetTheorems, WellFoundedInduction, TLAPS

-----------------------------------------------------------------------------
(* Constants and operators *)

\* Every limit is a positive natural number (LimitAssumption, one by one).
LEMMA LimitsArePositive ==
    /\ ModelMaxOutput \in Nat \ {0}
    /\ GlobalConcurrentLimit \in Nat \ {0}
    /\ \A a \in Actors \cup {Global} :
          MessageLimit(a) \in Nat \ {0} /\ OutputLimit(a) \in Nat \ {0}
  BY LimitAssumption DEF Limits, MessageLimit, OutputLimit

\* A usage row belongs to the actor it is looked up for, and is a row of the table.
LEMMA AccountOfActor ==
    ASSUME NEW a \in Actors \cup {Global}, NEW d \in Days
    PROVE  AccountOf(a, d) \in Accounts /\ AccountOf(a, d)[1] = a
  BY LimitAssumption DEF AccountOf, Accounts, Days

\* What MaxOutputTokens grants is a positive number within all three limits.
LEMMA AvailableOutputBounded ==
    ASSUME TypeOK, NEW q \in Requests, AvailableOutput(ActorOf[q], day) > 0
    PROVE  LET n == AvailableOutput(ActorOf[q], day) IN
           n \in Nat /\ n <= OutputLimit(ActorOf[q]) /\ n <= OutputLimit(Global)
  <1>1. ActorOf[q] \in Actors /\ ActorOf[q] \in Actors \cup {Global}
    BY ActorAssumption
  <1>2. /\ tokens[AccountOf(ActorOf[q], day)] \in Nat
        /\ tokens[AccountOf(Global, day)] \in Nat
    BY <1>1, AccountOfActor DEF TypeOK
  <1>3. OutputLimit(Global) = GlobalOutputCap
    BY DEF OutputLimit
  <1>4. /\ OutputLimit(ActorOf[q]) \in Nat
        /\ GlobalOutputCap \in Nat
        /\ ModelMaxOutput \in Nat
    BY <1>1, <1>3, LimitsArePositive
  <1> QED
    BY <1>2, <1>3, <1>4 DEF AvailableOutput, Smaller

-----------------------------------------------------------------------------
(* Type correctness *)

\* Every variable keeps its type: the initial state and each step of the service.
THEOREM TypeCorrect == Spec => []TypeOK
  <1>1. Init => TypeOK
    BY LimitAssumption DEF Init, TypeOK, Phases, Days
  <1>2. TypeOK /\ [Next]_vars => TypeOK'
    <2> SUFFICES ASSUME TypeOK, [Next]_vars PROVE TypeOK'
      OBVIOUS
    <2> USE DEF TypeOK, Phases
    <2>0. \A q \in Requests : ActorOf[q] \in Actors
      BY ActorAssumption
    <2>1. ASSUME NEW q \in Requests, CheckBudget(q) PROVE TypeOK'
      BY <2>1, AvailableOutputBounded DEF CheckBudget
    <2>2. ASSUME NEW q \in Requests, AcquireLease(q) PROVE TypeOK'
      BY <2>2, <2>0 DEF AcquireLease, Days
    <2>3. ASSUME NEW q \in Requests, BeginAdmission(q) PROVE TypeOK'
      <3>1. Cardinality(OpenReservations) \in Nat
        BY ActorAssumption, FS_Subset, FS_CardinalityType DEF OpenReservations
      <3> QED
        BY <2>3, <3>1 DEF BeginAdmission
    <2>4. ASSUME NEW q \in Requests, CommitAdmission(q) PROVE TypeOK'
      BY <2>4 DEF CommitAdmission
    <2>5. ASSUME NEW q \in Requests, AbortAdmission(q) PROVE TypeOK'
      BY <2>5 DEF AbortAdmission
    <2>6. ASSUME NEW q \in Requests, SettleReservation(q) PROVE TypeOK'
      BY <2>6 DEF SettleReservation, Deduct
    <2>7. ASSUME NEW q \in Requests, SettleFails(q) PROVE TypeOK'
      BY <2>7 DEF SettleFails
    <2>8. ASSUME NEW q \in Requests, ReleaseLease(q) PROVE TypeOK'
      BY <2>8, <2>0 DEF ReleaseLease
    <2>9. ASSUME NEW q \in Requests, Crash(q) PROVE TypeOK'
      BY <2>9 DEF Crash
    <2>10. ASSUME NEW a \in Actors, LeaseExpires(a) PROVE TypeOK'
      BY <2>10 DEF LeaseExpires
    <2>11. CASE Midnight
      BY <2>11, LimitAssumption DEF Midnight, Days
    <2>12. CASE UNCHANGED vars
      BY <2>12 DEF vars
    <2> QED
      BY <2>1, <2>2, <2>3, <2>4, <2>5, <2>6, <2>7, <2>8, <2>9, <2>10, <2>11, <2>12
      DEF Next, Step
  <1> QED
    BY <1>1, <1>2, PTL DEF Spec

-----------------------------------------------------------------------------
(* Budgets *)

\* A request never asks for more than its actor's limit or the global cap.
RequestBounded ==
    \A q \in Requests : maxOutput[q] <= OutputLimit(ActorOf[q])
                      /\ maxOutput[q] <= OutputLimit(Global)

\* From the lease on, the usage date of the reservation is fixed.
DateFixed ==
    \A q \in Requests : pc[q] \in {"leased", "admitting", "working"} => startedOn[q] \in Days

\* A row without messages carries no tokens: the unchecked insert starts from zero.
EmptyRows == \A row \in Accounts : messages[row] = 0 => tokens[row] = 0

BudgetInv == RequestBounded /\ DateFixed /\ EmptyRows /\ BudgetsRespected

\* A row that admits n tokens is within its limits after they are charged.
LEMMA AdmittedRowRespected ==
    ASSUME TypeOK, EmptyRows,
           NEW a \in Actors \cup {Global}, NEW d \in Days, NEW n \in Nat,
           RowAdmits(a, d, n), n <= OutputLimit(a)
    PROVE  LET row == AccountOf(a, d) IN
           messages[row] + 1 <= MessageLimit(a) /\ tokens[row] + n <= OutputLimit(a)
  <1> DEFINE row == AccountOf(a, d)
  <1>1. row \in Accounts
    BY AccountOfActor
  <1>2. messages[row] \in Nat /\ tokens[row] \in Nat
    BY <1>1 DEF TypeOK
  <1>3. MessageLimit(a) \in Nat \ {0} /\ OutputLimit(a) \in Nat
    BY LimitsArePositive
  <1>4. CASE messages[row] = 0
    <2>1. tokens[row] = 0
      BY <1>1, <1>4 DEF EmptyRows
    <2> QED
      BY <1>3, <1>4, <2>1
  <1>5. CASE messages[row] # 0
    BY <1>5 DEF RowAdmits
  <1> QED
    BY <1>4, <1>5

\* No step of the service charges an account beyond its limits.
LEMMA BudgetStep == TypeOK /\ BudgetInv /\ [Next]_vars => BudgetInv'
  <1> SUFFICES ASSUME TypeOK, BudgetInv, [Next]_vars PROVE BudgetInv'
    OBVIOUS
  <1> USE DEF BudgetInv
  <1>0. \A q \in Requests : ActorOf[q] \in Actors /\ ActorOf[q] \in Actors \cup {Global}
    BY ActorAssumption
  <1>1. ASSUME NEW q \in Requests, CheckBudget(q) PROVE BudgetInv'
    <2>1. RequestBounded'
      BY <1>1, AvailableOutputBounded DEF CheckBudget, RequestBounded, TypeOK
    <2>2. DateFixed'
      BY <1>1 DEF CheckBudget, DateFixed, TypeOK
    <2> QED
      BY <1>1, <2>1, <2>2 DEF CheckBudget, EmptyRows, BudgetsRespected
  <1>2. ASSUME NEW q \in Requests, AcquireLease(q) PROVE BudgetInv'
    <2>1. DateFixed'
      BY <1>2 DEF AcquireLease, DateFixed, TypeOK
    <2> QED
      BY <1>2, <2>1 DEF AcquireLease, RequestBounded, EmptyRows, BudgetsRespected
  <1>3. ASSUME NEW q \in Requests, BeginAdmission(q) PROVE BudgetInv'
    <2>1. DateFixed'
      BY <1>3 DEF BeginAdmission, DateFixed, TypeOK
    <2> QED
      BY <1>3, <2>1 DEF BeginAdmission, RequestBounded, EmptyRows, BudgetsRespected
  <1>4. ASSUME NEW q \in Requests, CommitAdmission(q) PROVE BudgetInv'
    <2> DEFINE a == ActorOf[q]
               d == startedOn[q]
               n == maxOutput[q]
    <2>1. /\ d \in Days
          /\ n \in Nat /\ n <= OutputLimit(a) /\ n <= OutputLimit(Global)
      BY <1>4 DEF CommitAdmission, DateFixed, RequestBounded, TypeOK
    <2>2. RowAdmits(a, d, n) /\ RowAdmits(Global, d, n)
      BY <1>4 DEF CommitAdmission, Admissible
    <2>3. ASSUME NEW row \in Accounts
          PROVE  /\ (messages[row] <= MessageLimit(row[1]))'
                 /\ (tokens[row] <= OutputLimit(row[1]))'
                 /\ (messages[row] = 0 => tokens[row] = 0)'
      <3>1. messages[row] \in Nat /\ tokens[row] \in Nat
        BY DEF TypeOK
      <3>2. CASE row \notin RowsOf(q)
        <4>1. messages'[row] = messages[row] /\ tokens'[row] = tokens[row]
          BY <1>4, <3>1, <3>2 DEF CommitAdmission
        <4> QED
          BY <4>1 DEF BudgetsRespected, EmptyRows
      <3>3. CASE row \in RowsOf(q)
        <4>1. messages'[row] = messages[row] + 1 /\ tokens'[row] = tokens[row] + n
          BY <1>4, <3>3 DEF CommitAdmission
        <4>2. PICK b \in {a, Global} : row = AccountOf(b, d)
          BY <3>3 DEF RowsOf
        <4>3. b \in Actors \cup {Global} /\ n <= OutputLimit(b) /\ RowAdmits(b, d, n)
          BY <1>0, <2>1, <2>2
        <4>4. row[1] = b
          BY <2>1, <4>2, <4>3, AccountOfActor
        <4>5. messages[row] + 1 <= MessageLimit(b) /\ tokens[row] + n <= OutputLimit(b)
          BY <2>1, <4>2, <4>3, AdmittedRowRespected
        <4> QED
          BY <3>1, <4>1, <4>4, <4>5
      <3> QED
        BY <3>2, <3>3
    <2>4. DateFixed' /\ RequestBounded'
      BY <1>4 DEF CommitAdmission, DateFixed, RequestBounded, TypeOK
    <2> QED
      BY <2>3, <2>4 DEF BudgetsRespected, EmptyRows
  <1>5. ASSUME NEW q \in Requests, AbortAdmission(q) PROVE BudgetInv'
    <2>1. DateFixed'
      BY <1>5 DEF AbortAdmission, DateFixed, TypeOK
    <2> QED
      BY <1>5, <2>1 DEF AbortAdmission, RequestBounded, EmptyRows, BudgetsRespected
  <1>6. ASSUME NEW q \in Requests, SettleReservation(q) PROVE BudgetInv'
    <2>1. ASSUME NEW row \in Accounts
          PROVE  tokens'[row] \in Nat /\ tokens'[row] <= tokens[row]
      BY <1>6 DEF SettleReservation, Deduct, TypeOK
    <2>2. EmptyRows'
      BY <1>6, <2>1 DEF SettleReservation, EmptyRows, TypeOK
    <2>3. BudgetsRespected'
      <3> SUFFICES ASSUME NEW row \in Accounts
                   PROVE  tokens'[row] <= OutputLimit(row[1]) /\ messages'[row] <= MessageLimit(row[1])
        BY DEF BudgetsRespected
      <3>1. OutputLimit(row[1]) \in Nat
        BY LimitsArePositive DEF Accounts
      <3> QED
        BY <1>6, <2>1, <3>1 DEF SettleReservation, BudgetsRespected, TypeOK
    <2>4. DateFixed'
      BY <1>6 DEF SettleReservation, DateFixed, TypeOK
    <2> QED
      BY <1>6, <2>2, <2>3, <2>4 DEF SettleReservation, RequestBounded
  <1>7. ASSUME NEW q \in Requests, SettleFails(q) PROVE BudgetInv'
    <2>1. DateFixed'
      BY <1>7 DEF SettleFails, DateFixed, TypeOK
    <2> QED
      BY <1>7, <2>1 DEF SettleFails, RequestBounded, EmptyRows, BudgetsRespected
  <1>8. ASSUME NEW q \in Requests, ReleaseLease(q) PROVE BudgetInv'
    <2>1. DateFixed'
      BY <1>8 DEF ReleaseLease, DateFixed, TypeOK
    <2> QED
      BY <1>8, <2>1 DEF ReleaseLease, RequestBounded, EmptyRows, BudgetsRespected
  <1>9. ASSUME NEW q \in Requests, Crash(q) PROVE BudgetInv'
    <2>1. DateFixed'
      BY <1>9 DEF Crash, DateFixed, TypeOK
    <2> QED
      BY <1>9, <2>1 DEF Crash, RequestBounded, EmptyRows, BudgetsRespected
  <1>10. ASSUME NEW a \in Actors, LeaseExpires(a) PROVE BudgetInv'
    BY <1>10 DEF LeaseExpires, RequestBounded, DateFixed, EmptyRows, BudgetsRespected
  <1>11. CASE Midnight
    BY <1>11 DEF Midnight, RequestBounded, DateFixed, EmptyRows, BudgetsRespected
  <1>12. CASE UNCHANGED vars
    BY <1>12 DEF vars, RequestBounded, DateFixed, EmptyRows, BudgetsRespected
  <1> QED
    BY <1>1, <1>2, <1>3, <1>4, <1>5, <1>6, <1>7, <1>8, <1>9, <1>10, <1>11, <1>12
    DEF Next, Step

\* No account is ever charged beyond its limits, whatever the interleaving of
\* MaxOutputTokens, Reserve and Settle, and although AddDailyUsage inserts the
\* first row of a day without a check.
THEOREM BudgetsAlwaysRespected == Spec => []BudgetsRespected
  <1>1. Init => BudgetInv
    BY ActorAssumption, LimitsArePositive
    DEF Init, BudgetInv, RequestBounded, DateFixed, EmptyRows, BudgetsRespected, Accounts
  <1> QED
    BY <1>1, BudgetStep, TypeCorrect, PTL DEF Spec, BudgetInv

-----------------------------------------------------------------------------
(* Admission under the advisory lock *)

\* The transaction that is admitting holds the lock, and since it counted the open
\* reservations none was added.
AdmissionInv ==
    \A q \in Requests : pc[q] = "admitting" =>
        /\ admission = q
        /\ Cardinality(OpenReservations) <= counted[q]

\* Reservations are finitely many, and fewer when one is closed.
LEMMA OpenIsFinite ==
    /\ IsFiniteSet(OpenReservations)
    /\ Cardinality(OpenReservations) \in Nat
    /\ IsFiniteSet(OpenReservations')
    /\ Cardinality(OpenReservations') \in Nat
    /\ OpenReservations' \subseteq OpenReservations =>
          Cardinality(OpenReservations') <= Cardinality(OpenReservations)
  BY ActorAssumption, FS_Subset, FS_CardinalityType DEF OpenReservations

\* Only a commit adds an open reservation.
LEMMA OnlyCommitOpens ==
    ASSUME TypeOK, [Next]_vars, ~ \E q \in Requests : CommitAdmission(q)
    PROVE  OpenReservations' \subseteq OpenReservations
  <1>1. ASSUME NEW q \in Requests, SettleReservation(q)
        PROVE  OpenReservations' \subseteq OpenReservations
    BY <1>1 DEF SettleReservation, OpenReservations, TypeOK
  <1>2. CASE status' = status
    BY <1>2 DEF OpenReservations
  <1> QED
    BY <1>1, <1>2 DEF Next, Step, vars, CheckBudget, AcquireLease, BeginAdmission,
       AbortAdmission, SettleFails, ReleaseLease, Crash, LeaseExpires, Midnight

\* A commit finds the lock held by its own request and room below the limit.
LEMMA CommitWithinLimit ==
    ASSUME TypeOK, AdmissionInv, NEW q \in Requests, CommitAdmission(q)
    PROVE  Cardinality(OpenReservations') <= GlobalConcurrentLimit
  <1>1. Cardinality(OpenReservations) <= counted[q] /\ counted[q] < GlobalConcurrentLimit
    BY DEF CommitAdmission, Admissible, AdmissionInv
  <1>2. OpenReservations' = OpenReservations \cup {q}
    BY DEF CommitAdmission, OpenReservations, TypeOK
  <1>3. Cardinality(OpenReservations') <= Cardinality(OpenReservations) + 1
    BY <1>2, OpenIsFinite, FS_AddElement
  <1>4. counted[q] \in Nat /\ GlobalConcurrentLimit \in Nat
    BY LimitsArePositive DEF TypeOK
  <1> QED
    BY <1>1, <1>3, <1>4, OpenIsFinite

\* The lock and the count survive every step.
LEMMA AdmissionStep == TypeOK /\ AdmissionInv /\ [Next]_vars => AdmissionInv'
  <1> SUFFICES ASSUME TypeOK, AdmissionInv, [Next]_vars,
                      NEW r \in Requests, pc'[r] = "admitting"
               PROVE  admission' = r /\ Cardinality(OpenReservations') <= counted'[r]
    BY DEF AdmissionInv
  <1>1. ASSUME NEW q \in Requests, BeginAdmission(q)
        PROVE  admission' = r /\ Cardinality(OpenReservations') <= counted'[r]
    <2>1. q = r
      BY <1>1, ActorAssumption DEF BeginAdmission, AdmissionInv, TypeOK
    <2>2. counted'[r] = Cardinality(OpenReservations) /\ OpenReservations' = OpenReservations
      BY <1>1, <2>1 DEF BeginAdmission, OpenReservations, TypeOK
    <2> QED
      BY <1>1, <2>1, <2>2, OpenIsFinite DEF BeginAdmission
  <1>2. ASSUME NEW q \in Requests, CommitAdmission(q)
        PROVE  admission' = r /\ Cardinality(OpenReservations') <= counted'[r]
    BY <1>2 DEF CommitAdmission, AdmissionInv, TypeOK
  <1>3. CASE /\ pc[r] = "admitting" /\ admission' = admission /\ counted'[r] = counted[r]
             /\ OpenReservations' \subseteq OpenReservations
    <2>1. Cardinality(OpenReservations) <= counted[r] /\ admission = r
      BY <1>3 DEF AdmissionInv
    <2>2. counted[r] \in Nat
      BY DEF TypeOK
    <2> QED
      BY <1>3, <2>1, <2>2, OpenIsFinite
  <1>4. ASSUME ~ \E q \in Requests : CommitAdmission(q)
        PROVE  OpenReservations' \subseteq OpenReservations
    BY <1>4, OnlyCommitOpens
  <1> DEFINE Kept == pc[r] = "admitting" /\ admission' = admission /\ counted'[r] = counted[r]
  <1>5. ASSUME NEW q \in Requests,
               \/ CheckBudget(q) \/ AcquireLease(q) \/ SettleReservation(q)
               \/ SettleFails(q) \/ ReleaseLease(q)
        PROVE  Kept
    BY <1>5 DEF CheckBudget, AcquireLease, SettleReservation, SettleFails, ReleaseLease, TypeOK
  <1>6. ASSUME NEW q \in Requests, AbortAdmission(q) PROVE Kept
    BY <1>6 DEF AbortAdmission, AdmissionInv, TypeOK
  <1>7. ASSUME NEW q \in Requests, Crash(q) PROVE Kept
    BY <1>7 DEF Crash, AdmissionInv, TypeOK
  <1>8. ASSUME NEW a \in Actors, LeaseExpires(a) PROVE Kept
    BY <1>8 DEF LeaseExpires
  <1>9. ASSUME Midnight \/ UNCHANGED vars PROVE Kept
    BY <1>9 DEF Midnight, vars
  <1>10. \/ \E q \in Requests : BeginAdmission(q)
         \/ \E q \in Requests : CommitAdmission(q)
         \/ Kept
    BY <1>5, <1>6, <1>7, <1>8, <1>9 DEF Next, Step
  <1> QED
    BY <1>1, <1>2, <1>3, <1>4, <1>10

\* Over all replicas the runtime limit on concurrent generations holds in every
\* state: count and insert are one critical section.
THEOREM ConcurrencyAlwaysLimited == Spec => []GlobalConcurrency
  <1>1. Init => AdmissionInv /\ GlobalConcurrency
    <2> SUFFICES ASSUME Init PROVE AdmissionInv /\ GlobalConcurrency
      OBVIOUS
    <2>1. OpenReservations = {}
      BY DEF Init, OpenReservations
    <2> QED
      BY <2>1, FS_EmptySet, LimitsArePositive DEF Init, AdmissionInv, GlobalConcurrency
  <1>2. TypeOK /\ AdmissionInv /\ GlobalConcurrency /\ [Next]_vars => GlobalConcurrency'
    <2> SUFFICES ASSUME TypeOK, AdmissionInv, GlobalConcurrency, [Next]_vars
                 PROVE  GlobalConcurrency'
      OBVIOUS
    <2>1. CASE \E q \in Requests : CommitAdmission(q)
      BY <2>1, CommitWithinLimit DEF GlobalConcurrency
    <2>2. CASE ~ \E q \in Requests : CommitAdmission(q)
      <3>1. Cardinality(OpenReservations') <= Cardinality(OpenReservations)
        BY <2>2, OnlyCommitOpens, OpenIsFinite
      <3> QED
        BY <3>1, OpenIsFinite, LimitsArePositive DEF GlobalConcurrency
    <2> QED
      BY <2>1, <2>2
  <1> QED
    BY <1>1, <1>2, AdmissionStep, TypeCorrect, PTL DEF Spec

-----------------------------------------------------------------------------
(* The generation lease *)

\* A request that relies on its lease has it, unless it lapsed.
LeaseInv == \A q \in Holding : q \in lapsed \/ lease[ActorOf[q]] = q

\* Leases are taken over only after they are released or lapse.
LEMMA LeaseStep == TypeOK /\ LeaseInv /\ [Next]_vars => LeaseInv'
  <1> SUFFICES ASSUME TypeOK, LeaseInv, [Next]_vars,
                      NEW r \in Requests, r \in Holding', r \notin lapsed'
               PROVE  lease'[ActorOf[r]] = r
    BY DEF LeaseInv, Holding
  <1>0. ActorOf[r] \in Actors /\ NoRequest \notin Requests
    BY ActorAssumption
  <1>1. ASSUME NEW q \in Requests, AcquireLease(q) PROVE lease'[ActorOf[r]] = r
    BY <1>1, <1>0 DEF AcquireLease, LeaseInv, Holding, TypeOK
  <1>2. ASSUME NEW q \in Requests, ReleaseLease(q) PROVE lease'[ActorOf[r]] = r
    BY <1>2, <1>0 DEF ReleaseLease, LeaseInv, Holding, TypeOK
  <1>3. ASSUME NEW a \in Actors, LeaseExpires(a) PROVE lease'[ActorOf[r]] = r
    BY <1>3, <1>0 DEF LeaseExpires, LeaseInv, Holding, TypeOK
  <1>4. ASSUME NEW q \in Requests, Crash(q) PROVE lease'[ActorOf[r]] = r
    BY <1>4 DEF Crash, LeaseInv, Holding, TypeOK
  <1>5. ASSUME NEW q \in Requests, CheckBudget(q) PROVE lease'[ActorOf[r]] = r
    BY <1>5 DEF CheckBudget, LeaseInv, Holding, TypeOK
  <1>6. ASSUME NEW q \in Requests, BeginAdmission(q) \/ CommitAdmission(q) \/ AbortAdmission(q)
        PROVE  lease'[ActorOf[r]] = r
    BY <1>6 DEF BeginAdmission, CommitAdmission, AbortAdmission, LeaseInv, Holding, TypeOK
  <1>7. ASSUME NEW q \in Requests, SettleReservation(q) \/ SettleFails(q)
        PROVE  lease'[ActorOf[r]] = r
    BY <1>7 DEF SettleReservation, SettleFails, LeaseInv, Holding, TypeOK
  <1>8. CASE Midnight \/ UNCHANGED vars
    BY <1>8 DEF Midnight, vars, LeaseInv, Holding
  <1> QED
    BY <1>1, <1>2, <1>3, <1>4, <1>5, <1>6, <1>7, <1>8 DEF Next, Step

\* Two requests of one actor are past AcquireLease together only if a lease lapsed.
THEOREM LeaseAlwaysExcludes == Spec => []LeaseExcludes
  <1>1. Init => LeaseInv
    BY DEF Init, LeaseInv, Holding
  <1>2. LeaseInv => LeaseExcludes
    BY DEF LeaseInv, LeaseExcludes
  <1> QED
    BY <1>1, <1>2, LeaseStep, TypeCorrect, PTL DEF Spec

\* No request takes the lease of another away, however late its release arrives.
THEOREM NeverForeignRelease == Spec => NoForeignRelease
  <1> DEFINE Kept == \A q \in Requests, a \in Actors :
               pc'[q] # pc[q] /\ lease[a] \notin {q, NoRequest} => lease'[a] = lease[a]
  <1>1. TypeOK /\ [Next]_vars => [Kept]_vars
    <2> SUFFICES ASSUME TypeOK, Next,
                        NEW q \in Requests, NEW a \in Actors, pc'[q] # pc[q],
                        lease[a] \notin {q, NoRequest}
                 PROVE  lease'[a] = lease[a]
      BY DEF vars
    <2>1. ASSUME NEW r \in Requests, AcquireLease(r) PROVE lease'[a] = lease[a]
      BY <2>1, ActorAssumption DEF AcquireLease, TypeOK
    <2>2. ASSUME NEW r \in Requests, ReleaseLease(r) PROVE lease'[a] = lease[a]
      BY <2>2, ActorAssumption DEF ReleaseLease, TypeOK
    <2>3. CASE lease' = lease
      BY <2>3
    <2>4. ASSUME NEW b \in Actors, LeaseExpires(b) PROVE lease'[a] = lease[a]
      BY <2>4 DEF LeaseExpires
    <2> QED
      BY <2>1, <2>2, <2>3, <2>4 DEF Next, Step, CheckBudget, BeginAdmission, CommitAdmission,
         AbortAdmission, SettleReservation, SettleFails, Crash, Midnight
  <1> QED
    BY <1>1, TypeCorrect, PTL DEF Spec, NoForeignRelease

-----------------------------------------------------------------------------
(* Sums over sets of requests.  The fold of LedgerBalanced is recursive; that it is defined *)
(* and adds in any order is proved from the smallest size for which it would not.           *)

\* The element that the fold takes from a set.
Taken(s) == CHOOSE q \in s : TRUE

\* g adds the weights w one element after another.
Adds(g, w, s) == g[s] = IF s = {} THEN 0 ELSE w[Taken(s)] + g[s \ {Taken(s)}]

\* The sum of w over s.
Total(w, s) ==
    (CHOOSE g \in [SUBSET Requests -> Nat] : \A t \in SUBSET Requests : Adds(g, w, t))[s]

\* A set of numbers that is not empty has one that is 0 or whose predecessor is not in it.
LEMMA LeastNumber ==
    ASSUME NEW B \in SUBSET Nat, B # {}
    PROVE  \E n \in B : n = 0 \/ (n - 1 \in Nat /\ n - 1 \notin B)
  <1>1. PICK n \in B : \A m \in B : ~(<<m, n>> \in OpToRel(<, Nat))
    BY NatLessThanWellFounded, WFMin
  <1>2. n \in Nat /\ \A m \in B : m \in Nat /\ ~(m < n)
    BY <1>1 DEF OpToRel
  <1> QED
    BY <1>2

\* Sets of requests are finite, and one element less is one less.
LEMMA SubsetSize ==
    ASSUME NEW s \in SUBSET Requests
    PROVE  /\ IsFiniteSet(s) /\ Cardinality(s) \in Nat
           /\ Cardinality(s) = 0 <=> s = {}
           /\ \A q \in s : Cardinality(s \ {q}) = Cardinality(s) - 1
           /\ s # {} => Taken(s) \in s
  <1>1. IsFiniteSet(s)
    BY ActorAssumption, FS_Subset
  <1> QED
    BY <1>1, FS_CardinalityType, FS_EmptySet, FS_RemoveElement DEF Taken

Sized(n) == {s \in SUBSET Requests : Cardinality(s) <= n}

LEMMA SumsExist ==
    ASSUME NEW w \in [Requests -> Nat]
    PROVE  \E g \in [SUBSET Requests -> Nat] : \A t \in SUBSET Requests : Adds(g, w, t)
  <1> DEFINE Sum(n) == \E g \in [Sized(n) -> Nat] : \A t \in Sized(n) : Adds(g, w, t)
             Bad == {n \in Nat : ~Sum(n)}
  <1>1. Bad = {}
    <2> SUFFICES ASSUME Bad # {} PROVE FALSE
      OBVIOUS
    <2>1. PICK n \in Bad : n = 0 \/ (n - 1 \in Nat /\ n - 1 \notin Bad)
      BY LeastNumber
    <2>2. n \in Nat /\ ~Sum(n)
      OBVIOUS
    <2>3. CASE n = 0
      <3> DEFINE g == [t \in Sized(n) |-> 0]
      <3>1. \A t \in Sized(n) : t = {}
        BY <2>3, SubsetSize DEF Sized
      <3>2. g \in [Sized(n) -> Nat] /\ \A t \in Sized(n) : Adds(g, w, t)
        BY <3>1 DEF Adds
      <3> HIDE DEF g
      <3> QED
        BY <2>2, <3>2
    <2>4. CASE n - 1 \in Nat /\ n - 1 \notin Bad
      <3>1. PICK g \in [Sized(n - 1) -> Nat] : \A t \in Sized(n - 1) : Adds(g, w, t)
        BY <2>4
      <3> DEFINE h == [t \in Sized(n) |->
                     IF t \in Sized(n - 1) THEN g[t] ELSE w[Taken(t)] + g[t \ {Taken(t)}]]
      <3>2. ASSUME NEW t \in Sized(n), t # {}
            PROVE  Taken(t) \in Requests /\ t \ {Taken(t)} \in Sized(n - 1)
                   /\ t \ {Taken(t)} \in Sized(n)
        <4>1. t \in SUBSET Requests /\ Cardinality(t) <= n
          BY DEF Sized
        <4>2. /\ Cardinality(t) \in Nat /\ Taken(t) \in t
              /\ Cardinality(t \ {Taken(t)}) = Cardinality(t) - 1
          BY <3>2, <4>1, SubsetSize
        <4>3. t \ {Taken(t)} \in SUBSET Requests
          BY <4>1
        <4> QED
          BY <2>2, <4>1, <4>2, <4>3 DEF Sized
      <3>3. Sized(n - 1) \subseteq Sized(n)
        BY <2>2, SubsetSize DEF Sized
      <3>4. ASSUME NEW t \in Sized(n) PROVE h[t] \in Nat /\ Adds(h, w, t)
        <4>1. CASE t \in Sized(n - 1)
          <5>1. h[t] = g[t] /\ Adds(g, w, t)
            BY <3>1, <4>1
          <5>2. t # {} => h[t \ {Taken(t)}] = g[t \ {Taken(t)}]
            BY <3>2
          <5> QED
            BY <3>1, <4>1, <5>1, <5>2 DEF Adds
        <4>2. CASE t \notin Sized(n - 1)
          <5>1. t # {}
            <6>1. {} \in SUBSET Requests
              OBVIOUS
            <6>2. Cardinality({}) = 0
              BY FS_EmptySet
            <6>3. Cardinality({}) <= n - 1
              BY <2>4, <6>2
            <6>4. {} \in Sized(n - 1)
              BY <6>1, <6>3 DEF Sized
            <6> QED
              BY <4>2, <6>4
          <5>2. h[t] = w[Taken(t)] + g[t \ {Taken(t)}]
            BY <4>2
          <5>3. h[t \ {Taken(t)}] = g[t \ {Taken(t)}]
            BY <3>2, <5>1
          <5>4. w[Taken(t)] \in Nat /\ g[t \ {Taken(t)}] \in Nat
            BY <3>1, <3>2, <5>1
          <5> QED
            BY <5>1, <5>2, <5>3, <5>4 DEF Adds
        <4> QED
          BY <4>1, <4>2
      <3>5. h \in [Sized(n) -> Nat]
        BY <3>4
      <3> HIDE DEF h
      <3> QED
        BY <2>2, <3>4, <3>5
    <2> QED
      BY <2>1, <2>3, <2>4
  <1>2. Cardinality(Requests) \in Nat
    BY ActorAssumption, FS_CardinalityType
  <1>3. Sum(Cardinality(Requests))
    BY <1>1, <1>2
  <1>4. Sized(Cardinality(Requests)) = SUBSET Requests
    BY ActorAssumption, FS_Subset DEF Sized
  <1> QED
    BY <1>3, <1>4

\* What the recursion says of a sum.
LEMMA TotalTaken ==
    ASSUME NEW w \in [Requests -> Nat], NEW s \in SUBSET Requests
    PROVE  /\ Total(w, s) \in Nat
           /\ s = {} => Total(w, s) = 0
           /\ s # {} => Total(w, s) = w[Taken(s)] + Total(w, s \ {Taken(s)})
  <1> DEFINE g == CHOOSE g \in [SUBSET Requests -> Nat] : \A t \in SUBSET Requests : Adds(g, w, t)
  <1>1. g \in [SUBSET Requests -> Nat] /\ \A t \in SUBSET Requests : Adds(g, w, t)
    BY SumsExist
  <1>2. Total(w, s) = g[s] /\ Total(w, s \ {Taken(s)}) = g[s \ {Taken(s)}]
    BY DEF Total
  <1> HIDE DEF g
  <1> QED
    BY <1>1, <1>2 DEF Adds

\* Any element can be added last.
LEMMA TotalSplit ==
    ASSUME NEW w \in [Requests -> Nat], NEW s \in SUBSET Requests, NEW q \in s
    PROVE  Total(w, s) = w[q] + Total(w, s \ {q})
  <1> DEFINE Splits(t) == \A r \in t : Total(w, t) = w[r] + Total(w, t \ {r})
             Bad == {n \in Nat : \E t \in SUBSET Requests : Cardinality(t) = n /\ ~Splits(t)}
  <1>1. Bad = {}
    <2> SUFFICES ASSUME Bad # {} PROVE FALSE
      OBVIOUS
    <2>1. PICK n \in Bad : n = 0 \/ (n - 1 \in Nat /\ n - 1 \notin Bad)
      BY LeastNumber
    <2>2. PICK t \in SUBSET Requests : Cardinality(t) = n /\ ~Splits(t)
      OBVIOUS
    <2>3. PICK r \in t : ~(Total(w, t) = w[r] + Total(w, t \ {r}))
      BY <2>2
    <2> DEFINE p == Taken(t)
    <2>4. p \in t /\ n # 0 /\ n \in Nat
      BY <2>2, <2>3, SubsetSize
    <2>5. \A x \in SUBSET Requests : Cardinality(x) = n - 1 => Splits(x)
      BY <2>1, <2>4
    <2>6. \A x \in t : t \ {x} \in SUBSET Requests /\ Cardinality(t \ {x}) = n - 1 /\ x \in Requests
      BY <2>2, SubsetSize
    <2> HIDE DEF Bad
    <2>7. Total(w, t) = w[p] + Total(w, t \ {p})
      BY <2>3, TotalTaken
    <2>8. r # p
      BY <2>3, <2>7
    <2>9. Splits(t \ {p}) /\ Splits(t \ {r})
      BY <2>4, <2>5, <2>6
    <2> HIDE DEF p
    <2>10. Total(w, t \ {p}) = w[r] + Total(w, (t \ {p}) \ {r})
      BY <2>8, <2>9
    <2>11. Total(w, t \ {r}) = w[p] + Total(w, (t \ {r}) \ {p})
      BY <2>4, <2>8, <2>9
    <2>12. PICK rest : rest = (t \ {p}) \ {r}
      OBVIOUS
    <2>13. (t \ {p}) \ {r} = rest /\ (t \ {r}) \ {p} = rest
      BY <2>12
    <2>14. Total(w, rest) \in Nat /\ w[p] \in Nat /\ w[r] \in Nat
      BY <2>4, <2>6, <2>12, TotalTaken
    <2> QED
      BY <2>3, <2>7, <2>10, <2>11, <2>13, <2>14
  <1>2. Cardinality(s) \in Nat
    BY SubsetSize
  <1> QED
    BY <1>1, <1>2

\* A sum depends on the weights of its elements only.
LEMMA TotalAgree ==
    ASSUME NEW w \in [Requests -> Nat], NEW v \in [Requests -> Nat], NEW s \in SUBSET Requests,
           \A q \in s : w[q] = v[q]
    PROVE  Total(w, s) = Total(v, s)
  <1> DEFINE Bad == {n \in Nat : \E t \in SUBSET s : Cardinality(t) = n /\ Total(w, t) # Total(v, t)}
  <1>1. Bad = {}
    <2> SUFFICES ASSUME Bad # {} PROVE FALSE
      OBVIOUS
    <2>1. PICK n \in Bad : n = 0 \/ (n - 1 \in Nat /\ n - 1 \notin Bad)
      BY LeastNumber
    <2>2. PICK t \in SUBSET s : Cardinality(t) = n /\ Total(w, t) # Total(v, t)
      OBVIOUS
    <2>3. t \in SUBSET Requests
      OBVIOUS
    <2>4. t # {}
      BY <2>2, <2>3, TotalTaken
    <2>5. n # 0 /\ Taken(t) \in t /\ Cardinality(t \ {Taken(t)}) = n - 1
      BY <2>2, <2>3, <2>4, SubsetSize
    <2>6. Total(w, t \ {Taken(t)}) = Total(v, t \ {Taken(t)})
      BY <2>1, <2>5
    <2>7. w[Taken(t)] = v[Taken(t)]
      BY <2>5
    <2> HIDE DEF Bad
    <2> QED
      BY <2>2, <2>3, <2>4, <2>6, <2>7, TotalTaken
  <1>2. Cardinality(s) \in Nat
    BY SubsetSize
  <1> QED
    BY <1>1, <1>2

\* The weights of LedgerBalanced.
Charges == [q \in Requests |-> Charge(q)]

\* The fold of the community module is the sum.
LEMMA FoldIsTotal ==
    ASSUME TypeOK, NEW S \in SUBSET Requests
    PROVE  MapThenSumSet(Charge, S) = Total(Charges, S)
  <1>1. Charges \in [Requests -> Nat] /\ \A q \in Requests : Charges[q] = Charge(q)
    BY DEF Charges, Charge, TypeOK
  <1> DEFINE Folds(h) == h = [t \in SUBSET S |->
                 IF t = {} THEN 0 ELSE Charge(Taken(t)) + h[t \ {Taken(t)}]]
             sum == [t \in SUBSET S |-> Total(Charges, t)]
             iter == CHOOSE h : Folds(h)
  <1>2. Folds(sum)
    <2>1. ASSUME NEW t \in SUBSET S
          PROVE  sum[t] = IF t = {} THEN 0 ELSE Charge(Taken(t)) + sum[t \ {Taken(t)}]
      <3>1. t \in SUBSET Requests /\ t \ {Taken(t)} \in SUBSET S
        OBVIOUS
      <3>2. t # {} => Taken(t) \in Requests
        BY <3>1, SubsetSize
      <3> QED
        BY <1>1, <3>1, <3>2, TotalTaken
    <2> QED
      BY <2>1
  <1>3. Folds(iter)
    <2> HIDE DEF Folds, sum
    <2> QED
      BY <1>2
  <1>4. MapThenSumSet(Charge, S) = iter[S]
    BY DEF MapThenSumSet, MapThenFoldSet, Taken
  <1> DEFINE Bad == {n \in Nat : \E t \in SUBSET S : Cardinality(t) = n /\ iter[t] # sum[t]}
  <1> HIDE DEF sum, iter
  <1>5. Bad = {}
    <2> SUFFICES ASSUME Bad # {} PROVE FALSE
      OBVIOUS
    <2>1. PICK n \in Bad : n = 0 \/ (n - 1 \in Nat /\ n - 1 \notin Bad)
      BY LeastNumber
    <2>2. PICK t \in SUBSET S : Cardinality(t) = n /\ iter[t] # sum[t]
      OBVIOUS
    <2>3. t # {}
      BY <1>2, <1>3, <2>2
    <2>4. n # 0 /\ Cardinality(t \ {Taken(t)}) = n - 1
      BY <2>2, <2>3, SubsetSize
    <2>5. iter[t \ {Taken(t)}] = sum[t \ {Taken(t)}]
      BY <2>1, <2>4
    <2> QED
      BY <1>2, <1>3, <2>2, <2>3, <2>5
  <1>6. Cardinality(S) \in Nat
    BY SubsetSize
  <1> QED
    BY <1>4, <1>5, <1>6 DEF sum

-----------------------------------------------------------------------------
(* The ledger *)

\* A request has no reservation until its admission commits.
NotYetReserved ==
    \A q \in Requests :
        pc[q] \in {"idle", "budgeted", "leased", "admitting"} => status[q] = "none"

RowBalanced(row) ==
    /\ tokens[row] = Total(Charges, ChargedTo(row))
    /\ messages[row] = Cardinality(ChargedTo(row))

LedgerInv == NotYetReserved /\ \A row \in Accounts : RowBalanced(row)

LEMMA ChargesTyped == TypeOK => Charges \in [Requests -> Nat] /\ \A q \in Requests : Charges[q] = Charge(q)
  BY DEF Charges, Charge, TypeOK

LEMMA ChargedRequests == \A row : ChargedTo(row) \in SUBSET Requests
  BY DEF ChargedTo

\* Steps that change no reservation and no row.
LEMMA LedgerSame ==
    ASSUME TypeOK, TypeOK', LedgerInv, UNCHANGED <<tokens, messages, status, actual>>,
           \A q \in Requests : status[q] # "none" =>
               maxOutput'[q] = maxOutput[q] /\ startedOn'[q] = startedOn[q],
           NotYetReserved'
    PROVE  LedgerInv'
  <1> SUFFICES ASSUME NEW row \in Accounts PROVE RowBalanced(row)'
    BY DEF LedgerInv
  <1>1. \A q \in Requests : status[q] # "none" => (row \in RowsOf(q)' <=> row \in RowsOf(q))
    BY DEF RowsOf
  <1>2. ChargedTo(row)' = ChargedTo(row)
    BY <1>1 DEF ChargedTo
  <1>3. \A q \in ChargedTo(row) : Charges'[q] = Charges[q]
    BY DEF ChargedTo, Charges, Charge
  <1>4. Charges \in [Requests -> Nat] /\ Charges' \in [Requests -> Nat]
    BY DEF Charges, Charge, TypeOK
  <1>5. PICK new : new = Charges'
    OBVIOUS
  <1>6. Total(new, ChargedTo(row)) = Total(Charges, ChargedTo(row))
    BY <1>3, <1>4, <1>5, ChargedRequests, TotalAgree
  <1> QED
    BY <1>2, <1>5, <1>6 DEF LedgerInv, RowBalanced

\* The rows of a reservation get what it charges.
LEMMA CommitLedger ==
    ASSUME TypeOK, TypeOK', LedgerInv, NEW q \in Requests, CommitAdmission(q)
    PROVE  LedgerInv'
  <1>1. status[q] = "none" /\ pc[q] = "admitting"
    BY DEF LedgerInv, NotYetReserved, CommitAdmission
  <1>2. /\ UNCHANGED <<maxOutput, startedOn, actual>>
        /\ status' = [status EXCEPT ![q] = "reserved"]
        /\ \A row \in Accounts :
             /\ messages'[row] = messages[row] + IF row \in RowsOf(q) THEN 1 ELSE 0
             /\ tokens'[row] = tokens[row] + IF row \in RowsOf(q) THEN maxOutput[q] ELSE 0
    BY DEF CommitAdmission
  <1>3. status'[q] = "reserved" /\ \A r \in Requests \ {q} : status'[r] = status[r]
    BY <1>2 DEF TypeOK
  <1>4. NotYetReserved'
    <2>1. pc'[q] \in {"working", "releasing"} /\ \A r \in Requests \ {q} : pc'[r] = pc[r]
      BY DEF CommitAdmission, TypeOK
    <2> QED
      BY <1>3, <2>1 DEF LedgerInv, NotYetReserved
  <1>5. Charges \in [Requests -> Nat] /\ Charges' \in [Requests -> Nat]
    BY DEF Charges, Charge, TypeOK
  <1>6. PICK new : new = Charges'
    OBVIOUS
  <1>7. new[q] = maxOutput[q] /\ \A r \in Requests \ {q} : new[r] = Charges[r]
    BY <1>2, <1>3, <1>6 DEF Charges, Charge
  <1>8. ASSUME NEW row \in Accounts PROVE RowBalanced(row)'
    <2>1. PICK before : before = ChargedTo(row)
      OBVIOUS
    <2>2. before \in SUBSET Requests /\ q \notin before
      BY <1>1, <2>1 DEF ChargedTo
    <2>3. ChargedTo(row)' = IF row \in RowsOf(q) THEN before \cup {q} ELSE before
      <3>1. \A r : (row \in RowsOf(r)' <=> row \in RowsOf(r))
        BY <1>2 DEF RowsOf
      <3> QED
        BY <1>1, <1>3, <2>1, <3>1 DEF ChargedTo
    <2>4. tokens[row] = Total(Charges, before) /\ messages[row] = Cardinality(before)
      BY <2>1 DEF LedgerInv, RowBalanced
    <2>5. Total(new, before) = Total(Charges, before)
      BY <1>5, <1>6, <1>7, <2>2, TotalAgree
    <2>6. CASE row \notin RowsOf(q)
      <3>1. /\ ChargedTo(row)' = before
            /\ tokens'[row] = tokens[row] /\ messages'[row] = messages[row]
        BY <1>2, <2>3, <2>6 DEF TypeOK
      <3> QED
        BY <1>6, <2>4, <2>5, <3>1 DEF RowBalanced
    <2>7. CASE row \in RowsOf(q)
      <3>1. PICK after : after = before \cup {q}
        OBVIOUS
      <3>2. after \in SUBSET Requests /\ q \in after /\ after \ {q} = before
        BY <2>2, <3>1
      <3>3. Total(new, after) = new[q] + Total(new, before)
        BY <1>5, <1>6, <3>2, TotalSplit
      <3>4. Cardinality(before) = Cardinality(after) - 1 /\ Cardinality(after) \in Nat
        BY <3>2, SubsetSize
      <3>5. Total(new, before) \in Nat /\ maxOutput[q] \in Nat
        BY <1>5, <1>6, <2>2, TotalTaken DEF TypeOK
      <3>6. tokens'[row] = Total(new, after) /\ messages'[row] = Cardinality(after)
        BY <1>2, <1>7, <2>4, <2>5, <2>7, <3>3, <3>4, <3>5
      <3>7. ChargedTo(row)' = after
        BY <2>3, <2>7, <3>1
      <3> QED
        BY <1>6, <3>6, <3>7 DEF RowBalanced
    <2> QED
      BY <2>6, <2>7
  <1> QED
    BY <1>4, <1>8 DEF LedgerInv

\* A settlement refunds to the rows it charged what was not used, and never more than
\* they have: GREATEST(..., 0) has nothing to cut off.
LEMMA SettleLedger ==
    ASSUME TypeOK, TypeOK', LedgerInv, NEW q \in Requests, SettleReservation(q)
    PROVE  LedgerInv'
  <1>1. PICK n \in 0..maxOutput[q] :
            /\ tokens' = [row \in Accounts |->
                  IF row \in RowsOf(q) THEN Deduct(tokens[row], maxOutput[q] - n) ELSE tokens[row]]
            /\ status' = [status EXCEPT ![q] = IF n = 0 THEN "refunded" ELSE "committed"]
            /\ actual' = [actual EXCEPT ![q] = n]
    BY DEF SettleReservation
  <1>2. /\ status[q] = "reserved" /\ pc[q] = "working" /\ pc' = [pc EXCEPT ![q] = "releasing"]
        /\ UNCHANGED <<maxOutput, startedOn, messages>>
    BY DEF SettleReservation
  <1>3. /\ status'[q] \in {"refunded", "committed"} /\ actual'[q] = n
        /\ \A r \in Requests \ {q} : status'[r] = status[r] /\ actual'[r] = actual[r]
    BY <1>1 DEF TypeOK
  <1>4. NotYetReserved'
    BY <1>2, <1>3 DEF LedgerInv, NotYetReserved, TypeOK
  <1>5. Charges \in [Requests -> Nat] /\ Charges' \in [Requests -> Nat]
    BY DEF Charges, Charge, TypeOK
  <1>6. PICK new : new = Charges'
    OBVIOUS
  <1>7. /\ Charges[q] = maxOutput[q] /\ new[q] = n
        /\ \A r \in Requests \ {q} : new[r] = Charges[r]
    BY <1>2, <1>3, <1>6 DEF Charges, Charge
  <1>8. maxOutput[q] \in Nat /\ n \in Nat /\ n <= maxOutput[q]
    BY DEF TypeOK
  <1>9. ASSUME NEW row \in Accounts PROVE RowBalanced(row)'
    <2>1. PICK charged : charged = ChargedTo(row)
      OBVIOUS
    <2>2. charged \in SUBSET Requests
      BY <2>1, ChargedRequests
    <2>3. ChargedTo(row)' = charged
      <3>1. \A r : (row \in RowsOf(r)' <=> row \in RowsOf(r))
        BY <1>2 DEF RowsOf
      <3> QED
        BY <1>2, <1>3, <2>1, <3>1 DEF ChargedTo
    <2>4. tokens[row] = Total(Charges, charged) /\ messages[row] = Cardinality(charged)
      BY <2>1 DEF LedgerInv, RowBalanced
    <2>5. CASE row \notin RowsOf(q)
      <3>1. q \notin charged
        BY <2>1, <2>5 DEF ChargedTo
      <3>2. Total(new, charged) = Total(Charges, charged)
        BY <1>5, <1>6, <1>7, <2>2, <3>1, TotalAgree
      <3>3. tokens'[row] = tokens[row] /\ messages'[row] = messages[row]
        BY <1>1, <1>2, <2>5
      <3> QED
        BY <1>6, <2>3, <2>4, <3>2, <3>3 DEF RowBalanced
    <2>6. CASE row \in RowsOf(q)
      <3>1. q \in charged
        BY <1>2, <2>1, <2>6 DEF ChargedTo
      <3>2. PICK rest : rest = charged \ {q}
        OBVIOUS
      <3>3. Total(Charges, charged) = maxOutput[q] + Total(Charges, rest)
        BY <1>5, <1>7, <2>2, <3>1, <3>2, TotalSplit
      <3>4. Total(new, charged) = n + Total(new, rest)
        BY <1>5, <1>6, <1>7, <2>2, <3>1, <3>2, TotalSplit
      <3>5. Total(new, rest) = Total(Charges, rest)
        BY <1>5, <1>6, <1>7, <2>2, <3>2, TotalAgree
      <3>6. Total(Charges, rest) \in Nat
        BY <1>5, <2>2, <3>2, TotalTaken
      <3>7. tokens'[row] = Deduct(tokens[row], maxOutput[q] - n) /\ messages'[row] = messages[row]
        BY <1>1, <1>2, <2>6
      <3>8. tokens'[row] = Total(new, charged)
        BY <1>8, <2>4, <3>3, <3>4, <3>5, <3>6, <3>7 DEF Deduct
      <3> QED
        BY <1>6, <2>3, <2>4, <3>7, <3>8 DEF RowBalanced
    <2> QED
      BY <2>5, <2>6
  <1> QED
    BY <1>4, <1>9 DEF LedgerInv

LEMMA LedgerStep == TypeOK /\ TypeOK' /\ LedgerInv /\ [Next]_vars => LedgerInv'
  <1> SUFFICES ASSUME TypeOK, TypeOK', LedgerInv, [Next]_vars PROVE LedgerInv'
    OBVIOUS
  <1>0. NotYetReserved
    BY DEF LedgerInv
  <1>1. ASSUME NEW q \in Requests, CheckBudget(q) \/ AcquireLease(q) PROVE LedgerInv'
    <2>1. /\ status[q] = "none"
          /\ UNCHANGED <<tokens, messages, status, actual>>
          /\ \A r \in Requests \ {q} :
               maxOutput'[r] = maxOutput[r] /\ startedOn'[r] = startedOn[r] /\ pc'[r] = pc[r]
      BY <1>0, <1>1 DEF CheckBudget, AcquireLease, NotYetReserved, TypeOK
    <2>2. NotYetReserved'
      BY <1>0, <2>1 DEF NotYetReserved
    <2> QED
      BY <2>1, <2>2, LedgerSame
  <1>2. ASSUME NEW q \in Requests,
               \/ BeginAdmission(q) \/ AbortAdmission(q) \/ SettleFails(q)
               \/ ReleaseLease(q) \/ Crash(q)
        PROVE  LedgerInv'
    <2>1. UNCHANGED <<tokens, messages, status, actual, maxOutput, startedOn>>
      BY <1>2 DEF BeginAdmission, AbortAdmission, SettleFails, ReleaseLease, Crash
    <2>2. \/ pc' = [pc EXCEPT ![q] = "admitting"] /\ pc[q] = "leased"
          \/ \E phase \in {"releasing", "done", "crashed"} : pc' = [pc EXCEPT ![q] = phase]
      BY <1>2 DEF BeginAdmission, AbortAdmission, SettleFails, ReleaseLease, Crash
    <2>3. NotYetReserved'
      BY <1>0, <2>1, <2>2 DEF NotYetReserved, TypeOK
    <2> QED
      BY <2>1, <2>3, LedgerSame
  <1>3. ASSUME NEW q \in Requests, CommitAdmission(q) PROVE LedgerInv'
    BY <1>3, CommitLedger
  <1>4. ASSUME NEW q \in Requests, SettleReservation(q) PROVE LedgerInv'
    BY <1>4, SettleLedger
  <1>5. CASE (\E a \in Actors : LeaseExpires(a)) \/ Midnight \/ UNCHANGED vars
    <2>1. UNCHANGED <<tokens, messages, status, actual, maxOutput, startedOn, pc>>
      BY <1>5 DEF LeaseExpires, Midnight, vars
    <2>2. NotYetReserved'
      BY <1>0, <2>1 DEF NotYetReserved
    <2> QED
      BY <2>1, <2>2, LedgerSame
  <1> QED
    BY <1>1, <1>2, <1>3, <1>4, <1>5 DEF Next, Step

\* Every usage row is exactly what its reservations charge, on the day each was made, for
\* any number of requests and whenever they settle (Reserve, Settle, AdjustDailyOutputUsage).
THEOREM LedgerAlwaysBalanced == Spec => []LedgerBalanced
  <1>1. Init => LedgerInv
    <2> SUFFICES ASSUME Init PROVE LedgerInv
      OBVIOUS
    <2>1. TypeOK
      BY LimitAssumption DEF Init, TypeOK, Phases, Days
    <2>2. \A row \in Accounts : ChargedTo(row) = {}
      BY DEF Init, ChargedTo
    <2>3. Charges \in [Requests -> Nat]
      BY <2>1, ChargesTyped
    <2>4. Total(Charges, {}) = 0 /\ Cardinality({}) = 0
      BY <2>3, TotalTaken, FS_EmptySet
    <2>5. \A row \in Accounts : tokens[row] = 0 /\ messages[row] = 0
      BY DEF Init
    <2> QED
      BY <2>2, <2>4, <2>5 DEF Init, LedgerInv, NotYetReserved, RowBalanced
  <1>2. TypeOK /\ LedgerInv => LedgerBalanced
    BY FoldIsTotal, ChargedRequests DEF LedgerInv, RowBalanced, LedgerBalanced
  <1> QED
    BY <1>1, <1>2, LedgerStep, TypeCorrect, PTL DEF Spec
=============================================================================
