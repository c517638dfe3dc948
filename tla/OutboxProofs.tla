---------------------------- MODULE OutboxProofs ----------------------------
(***************************************************************************)
(* Proofs about Outbox, for every set of events and workers and every      *)
(* batch size, number of attempts, pool size and number of faults.         *)
(***************************************************************************)
EXTENDS Outbox, TLAPS

-----------------------------------------------------------------------------
(* Type correctness *)

\* A fault stays within the bound.
LEMMA FaultTyped ==
    ASSUME TypeOK, Fault
    PROVE  faults' \in 0..MaxFaults
  BY OptionsAssumption DEF TypeOK, Fault

\* A job that ends leaves its variables and the advisory lock well typed.
LEMMA EndJobTyped ==
    ASSUME TypeOK, NEW w \in Workers, NEW e \in Events, EndJob(w, e)
    PROVE  /\ advisory' \in [Events -> Workers \cup {NoWorker}]
           /\ pc' \in [Jobs -> {"none", "spawned"} \cup LockedPhases]
           /\ attempt' \in [Jobs -> 0..MaxAttempts]
           /\ unguarded' \in SUBSET Events
  <1>1. 0 \in 0..MaxAttempts
    BY OptionsAssumption
  <1> QED
    BY <1>1 DEF TypeOK, EndJob, GuardAgain

\* Every variable keeps its type, whatever the jobs do.
THEOREM TypeCorrect == Spec => []TypeOK
  <1>1. Init => TypeOK
    BY OptionsAssumption DEF Init, TypeOK, Jobs
  <1>2. TypeOK /\ [Next]_vars => TypeOK'
    <2> SUFFICES ASSUME TypeOK, [Next]_vars PROVE TypeOK'
      OBVIOUS
    <2> USE DEF TypeOK, LockedPhases
    <2>0. MaxAttempts \in Nat /\ MaxFaults \in Nat
      BY OptionsAssumption
    <2>1. ASSUME NEW e \in Events, Enqueue(e) PROVE TypeOK'
      BY <2>1 DEF Enqueue
    <2>2. ASSUME NEW e \in Events, BecomeDue(e) PROVE TypeOK'
      BY <2>2 DEF BecomeDue
    <2>3. ASSUME NEW e \in Events, ClaimExpires(e) PROVE TypeOK'
      BY <2>3 DEF ClaimExpires
    <2> DEFINE Row == [status : {"absent", "pending", "processed", "dead"},
                       attempts : 0..MaxAttempts, lockedBy : Workers \cup {NoWorker, Former},
                       stale : BOOLEAN, due : BOOLEAN]
    <2>r. event \in [Events -> Row]
      OBVIOUS
    <2>4. ASSUME NEW w \in Workers, Claim(w) PROVE TypeOK'
      <3>1. PICK batch \in SUBSET {e \in Events : Claimable(e)} :
              /\ event' = [e \in Events |->
                    IF e \notin batch THEN event[e]
                    ELSE [event[e] EXCEPT !.attempts = UpTo(@ + 1, MaxAttempts),
                                          !.lockedBy = w, !.stale = FALSE]]
              /\ \/ /\ pc' = [j \in Jobs |-> IF j[1] = w /\ j[2] \in batch THEN "spawned" ELSE pc[j]]
                    /\ attempt' = [j \in Jobs |-> IF j[1] = w /\ j[2] \in batch
                                                  THEN event'[j[2]].attempts ELSE attempt[j]]
                    /\ UNCHANGED faults
                 \/ Fault /\ UNCHANGED <<pc, attempt>>
        BY <2>4 DEF Claim
      <3>2. \A e \in Events : UpTo(event[e].attempts + 1, MaxAttempts) \in 0..MaxAttempts
        <4>1. \A n \in 0..MaxAttempts : UpTo(n + 1, MaxAttempts) \in 0..MaxAttempts
          BY <2>0 DEF UpTo
        <4> QED
          BY <4>1
      <3>3. event' \in [Events -> Row]
        <4>1. \A e \in Events : event[e] \in Row
          OBVIOUS
        <4>2. ASSUME NEW e \in Events
              PROVE  [event[e] EXCEPT !.attempts = UpTo(@ + 1, MaxAttempts),
                                      !.lockedBy = w, !.stale = FALSE] \in Row
          BY <3>2, <4>1
        <4> QED
          BY <3>1, <4>1, <4>2
      <3>4. pc' \in [Jobs -> {"none", "spawned"} \cup LockedPhases]
        BY <3>1
      <3>5. attempt' \in [Jobs -> 0..MaxAttempts]
        <4>1. \A j \in Jobs : event'[j[2]].attempts \in 0..MaxAttempts
          BY <3>3 DEF Jobs
        <4> QED
          BY <3>1, <4>1
      <3>6. faults' \in 0..MaxFaults
        BY <3>1, FaultTyped
      <3> QED
        BY <2>4, <3>3, <3>4, <3>5, <3>6 DEF Claim
    <2>5. ASSUME NEW w \in Workers, Restart(w) PROVE TypeOK'
      BY <2>5, <2>0, FaultTyped DEF Restart, GuardAgain
    <2>6. ASSUME NEW w \in Workers, NEW e \in Events, TryAdvisory(w, e) PROVE TypeOK'
      BY <2>6, FaultTyped, EndJobTyped DEF TryAdvisory, Jobs
    <2>7. ASSUME NEW w \in Workers, NEW e \in Events, CheckReceipt(w, e) PROVE TypeOK'
      BY <2>7, FaultTyped, EndJobTyped DEF CheckReceipt, Jobs
    <2>8. ASSUME NEW w \in Workers, NEW e \in Events, Handle(w, e) PROVE TypeOK'
      BY <2>8 DEF Handle, UpTo, Jobs
    <2>9. ASSUME NEW w \in Workers, NEW e \in Events, Complete(w, e) PROVE TypeOK'
      <3>1. event' \in [Events -> Row]
        BY <2>9, <2>r DEF Complete
      <3>2. faults' \in 0..MaxFaults
        BY <2>9, FaultTyped DEF Complete
      <3>3. /\ advisory' \in [Events -> Workers \cup {NoWorker}]
            /\ pc' \in [Jobs -> {"none", "spawned"} \cup LockedPhases]
            /\ attempt' \in [Jobs -> 0..MaxAttempts]
            /\ unguarded' \in SUBSET Events
        BY <2>9, EndJobTyped DEF Complete
      <3> QED
        BY <2>9, <3>1, <3>2, <3>3 DEF Complete
    <2>10. ASSUME NEW w \in Workers, NEW e \in Events, Fail(w, e) PROVE TypeOK'
      <3>1. event' \in [Events -> Row]
        <4>1. PICK status \in {event[e].status, "dead"}, due \in BOOLEAN :
                event' \in {event, [event EXCEPT ![e].status = status, ![e].due = due,
                                         ![e].lockedBy = NoWorker, ![e].stale = FALSE]}
          BY <2>10 DEF Fail
        <4>2. event[e] \in Row
          BY <2>r
        <4> QED
          BY <2>r, <4>1, <4>2
      <3>2. faults' \in 0..MaxFaults
        BY <2>10, FaultTyped DEF Fail
      <3>3. /\ advisory' \in [Events -> Workers \cup {NoWorker}]
            /\ pc' \in [Jobs -> {"none", "spawned"} \cup LockedPhases]
            /\ attempt' \in [Jobs -> 0..MaxAttempts]
            /\ unguarded' \in SUBSET Events
        BY <2>10, EndJobTyped DEF Fail
      <3> QED
        BY <2>10, <3>1, <3>2, <3>3 DEF Fail
    <2>11. ASSUME NEW w \in Workers, NEW e \in Events, ClaimOverrun(w, e) PROVE TypeOK'
      <3>1. event' \in [Events -> Row]
        <4>1. event' = [event EXCEPT ![e].stale = TRUE]
          BY <2>11 DEF ClaimOverrun
        <4> QED
          BY <2>r, <4>1
      <3>2. faults' \in 0..MaxFaults
        BY <2>11, FaultTyped DEF ClaimOverrun
      <3> QED
        BY <2>11, <3>1, <3>2 DEF ClaimOverrun
    <2>12. ASSUME NEW e \in Events, LockLost(e) PROVE TypeOK'
      BY <2>12, FaultTyped DEF LockLost
    <2>13. CASE UNCHANGED vars
      BY <2>13 DEF vars
    <2> QED
      BY <2>1, <2>2, <2>3, <2>4, <2>5, <2>6, <2>7, <2>8, <2>9, <2>10, <2>11, <2>12, <2>13
      DEF Next, Process
  <1> QED
    BY <1>1, <1>2, PTL DEF Spec

-----------------------------------------------------------------------------
(* Claims, locks and receipts *)

\* What ties a job to its row: as long as no lock of the event broke, whoever is past the
\* advisory lock holds it and whoever runs the handler has no receipt against it; only
\* pending rows are claimed, and a job that is completing has taken effect.
Guarded(w, e) ==
    /\ pc[<<w, e>>] \in LockedPhases => advisory[e] = w
    /\ pc[<<w, e>>] = "handling" => e \notin receipts

JobSound(w, e) ==
    /\ e \notin unguarded => Guarded(w, e)
    /\ pc[<<w, e>>] = "completing" => effects[e] > 0
    /\ attempt[<<w, e>>] <= event[e].attempts

JobInv == \A w \in Workers, e \in Events : JobSound(w, e)

ClaimInv == \A e \in Events : event[e].lockedBy # NoWorker => event[e].status = "pending"

IInv == TypeOK /\ JobInv /\ ClaimInv /\ ReceiptMeansProcessed /\ DeadAfterAllAttempts

\* The row of an event after a claim: counted once more and still pending.
LEMMA ClaimStep ==
    ASSUME IInv, TypeOK', NEW w \in Workers, Claim(w)
    PROVE  IInv'
  <1> USE DEF IInv, TypeOK
  <1>1. PICK batch \in SUBSET {e \in Events : Claimable(e)} :
          /\ event' = [e \in Events |->
                IF e \notin batch THEN event[e]
                ELSE [event[e] EXCEPT !.attempts = UpTo(@ + 1, MaxAttempts),
                                      !.lockedBy = w, !.stale = FALSE]]
          /\ \/ /\ pc' = [j \in Jobs |-> IF j[1] = w /\ j[2] \in batch THEN "spawned" ELSE pc[j]]
                /\ attempt' = [j \in Jobs |-> IF j[1] = w /\ j[2] \in batch
                                              THEN event'[j[2]].attempts ELSE attempt[j]]
             \/ UNCHANGED <<pc, attempt>>
    BY DEF Claim
  <1>2. \A n \in 0..MaxAttempts : n <= UpTo(n + 1, MaxAttempts)
    BY OptionsAssumption DEF UpTo
  <1>3. \A e \in Events :
          /\ event'[e].status = event[e].status
          /\ event[e].attempts <= event'[e].attempts
          /\ event'[e].lockedBy # NoWorker => event'[e].status = "pending"
    <2> SUFFICES ASSUME NEW e \in Events
                 PROVE  /\ event'[e].status = event[e].status
                        /\ event[e].attempts <= event'[e].attempts
                        /\ event'[e].lockedBy # NoWorker => event'[e].status = "pending"
      OBVIOUS
    <2>1. CASE e \in batch
      <3>1. event'[e] = [event[e] EXCEPT !.attempts = UpTo(event[e].attempts + 1, MaxAttempts),
                                         !.lockedBy = w, !.stale = FALSE]
        BY <1>1, <2>1
      <3>2. event[e].status = "pending"
        BY <2>1 DEF Claimable
      <3>3. event[e].attempts <= UpTo(event[e].attempts + 1, MaxAttempts)
        BY <1>2
      <3> QED
        BY <3>1, <3>2, <3>3
    <2>2. CASE e \notin batch
      <3>1. event'[e] = event[e]
        BY <1>1, <2>2
      <3> QED
        BY <3>1, OptionsAssumption DEF ClaimInv
    <2> QED
      BY <2>1, <2>2
  <1>4. \A v \in Workers, e \in Events :
          /\ pc'[<<v, e>>] \in {pc[<<v, e>>], "spawned"}
          /\ attempt'[<<v, e>>] \in {attempt[<<v, e>>], event'[e].attempts}
    <2> SUFFICES ASSUME NEW v \in Workers, NEW e \in Events
                 PROVE  /\ pc'[<<v, e>>] \in {pc[<<v, e>>], "spawned"}
                        /\ attempt'[<<v, e>>] \in {attempt[<<v, e>>], event'[e].attempts}
      OBVIOUS
    <2>1. <<v, e>> \in Jobs /\ <<v, e>>[2] = e
      BY DEF Jobs
    <2>2. CASE UNCHANGED <<pc, attempt>>
      BY <2>2
    <2>3. CASE /\ pc' = [j \in Jobs |-> IF j[1] = w /\ j[2] \in batch THEN "spawned" ELSE pc[j]]
               /\ attempt' = [j \in Jobs |-> IF j[1] = w /\ j[2] \in batch
                                             THEN event'[j[2]].attempts ELSE attempt[j]]
      BY <2>1, <2>3
    <2> QED
      BY <1>1, <2>2, <2>3
  <1>5. UNCHANGED <<receipts, advisory, effects, unguarded>>
    BY DEF Claim
  <1>6. JobInv'
    <2> SUFFICES ASSUME NEW v \in Workers, NEW e \in Events PROVE JobSound(v, e)'
      BY DEF JobInv
    <2>1. /\ event[e].attempts \in Nat /\ event'[e].attempts \in Nat
          /\ attempt[<<v, e>>] \in Nat
      BY OptionsAssumption DEF Jobs
    <2> QED
      BY <1>3, <1>4, <1>5, <2>1 DEF JobInv, JobSound, Guarded, LockedPhases
  <1>7. ClaimInv' /\ ReceiptMeansProcessed'
    BY <1>3, <1>5 DEF ClaimInv, ReceiptMeansProcessed
  <1>8. DeadAfterAllAttempts'
    BY <1>3, OptionsAssumption DEF DeadAfterAllAttempts
  <1> QED
    BY <1>6, <1>7, <1>8

\* A job that ends, with nothing but its own row changed and, if it was past its lock, the
\* receipt of its event written, keeps the ties of all jobs.
LEMMA EndJobStep ==
    ASSUME IInv, TypeOK', NEW w \in Workers, NEW e \in Events, EndJob(w, e),
           UNCHANGED effects,
           \A x \in Events : event'[x].attempts = event[x].attempts,
           \/ UNCHANGED receipts
           \/ pc[<<w, e>>] \in LockedPhases /\ receipts' = receipts \cup {e}
    PROVE  JobInv'
  <1> USE DEF IInv, TypeOK
  <1> SUFFICES ASSUME NEW v \in Workers, NEW x \in Events PROVE JobSound(v, x)'
    BY DEF JobInv
  <1>1. <<v, x>> \in Jobs /\ <<w, e>> \in Jobs
    BY DEF Jobs
  <1>2. event[x].attempts \in Nat /\ 0 <= event[x].attempts
    BY OptionsAssumption
  <1>3. CASE v = w /\ x = e
    BY <1>1, <1>2, <1>3 DEF EndJob, LockedPhases, JobSound, Guarded
  <1>4. CASE <<v, x>> # <<w, e>>
    <2>1. pc'[<<v, x>>] = pc[<<v, x>>] /\ attempt'[<<v, x>>] = attempt[<<v, x>>]
      BY <1>1, <1>4 DEF EndJob
    <2>2. advisory[x] = v => advisory'[x] = v
      BY <1>4 DEF EndJob
    <2>3. JobSound(v, x)
      BY DEF JobInv
    <2>4. ASSUME x \notin unguarded' PROVE Guarded(v, x)'
      <3>1. CASE x \in unguarded
        BY <2>4, <3>1 DEF EndJob, GuardAgain, Guarded, LockedPhases
      <3>2. CASE x \notin unguarded
        <4>1. Guarded(v, x) /\ JobSound(w, e)
          BY <2>3, <3>2 DEF JobSound, JobInv
        <4>2. x \in receipts' /\ x \notin receipts /\ pc[<<v, x>>] = "handling" => v = w
          <5> SUFFICES ASSUME x = e, pc[<<w, e>>] \in LockedPhases, pc[<<v, x>>] = "handling"
                       PROVE  v = w
            OBVIOUS
          <5>1. advisory[e] = w
            BY <3>2, <4>1 DEF JobSound, Guarded
          <5> QED
            BY <4>1, <5>1 DEF Guarded, LockedPhases
        <4> QED
          BY <1>4, <2>1, <2>2, <4>1, <4>2 DEF Guarded
      <3> QED
        BY <3>1, <3>2
    <2> QED
      BY <2>1, <2>3, <2>4 DEF JobSound
  <1> QED
    BY <1>3, <1>4

\* The invariant is inductive: each action keeps the parts it can disturb.
LEMMA OutboxStep ==
    ASSUME IInv, TypeOK', [Next]_vars
    PROVE  IInv'
  <1> USE DEF IInv, TypeOK, JobInv, JobSound, Guarded, ClaimInv, ReceiptMeansProcessed,
              DeadAfterAllAttempts, LockedPhases
  <1>0. NoWorker \notin Workers /\ MaxAttempts \in Nat
    BY WorkerAssumption, OptionsAssumption
  <1>1. ASSUME NEW e \in Events, Enqueue(e) PROVE IInv'
    BY <1>1 DEF Enqueue
  <1>2. ASSUME NEW e \in Events, BecomeDue(e) PROVE IInv'
    BY <1>2 DEF BecomeDue
  <1>3. ASSUME NEW e \in Events, ClaimExpires(e) PROVE IInv'
    BY <1>3 DEF ClaimExpires
  <1>4. ASSUME NEW w \in Workers, Claim(w) PROVE IInv'
    BY <1>4, ClaimStep
  <1>5. ASSUME NEW w \in Workers, Restart(w) PROVE IInv'
    <2>1. ASSUME NEW v \in Workers, NEW x \in Events PROVE JobSound(v, x)'
      <3>1. <<v, x>> \in Jobs /\ <<v, x>>[1] = v
        BY DEF Jobs
      <3>2. /\ event'[x].attempts = event[x].attempts /\ event[x].attempts \in Nat
            /\ 0 <= event[x].attempts
        BY <1>0, <1>5 DEF Restart
      <3>3. CASE v = w
        BY <1>5, <3>1, <3>2, <3>3 DEF Restart
      <3>4. CASE v # w
        <4>1. /\ pc'[<<v, x>>] = pc[<<v, x>>] /\ attempt'[<<v, x>>] = attempt[<<v, x>>]
              /\ advisory[x] = v => advisory'[x] = v
              /\ UNCHANGED <<receipts, effects>>
          BY <1>5, <3>1, <3>4 DEF Restart
        <4>2. x \in unguarded /\ x \notin unguarded' => pc'[<<v, x>>] \notin LockedPhases
          BY <1>5 DEF Restart, GuardAgain
        <4>3. JobSound(v, x)
          OBVIOUS
        <4> QED
          BY <3>2, <4>1, <4>2, <4>3
      <3> QED
        BY <3>3, <3>4
    <2>2. ClaimInv' /\ ReceiptMeansProcessed' /\ DeadAfterAllAttempts'
      BY <1>0, <1>5 DEF Restart
    <2> QED
      BY <2>1, <2>2
  <1>6. ASSUME NEW w \in Workers, NEW e \in Events, TryAdvisory(w, e) PROVE IInv'
    <2>1. CASE EndJob(w, e)
      BY <1>6, <2>1, EndJobStep DEF TryAdvisory
    <2>2. CASE advisory[e] = NoWorker /\ ~EndJob(w, e)
      <3> SUFFICES ASSUME NEW v \in Workers, NEW x \in Events PROVE JobSound(v, x)'
        BY <1>6, <2>2 DEF TryAdvisory
      <3>1. <<v, x>> \in Jobs /\ <<w, e>> \in Jobs
        BY DEF Jobs
      <3>2. CASE v = w /\ x = e
        BY <1>6, <2>2, <3>1, <3>2 DEF TryAdvisory
      <3>3. CASE <<v, x>> # <<w, e>>
        BY <1>0, <1>6, <2>2, <3>1, <3>3 DEF TryAdvisory
      <3> QED
        BY <3>2, <3>3
    <2> QED
      BY <1>6, <2>1, <2>2 DEF TryAdvisory
  <1>7. ASSUME NEW w \in Workers, NEW e \in Events, CheckReceipt(w, e) PROVE IInv'
    <2>1. CASE EndJob(w, e)
      BY <1>7, <2>1, EndJobStep DEF CheckReceipt
    <2>2. CASE ~EndJob(w, e)
      <3> SUFFICES ASSUME NEW v \in Workers, NEW x \in Events PROVE JobSound(v, x)'
        BY <1>7, <2>2 DEF CheckReceipt
      <3>1. <<v, x>> \in Jobs /\ <<w, e>> \in Jobs
        BY DEF Jobs
      <3>2. CASE v = w /\ x = e
        BY <1>7, <2>2, <3>1, <3>2 DEF CheckReceipt
      <3>3. CASE <<v, x>> # <<w, e>>
        BY <1>0, <1>7, <2>2, <3>1, <3>3 DEF CheckReceipt
      <3> QED
        BY <3>2, <3>3
    <2> QED
      BY <2>1, <2>2
  <1>8. ASSUME NEW w \in Workers, NEW e \in Events, Handle(w, e) PROVE IInv'
    BY <1>8, <1>0 DEF Handle, UpTo, Jobs
  <1>9. ASSUME NEW w \in Workers, NEW e \in Events, Complete(w, e) PROVE IInv'
    <2>1. /\ EndJob(w, e) /\ UNCHANGED effects
          /\ UNCHANGED receipts \/ receipts' = receipts \cup {e}
          /\ pc[<<w, e>>] \in LockedPhases
          /\ \A x \in Events : event'[x].attempts = event[x].attempts
      BY <1>9 DEF Complete
    <2>3. JobInv'
      BY <2>1, EndJobStep
    <2>2. ClaimInv' /\ ReceiptMeansProcessed' /\ DeadAfterAllAttempts'
      BY <1>9, <1>0 DEF Complete, Owns
    <2> QED
      BY <2>2, <2>3
  <1>10. ASSUME NEW w \in Workers, NEW e \in Events, Fail(w, e) PROVE IInv'
    <2>1. EndJob(w, e) /\ UNCHANGED <<receipts, effects>>
      BY <1>10 DEF Fail
    <2>2. attempt[<<w, e>>] <= event[e].attempts
      OBVIOUS
    <2>3. \A x \in Events :
            /\ event'[x].attempts = event[x].attempts
            /\ event'[x].status # event[x].status =>
                  /\ event[x].status = "pending"
                  /\ event'[x].status = "dead"
                  /\ event[x].attempts >= MaxAttempts
            /\ event'[x].lockedBy # NoWorker => event'[x] = event[x]
      <3>1. CASE event' = event
        BY <1>0, <3>1
      <3>2. CASE Owns(w, e) /\ event' # event
        <4>1. event[e].status = "pending"
          BY <1>0, <3>2 DEF Owns
        <4> QED
          <5>1. event' = [event EXCEPT
                  ![e].status = IF attempt[<<w, e>>] >= MaxAttempts THEN "dead" ELSE @,
                  ![e].due = IF attempt[<<w, e>>] >= MaxAttempts THEN @ ELSE FALSE,
                  ![e].lockedBy = NoWorker, ![e].stale = FALSE]
            BY <1>10, <3>2 DEF Fail
          <5>2. /\ event'[e].attempts = event[e].attempts
                /\ event'[e].lockedBy = NoWorker
                /\ event'[e].status = IF attempt[<<w, e>>] >= MaxAttempts THEN "dead" ELSE "pending"
            BY <4>1, <5>1
          <5>3. \A x \in Events \ {e} : event'[x] = event[x]
            BY <5>1
          <5>4. /\ attempt[<<w, e>>] \in Nat /\ event[e].attempts \in Nat
            BY <1>0 DEF Jobs
          <5> QED
            BY <1>0, <2>2, <4>1, <5>2, <5>3, <5>4
      <3> QED
        BY <1>10, <3>1, <3>2 DEF Fail
    <2>4. JobInv'
      BY <2>1, <2>3, EndJobStep
    <2>5. ClaimInv' /\ ReceiptMeansProcessed' /\ DeadAfterAllAttempts'
      BY <2>1, <2>3
    <2> QED
      BY <2>4, <2>5
  <1>11. ASSUME NEW w \in Workers, NEW e \in Events, ClaimOverrun(w, e) PROVE IInv'
    BY <1>11 DEF ClaimOverrun
  <1>12. ASSUME NEW e \in Events, LockLost(e) PROVE IInv'
    BY <1>12 DEF LockLost
  <1>13. CASE UNCHANGED vars
    BY <1>13 DEF vars
  <1> QED
    BY <1>1, <1>2, <1>3, <1>4, <1>5, <1>6, <1>7, <1>8, <1>9, <1>10, <1>11, <1>12, <1>13
    DEF Next, Process

\* The inductive invariant holds in every state.
LEMMA OutboxInvariant == Spec => []IInv
  <1>1. Init => IInv
    <2>1. Init => JobInv
      BY OptionsAssumption DEF Init, JobInv, JobSound, Guarded, Jobs, LockedPhases
    <2>2. Init => TypeOK
      BY OptionsAssumption DEF Init, TypeOK, Jobs
    <2> QED
      BY <2>1, <2>2 DEF Init, IInv, ClaimInv, ReceiptMeansProcessed, DeadAfterAllAttempts
  <1>2. IInv /\ TypeOK' /\ [Next]_vars => IInv'
    BY OutboxStep
  <1> QED
    BY <1>1, <1>2, TypeCorrect, PTL DEF Spec

-----------------------------------------------------------------------------
(* Theorems *)

\* Two runners process one event together only after an advisory lock broke under one of
\* them, although claims expire and rows are taken over (WithAdvisoryLock).
THEOREM HandlersAlwaysExclusive == Spec => []HandlersExclusive
  <1>1. IInv => HandlersExclusive
    BY DEF IInv, JobInv, JobSound, Guarded, HandlersExclusive
  <1> QED
    BY <1>1, OutboxInvariant, PTL

\* Processed rows and receipts go together, and every receipt stands for an effect.
THEOREM ReceiptsAlwaysMatch == Spec => []ReceiptMeansProcessed
  <1>1. IInv => ReceiptMeansProcessed
    BY DEF IInv
  <1> QED
    BY <1>1, OutboxInvariant, PTL

\* No event is given up before its attempts are used.
THEOREM DeadAlwaysExhausted == Spec => []DeadAfterAllAttempts
  <1>1. IInv => DeadAfterAllAttempts
    BY DEF IInv
  <1> QED
    BY <1>1, OutboxInvariant, PTL

\* After the receipt no job, however late its claim, is about to run the handler, unless
\* an advisory lock broke under one: CheckReceipt is still true when the handler takes effect.
THEOREM ReceiptAlwaysStops == Spec => []ReceiptStopsHandlers
  <1>1. IInv => ReceiptStopsHandlers
    BY DEF IInv, TypeOK, JobInv, JobSound, Guarded, ReceiptStopsHandlers
  <1> QED
    BY <1>1, OutboxInvariant, PTL

\* A row that reached an end keeps it: writes need the claim, and only pending rows
\* are claimed.
THEOREM TerminalAlwaysFinal == Spec => TerminalIsFinal
  <1>1. IInv /\ [Next]_vars =>
          [\A e \in Events : event[e].status \in {"processed", "dead"} =>
                event'[e].status = event[e].status]_vars
    <2> SUFFICES ASSUME IInv, Next, NEW e \in Events, event[e].status \in {"processed", "dead"}
                 PROVE  event'[e].status = event[e].status
      BY DEF vars
    <2> USE DEF IInv, TypeOK
    <2>0. event[e].lockedBy = NoWorker /\ NoWorker \notin Workers
      BY WorkerAssumption DEF ClaimInv
    <2>1. ASSUME NEW x \in Events, Enqueue(x) \/ BecomeDue(x) \/ ClaimExpires(x) \/ LockLost(x)
          PROVE  event'[e].status = event[e].status
      BY <2>1 DEF Enqueue, BecomeDue, ClaimExpires, LockLost
    <2>2. ASSUME NEW w \in Workers, Claim(w)
          PROVE  event'[e].status = event[e].status
      <3>1. PICK batch \in SUBSET Events :
              event' = [x \in Events |->
                IF x \notin batch THEN event[x]
                ELSE [event[x] EXCEPT !.attempts = UpTo(@ + 1, MaxAttempts),
                                      !.lockedBy = w, !.stale = FALSE]]
        BY <2>2 DEF Claim
      <3> QED
        BY <3>1
    <2>3. ASSUME NEW w \in Workers, Restart(w)
          PROVE  event'[e].status = event[e].status
      BY <2>3 DEF Restart
    <2>4. ASSUME NEW w \in Workers, NEW x \in Events,
                 TryAdvisory(w, x) \/ CheckReceipt(w, x) \/ Handle(w, x) \/ ClaimOverrun(w, x)
          PROVE  event'[e].status = event[e].status
      BY <2>4 DEF TryAdvisory, CheckReceipt, Handle, ClaimOverrun
    <2>5. ASSUME NEW w \in Workers, NEW x \in Events, Complete(w, x)
          PROVE  event'[e].status = event[e].status
      BY <2>0, <2>5 DEF Complete, Owns
    <2>6. ASSUME NEW w \in Workers, NEW x \in Events, Fail(w, x)
          PROVE  event'[e].status = event[e].status
      BY <2>0, <2>6 DEF Fail, Owns
    <2> QED
      BY <2>1, <2>2, <2>3, <2>4, <2>5, <2>6 DEF Next, Process
  <1> QED
    BY <1>1, OutboxInvariant, PTL DEF Spec, TerminalIsFinal

=============================================================================
