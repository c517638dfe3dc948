------------------------------- MODULE Outbox -------------------------------
(***************************************************************************)
(* The transactional outbox (internal/platform/outbox/outbox.go): runners  *)
(* claim due rows for a limited time, take an advisory lock per event on a *)
(* connection of their pool, run the handler and record its receipt in the *)
(* transaction that completes the row.  A runner has a WorkerID of its own *)
(* for each start of the process.                                          *)
(*                                                                         *)
(* A job <<w, e>> is the goroutine in which runner w processes event e.    *)
(* Each action is one SQL statement or transaction; the handler            *)
(* (models.sync) is one transaction too, after a call to the provider.     *)
(***************************************************************************)
EXTENDS Naturals, FiniteSets, FiniteSetsExt

CONSTANTS
    Events,
    Workers,        \* runners, one per worker process
    NoWorker,       \* locked_by IS NULL
    Former,         \* the WorkerID of a process that is gone
    BatchSize, MaxAttempts,
    Connections,    \* size of each process's connection pool
    MaxFaults       \* bound: crashes, lost replies, failed statements, overrun claims, lost locks

ASSUME WorkerAssumption == NoWorker \notin Workers /\ Former \notin Workers /\ Former # NoWorker
ASSUME OptionsAssumption ==
    /\ {BatchSize, MaxAttempts, Connections} \subseteq Nat \ {0}
    /\ MaxFaults \in Nat

Jobs == Workers \X Events

VARIABLES
    event,      \* the outbox_events row: status, attempts, lockedBy, stale, due
    receipts,   \* events with an outbox_receipts row
    advisory,   \* advisory[e]: the runner whose session holds the advisory lock of e
    pc,         \* pc[job]
    attempt,    \* attempt[job]: record.Attempts, as claimed
    effects,    \* history: how often the handler took effect, up to 2
    unguarded,  \* history: events whose advisory lock broke under a job, until all their jobs end
    faults

vars == <<event, receipts, advisory, pc, attempt, effects, unguarded, faults>>

\* Phases in which a job keeps a connection for its advisory lock.
LockedPhases == {"checking", "handling", "completing", "failing"}

TypeOK ==
    /\ event \in [Events -> [status : {"absent", "pending", "processed", "dead"},
                             attempts : 0..MaxAttempts,      \* MaxAttempts: that many or more
                             lockedBy : Workers \cup {NoWorker, Former},
                             stale : BOOLEAN,                \* locked_at is past the TTL
                             due : BOOLEAN]]                 \* available_at <= now
    /\ receipts \in SUBSET Events
    /\ advisory \in [Events -> Workers \cup {NoWorker}]
    /\ pc \in [Jobs -> {"none", "spawned"} \cup LockedPhases]
    /\ attempt \in [Jobs -> 0..MaxAttempts]
    /\ effects \in [Events -> 0..2]
    /\ unguarded \in SUBSET Events
    /\ faults \in 0..MaxFaults

Init ==
    /\ event = [e \in Events |-> [status |-> "absent", attempts |-> 0, lockedBy |-> NoWorker,
                                  stale |-> FALSE, due |-> TRUE]]
    /\ receipts = {}
    /\ advisory = [e \in Events |-> NoWorker]
    /\ pc = [j \in Jobs |-> "none"]
    /\ attempt = [j \in Jobs |-> 0]
    /\ effects = [e \in Events |-> 0]
    /\ unguarded = {}
    /\ faults = 0

-----------------------------------------------------------------------------
(* Operators *)

UpTo(n, limit) == IF n < limit THEN n ELSE limit

\* A statement needs a connection beside those the advisory locks of w keep.
FreeConnection(w) == Cardinality({e \in Events : pc[<<w, e>>] \in LockedPhases}) < Connections

\* RunOnce waits for every goroutine of its batch.
Idle(w) == \A e \in Events : pc[<<w, e>>] = "none"

\* Variant: abandoned claims are not taken over.
Unlocked(e) ==
    event[e].status = "pending" /\ event[e].due /\ event[e].lockedBy = NoWorker

\* ClaimOutboxEvents: candidates
Claimable(e) ==
    /\ event[e].status = "pending"
    /\ event[e].due
    /\ event[e].lockedBy = NoWorker \/ event[e].stale

\* The WHERE of CompleteOutboxEvent, RetryOutboxEvent and DeadLetterOutboxEvent.
Owns(w, e) == event[e].lockedBy = w /\ event[e].status # "processed"

Fault == faults < MaxFaults /\ faults' = faults + 1

\* Jobs have ended: the events none of whose jobs is past its lock are guarded again.
GuardAgain ==
    unguarded' = {e \in unguarded : \E w \in Workers : pc'[<<w, e>>] \in LockedPhases}

\* The job ends, and WithAdvisoryLock unlocks, if the lock is still its own, and returns its
\* connection.
EndJob(w, e) ==
    /\ pc' = [pc EXCEPT ![<<w, e>>] = "none"]
    /\ attempt' = [attempt EXCEPT ![<<w, e>>] = 0]
    /\ advisory' = [advisory EXCEPT ![e] = IF @ = w THEN NoWorker ELSE @]
    /\ GuardAgain

-----------------------------------------------------------------------------
(* Actions *)

\* adminSyncModels; a repeated idempotency key inserts nothing.
Enqueue(e) ==
    /\ event[e].status = "absent"
    /\ event' = [event EXCEPT ![e].status = "pending"]
    /\ UNCHANGED <<receipts, advisory, pc, attempt, effects, unguarded, faults>>

\* The clock passes available_at of a retry.
BecomeDue(e) ==
    /\ event[e].status = "pending"
    /\ ~event[e].due
    /\ event' = [event EXCEPT ![e].due = TRUE]
    /\ UNCHANGED <<receipts, advisory, pc, attempt, effects, unguarded, faults>>

\* The lock of a claim nobody works on any more passes its TTL.
ClaimExpires(e) ==
    LET w == event[e].lockedBy IN
    /\ w # NoWorker
    /\ ~event[e].stale
    /\ w \in Workers => pc[<<w, e>>] = "none"
    /\ event' = [event EXCEPT ![e].stale = TRUE]
    /\ UNCHANGED <<receipts, advisory, pc, attempt, effects, unguarded, faults>>

\* So does one whose job is slow: a provider that does not answer, a wait for the pool.
ClaimOverrun(w, e) ==
    /\ event[e].lockedBy = w
    /\ ~event[e].stale
    /\ pc[<<w, e>>] # "none"
    /\ Fault
    /\ event' = [event EXCEPT ![e].stale = TRUE]
    /\ UNCHANGED <<receipts, advisory, pc, attempt, effects, unguarded>>

\* RunOnce claims a batch and spawns a job for each event, or loses the reply.
Claim(w) ==
    LET due == {e \in Events : Claimable(e)} IN
    /\ Idle(w)
    /\ due # {}
    /\ \E batch \in SUBSET due :
          /\ Cardinality(batch) = UpTo(Cardinality(due), BatchSize)
          /\ event' = [e \in Events |->
                IF e \notin batch THEN event[e]
                ELSE [event[e] EXCEPT !.attempts = UpTo(@ + 1, MaxAttempts),
                                      !.lockedBy = w, !.stale = FALSE]]
          /\ \/ /\ pc' = [j \in Jobs |-> IF j[1] = w /\ j[2] \in batch THEN "spawned" ELSE pc[j]]
                /\ attempt' = [j \in Jobs |-> IF j[1] = w /\ j[2] \in batch
                                              THEN event'[j[2]].attempts ELSE attempt[j]]
                /\ UNCHANGED faults
             \/ Fault /\ UNCHANGED <<pc, attempt>>
    /\ UNCHANGED <<receipts, advisory, effects, unguarded>>

\* Variant: the result of pg_try_advisory_lock is not looked at.
TakeAdvisory(w, e) ==
    /\ pc[<<w, e>>] = "spawned"
    /\ FreeConnection(w)
    /\ advisory' = [advisory EXCEPT ![e] = w]
    /\ pc' = [pc EXCEPT ![<<w, e>>] = "checking"]
    /\ UNCHANGED <<event, receipts, attempt, effects, unguarded, faults>>

\* pg_try_advisory_lock on a connection of the pool.  A job that does not get the lock
\* skips the event, whose row stays claimed by w.
TryAdvisory(w, e) ==
    /\ pc[<<w, e>>] = "spawned"
    /\ FreeConnection(w)
    /\ \/ /\ advisory[e] = NoWorker
          /\ advisory' = [advisory EXCEPT ![e] = w]
          /\ pc' = [pc EXCEPT ![<<w, e>>] = "checking"]
          /\ UNCHANGED <<attempt, unguarded, faults>>
       \/ advisory[e] # NoWorker /\ EndJob(w, e) /\ UNCHANGED faults
       \/ EndJob(w, e) /\ Fault
    /\ UNCHANGED <<event, receipts, effects>>

\* HasOutboxReceipt; an event without a handler fails at once.
CheckReceipt(w, e) ==
    /\ pc[<<w, e>>] = "checking"
    /\ FreeConnection(w)
    /\ \/ /\ pc' = [pc EXCEPT ![<<w, e>>] = IF e \in receipts THEN "completing" ELSE "handling"]
          /\ UNCHANGED <<advisory, attempt, unguarded, faults>>
       \/ EndJob(w, e) /\ Fault
    /\ UNCHANGED <<event, receipts, effects>>

\* handler.Handle: it takes effect, or fails, or fails although it took effect.
Handle(w, e) ==
    /\ pc[<<w, e>>] = "handling"
    /\ FreeConnection(w)
    /\ \E took, failed \in BOOLEAN :
          /\ took \/ failed
          /\ effects' = [effects EXCEPT ![e] = IF took THEN UpTo(@ + 1, 2) ELSE @]
          /\ pc' = [pc EXCEPT ![<<w, e>>] = IF failed THEN "failing" ELSE "completing"]
    /\ UNCHANGED <<event, receipts, advisory, attempt, unguarded, faults>>

\* Variant: the receipt is written in a transaction of its own, after the completion.
CompleteFirst(w, e) ==
    /\ pc[<<w, e>>] = "completing"
    /\ Owns(w, e)
    /\ event' = [event EXCEPT ![e].status = "processed", ![e].lockedBy = NoWorker, ![e].stale = FALSE]
    /\ receipts' \in {receipts, receipts \cup {e}}
    /\ EndJob(w, e)
    /\ UNCHANGED <<effects, faults>>

\* RecordOutboxReceipt and CompleteOutboxEvent, in one transaction: it rolls back when
\* the row is not locked by w any more.
Complete(w, e) ==
    /\ pc[<<w, e>>] = "completing"
    /\ FreeConnection(w)
    /\ \/ /\ Owns(w, e)
          /\ event' = [event EXCEPT ![e].status = "processed", ![e].lockedBy = NoWorker,
                                    ![e].stale = FALSE]
          /\ receipts' = receipts \cup {e}
          /\ UNCHANGED faults
       \/ ~Owns(w, e) /\ UNCHANGED <<event, receipts, faults>>
       \/ Fault /\ UNCHANGED <<event, receipts>>
    /\ EndJob(w, e)
    /\ UNCHANGED effects

\* Variant: the row gets the word that the API reports for it.
FailNamed(w, e) ==
    /\ pc[<<w, e>>] = "failing"
    /\ Owns(w, e)
    /\ event' = [event EXCEPT ![e].status = IF attempt[<<w, e>>] >= MaxAttempts THEN "failed" ELSE @,
                              ![e].lockedBy = NoWorker, ![e].stale = FALSE, ![e].due = FALSE]
    /\ EndJob(w, e)
    /\ UNCHANGED <<receipts, effects, faults>>

\* fail: DeadLetterOutboxEvent after the last attempt, RetryOutboxEvent with a delay
\* before it; neither touches a row that w lost.
Fail(w, e) ==
    /\ pc[<<w, e>>] = "failing"
    /\ FreeConnection(w)
    /\ \/ /\ Owns(w, e)
          /\ event' = [event EXCEPT
                ![e].status = IF attempt[<<w, e>>] >= MaxAttempts THEN "dead" ELSE @,
                ![e].due = IF attempt[<<w, e>>] >= MaxAttempts THEN @ ELSE FALSE,
                ![e].lockedBy = NoWorker, ![e].stale = FALSE]
          /\ UNCHANGED faults
       \/ ~Owns(w, e) /\ UNCHANGED <<event, faults>>
       \/ Fault /\ UNCHANGED event
    /\ EndJob(w, e)
    /\ UNCHANGED <<receipts, effects>>

\* The process of w dies or is told to stop, and is started again with another id.
Restart(w) ==
    /\ Fault
    /\ event' = [e \in Events |-> IF event[e].lockedBy = w
                                  THEN [event[e] EXCEPT !.lockedBy = Former] ELSE event[e]]
    /\ advisory' = [e \in Events |-> IF advisory[e] = w THEN NoWorker ELSE advisory[e]]
    /\ pc' = [j \in Jobs |-> IF j[1] = w THEN "none" ELSE pc[j]]
    /\ attempt' = [j \in Jobs |-> IF j[1] = w THEN 0 ELSE attempt[j]]
    /\ GuardAgain
    /\ UNCHANGED <<receipts, effects>>

\* The connection that keeps the advisory lock of e breaks: PostgreSQL frees the lock, and
\* the job, which uses other connections, does not notice.
LockLost(e) ==
    /\ advisory[e] # NoWorker
    /\ Fault
    /\ advisory' = [advisory EXCEPT ![e] = NoWorker]
    /\ unguarded' = unguarded \cup {e}
    /\ UNCHANGED <<event, receipts, pc, attempt, effects>>

Process(w, e) ==
    \/ TryAdvisory(w, e)
    \/ CheckReceipt(w, e)
    \/ Handle(w, e)
    \/ Complete(w, e)
    \/ Fail(w, e)

Next ==
    \/ \E e \in Events : Enqueue(e) \/ BecomeDue(e) \/ ClaimExpires(e) \/ LockLost(e)
    \/ \E w \in Workers : Claim(w) \/ Restart(w)
    \/ \E w \in Workers, e \in Events : Process(w, e) \/ ClaimOverrun(w, e)

Spec == Init /\ [][Next]_vars

\* Time passes, the ticker of every runner fires, and a goroutine that can take a
\* step takes it: statements end, and the client of the provider has timeouts.
FairSpec ==
    /\ Spec
    /\ \A e \in Events : WF_vars(BecomeDue(e)) /\ WF_vars(ClaimExpires(e))
    /\ \A w \in Workers : WF_vars(Claim(w))
    /\ \A w \in Workers, e \in Events : WF_vars(Process(w, e))

-----------------------------------------------------------------------------
(* Properties *)

\* Two runners process one event together only when the advisory lock of one of them
\* broke under it: that a claim expires and another runner takes the row over is not
\* enough, for the lock outlives the claim (WithAdvisoryLock).
HandlersExclusive ==
    \A e \in Events \ unguarded : \A v, w \in Workers :
        pc[<<v, e>>] \in LockedPhases /\ pc[<<w, e>>] \in LockedPhases => v = w

\* A row is processed exactly when its receipt exists, and then its handler took effect.
ReceiptMeansProcessed ==
    \A e \in Events :
        /\ event[e].status = "processed" <=> e \in receipts
        /\ e \in receipts => effects[e] > 0

\* Once the receipt exists no job is about to run the handler, whichever claims are still
\* under way (HasOutboxReceipt), unless an advisory lock broke under one of them.
ReceiptStopsHandlers ==
    \A w \in Workers, e \in receipts \ unguarded : pc[<<w, e>>] # "handling"

\* A processed or dead-lettered row never changes again: a runner that lost its claim
\* cannot write to it (docs/data-model.md: the two states are mutually exclusive).
TerminalIsFinal ==
    [][\A e \in Events :
          event[e].status \in {"processed", "dead"} => event'[e].status = event[e].status]_vars

\* An event is dead-lettered only after the configured number of attempts.
DeadAfterAllAttempts ==
    \A e \in Events : event[e].status = "dead" => event[e].attempts >= MaxAttempts

\* docs/data-model.md: "locks expire so another worker can recover abandoned work".
\* Every event is eventually processed or dead-lettered.
EventuallySettled ==
    \A e \in Events : event[e].status = "pending" ~> event[e].status \in {"processed", "dead"}

=============================================================================
