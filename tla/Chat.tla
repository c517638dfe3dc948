-------------------------------- MODULE Chat --------------------------------
(***************************************************************************)
(* The chat service (internal/chat/service.go): how a command becomes a    *)
(* generation, how its goroutine streams the answer and finalizes it, and  *)
(* what cancels, deletions, guest migration, a lapsed lease, lost writes   *)
(* and dying replicas do in between.                                       *)
(*                                                                         *)
(* Each action is one statement or transaction of PostgreSQL, one Redis    *)
(* command or one critical section of the service's mutex: everything else *)
(* that runs, on this replica or another, may happen between two of them.  *)
(* Quota admission is the module Quota; here Reserve is one step that      *)
(* takes the actor's lease, and may refuse.                                *)
(***************************************************************************)
EXTENDS Naturals, FiniteSets, FiniteSetsExt

CONSTANTS
    Conversations,
    Guest, User,            \* the guest session and the account it may migrate to
    Requests,               \* chat.generate commands and HTTP retries
    Retries,                \* the HTTP retries among them
    ConversationOf, KeyOf,  \* conversation and idempotency key of a request
    Replicas,
    ReplicaOf,              \* the API replica that serves a request
    NoRequest,
    MaxChunks               \* bound: chunks of text a provider streams

ASSUME RequestAssumption ==
    /\ IsFiniteSet(Requests)
    /\ Retries \subseteq Requests
    /\ NoRequest \notin Requests
    /\ ConversationOf \in [Requests -> Conversations]
    /\ ReplicaOf \in [Requests -> Replicas]

ASSUME OwnerAssumption == Guest # User
ASSUME ChunkAssumption == MaxChunks \in Nat

Actors == {Guest, User}

VARIABLES
    \* PostgreSQL
    conversation,   \* conversation[c]: owner, generation_state, deleted
    generation,     \* generation[q]: the row created for q
    message,        \* message[q]: the assistant message: status, length of its content
    reservation,    \* reservation[q]: quota_reservations.status, open or settled
    ledger,         \* requests with a usage_ledger entry
    \* Redis
    lease,          \* lease[a]: the request that holds the actor's generation lease
    \* one replica's memory
    pc,             \* pc[q]: where the handler or the goroutine of q is
    job,            \* job[q]: its local variables
    cancellations,  \* requests whose CancelFunc is registered
    pendingCancel,  \* pendingCancel[r]: cancels that found no CancelFunc
    cancelled,      \* requests whose context is cancelled
    commands,       \* <<r, q>>: replica r acknowledged a cancel of q, not yet executed
    mode,           \* mode[r]: "up", "stopping" after SIGTERM, "down"
    \* history, for the properties only
    lapsed,         \* requests in flight whose lease expired
    faulty,         \* requests with a write that an error of the database lost or hid
    overtaken       \* conversations that accepted a request while another was in flight

rows == <<conversation, generation, message, reservation, ledger>>
process == <<cancellations, pendingCancel, cancelled, commands, mode>>
history == <<lapsed, faulty, overtaken>>
vars == <<rows, lease, pc, job, process, history>>

Active == {"accepted", "streaming"}
Terminal == {"completed", "cancelled", "failed"}
\* The error a goroutine passes to fail, as provider.Normalize tells it apart.
Causes == {"none", "canceled", "retryable", "permanent", "blocked"}

\* Phases in which a request relies on its lease.
InFlightPhases == {"reserved", "stamped", "accepted", "starting", "marking", "connecting",
                   "streaming", "finalizing", "closing", "unlocking", "settling", "refunding"}
Phases == InFlightPhases \cup {"idle", "checked", "leaving", "done", "rejected",
                               "abandoned", "crashed"}
InFlight == {q \in Requests : pc[q] \in InFlightPhases}

TypeOK ==
    /\ conversation \in [Conversations -> [owner : Actors, deleted : BOOLEAN,
                                           state : {"idle", "accepted", "streaming"}]]
    /\ generation \in [Requests -> [status : {"none"} \cup Active \cup Terminal,
                                    retryable : BOOLEAN, offset : 0..MaxChunks,
                                    parent : Requests \cup {NoRequest}, acceptedAt : Nat]]
    /\ message \in [Requests -> [status : {"none", "pending", "complete", "cancelled", "failed"},
                                 length : 0..MaxChunks]]
    /\ reservation \in [Requests -> {"none", "open", "settled"}]
    /\ ledger \in SUBSET Requests
    /\ lease \in [Actors -> Requests \cup {NoRequest}]
    /\ pc \in [Requests -> Phases]
    /\ job \in [Requests -> [actor : Actors, previous : Requests \cup {NoRequest}, now : Nat,
                             content : 0..MaxChunks, outcome : {"none"} \cup Terminal,
                             cause : Causes]]
    /\ cancellations \in SUBSET Requests
    /\ pendingCancel \in [Replicas -> SUBSET Requests]
    /\ cancelled \in SUBSET Requests
    /\ commands \in SUBSET (Replicas \X Requests)
    /\ mode \in [Replicas -> {"up", "stopping", "down"}]
    /\ lapsed \in SUBSET Requests
    /\ faulty \in SUBSET Requests
    /\ overtaken \in SUBSET Conversations

\* The local variables before and after a request runs.
NoJob == [actor |-> Guest, previous |-> NoRequest, now |-> 0, content |-> 0,
          outcome |-> "none", cause |-> "none"]

Init ==
    /\ conversation = [c \in Conversations |-> [owner |-> Guest, deleted |-> FALSE, state |-> "idle"]]
    /\ generation = [q \in Requests |-> [status |-> "none", retryable |-> FALSE, offset |-> 0,
                                         parent |-> NoRequest, acceptedAt |-> 0]]
    /\ message = [q \in Requests |-> [status |-> "none", length |-> 0]]
    /\ reservation = [q \in Requests |-> "none"]
    /\ ledger = {}
    /\ lease = [a \in Actors |-> NoRequest]
    /\ pc = [q \in Requests |-> "idle"]
    /\ job = [q \in Requests |-> NoJob]
    /\ cancellations = {}
    /\ pendingCancel = [r \in Replicas |-> {}]
    /\ cancelled = {}
    /\ commands = {}
    /\ mode = [r \in Replicas |-> "up"]
    /\ lapsed = {}
    /\ faulty = {}
    /\ overtaken = {}

-----------------------------------------------------------------------------
(* Operators *)

\* The generations of a conversation, and the one ORDER BY accepted_at DESC finds.
GenerationsOf(c) == {q \in Requests : ConversationOf[q] = c /\ generation[q].status # "none"}
LatestOf(c) == {q \in GenerationsOf(c) : 
                    \A r \in GenerationsOf(c) : generation[r].acceptedAt <= generation[q].acceptedAt}

Continuable(q) ==
    \/ generation[q].status = "cancelled"
    \/ generation[q].status = "failed" /\ generation[q].retryable

\* GetGenerationByIdempotencyKey
Duplicate(q) == \E r \in GenerationsOf(ConversationOf[q]) : KeyOf[r] = KeyOf[q]

Goto(q, phase) == pc' = [pc EXCEPT ![q] = phase]

\* The handler or goroutine of q returns.
Return(q, phase) == Goto(q, phase) /\ job' = [job EXCEPT ![q] = NoJob]

\* clock.Now(): later than every time a request has read before.
Clock == 1 + Max({generation[q].acceptedAt : q \in Requests} \cup {job[q].now : q \in Requests})

\* releaseLeaseScript; when Redis fails the key stays until its TTL.
ReleaseLease(q) ==
    LET a == job[q].actor IN
    lease' \in {lease, [lease EXCEPT ![a] = IF lease[a] = q THEN NoRequest ELSE lease[a]]}

\* The goroutine of q leaves the stream with a terminal status for FinalizeGeneration.
Conclude(q, outcome, cause) ==
    /\ job' = [job EXCEPT ![q].outcome = outcome, ![q].cause = cause]
    /\ Goto(q, "finalizing")

\* fail(accepted, err): a cancelled context makes err context.Canceled.
Fail(q, causes) == \E cause \in causes : Conclude(q, "failed", cause)

-----------------------------------------------------------------------------
(* A command, up to its acknowledgement *)

\* Variant: the status of the latest generation is not looked at.
LookupAnyLatest(q) ==
    LET c == ConversationOf[q] IN
    /\ pc[q] = "idle"
    /\ mode[ReplicaOf[q]] = "up"
    /\ ~conversation[c].deleted
    /\ \E p \in IF q \in Retries THEN LatestOf(c) ELSE {NoRequest} :
          job' = [job EXCEPT ![q].actor = conversation[c].owner, ![q].previous = p]
    /\ Goto(q, "checked")
    /\ UNCHANGED <<rows, lease, process, history>>

\* Prepare or Retry: conversations.Get, the idempotency key and, for a retry, the
\* generation to continue, all read before anything is reserved.
Lookup(q) ==
    LET c == ConversationOf[q] IN
    /\ pc[q] = "idle"
    /\ mode[ReplicaOf[q]] = "up"
    /\ \/ /\ ~conversation[c].deleted
          /\ ~Duplicate(q)
          /\ \E p \in IF q \in Retries THEN {r \in LatestOf(c) : Continuable(r)} ELSE {NoRequest} :
                job' = [job EXCEPT ![q].actor = conversation[c].owner, ![q].previous = p]
          /\ Goto(q, "checked")
       \/ /\ Goto(q, "rejected")        \* not found, a duplicate, no such model, unavailable
          /\ UNCHANGED job
    /\ UNCHANGED <<rows, lease, process, history>>

\* Variant: SET instead of SETNX.
ReserveQuotaAlways(q) ==
    /\ pc[q] = "checked"
    /\ lease' = [lease EXCEPT ![job[q].actor] = q]
    /\ reservation' = [reservation EXCEPT ![q] = "open"]
    /\ Goto(q, "reserved")
    /\ UNCHANGED <<conversation, generation, message, ledger, job, process, history>>

\* quota.MaxOutputTokens and Reserve; a migrated guest has no allowance left.
ReserveQuota(q) ==
    LET a == job[q].actor IN
    /\ pc[q] = "checked"
    /\ \/ /\ lease[a] = NoRequest
          /\ a = Guest => conversation[ConversationOf[q]].owner = Guest
          /\ lease' = [lease EXCEPT ![a] = q]
          /\ reservation' = [reservation EXCEPT ![q] = "open"]
          /\ Goto(q, "reserved")
          /\ UNCHANGED job
       \/ /\ Return(q, "rejected")      \* quota exceeded or the lease is taken
          /\ UNCHANGED <<lease, reservation>>
    /\ UNCHANGED <<conversation, generation, message, ledger, process, history>>

\* buildContext, newIDs and now := clock.Now(): the accepted_at of the generation.
BuildContext(q) ==
    /\ pc[q] = "reserved"
    /\ \/ /\ job' = [job EXCEPT ![q].now = Clock]
          /\ Goto(q, "stamped")
       \/ Goto(q, "refunding") /\ UNCHANGED job
    /\ UNCHANGED <<rows, lease, process, history>>

\* Variant: the transaction forgets SetConversationGenerationState.
AcceptSilently(q) ==
    LET c == ConversationOf[q] IN
    /\ pc[q] = "stamped"
    /\ ~Duplicate(q)
    /\ \A r \in GenerationsOf(c) : generation[r].status \notin Active
    /\ generation' = [generation EXCEPT ![q].status = "accepted", ![q].parent = job[q].previous,
                                        ![q].acceptedAt = job[q].now]
    /\ message' = [message EXCEPT ![q].status = "pending"]
    /\ Goto(q, "accepted")
    /\ UNCHANGED <<conversation, reservation, ledger, lease, job, process, history>>

\* The transaction of accept and Retry: messages, generation, conversation state.
Accept(q) ==
    LET c == ConversationOf[q] IN
    /\ pc[q] = "stamped"
    /\ ~Duplicate(q)                                            \* ON CONFLICT ... WHERE false
    /\ \A r \in GenerationsOf(c) : generation[r].status \notin Active   \* the partial unique index
    /\ ~conversation[c].deleted                                 \* SetConversationGenerationState
    /\ generation' = [generation EXCEPT ![q].status = "accepted", ![q].parent = job[q].previous,
                                        ![q].acceptedAt = job[q].now]
    /\ message' = [message EXCEPT ![q].status = "pending"]
    /\ conversation' = [conversation EXCEPT ![c].state = "accepted"]
    /\ overtaken' = IF \E r \in InFlight \ {q} : ConversationOf[r] = c /\ generation[r].status # "none"
                    THEN overtaken \cup {c} ELSE overtaken
    /\ \/ Goto(q, "accepted") /\ UNCHANGED faulty
       \/ Goto(q, "refunding") /\ faulty' = faulty \cup {q}     \* the reply to COMMIT is lost
    /\ UNCHANGED <<reservation, ledger, lease, job, process, lapsed>>

\* It rolls back: a duplicate, another active generation, a deleted conversation or
\* an error of the database.
RollBack(q) ==
    /\ pc[q] = "stamped"
    /\ Goto(q, "refunding")
    /\ UNCHANGED <<rows, lease, job, process, history>>

\* quota.Settle(reservation, 0) of a command that was not accepted; errors are ignored.
Refund(q) ==
    /\ pc[q] = "refunding"
    /\ \/ reservation' = [reservation EXCEPT ![q] = "settled"] /\ UNCHANGED faulty
       \/ faulty' = faulty \cup {q} /\ UNCHANGED reservation
    /\ ReleaseLease(q)
    /\ lapsed' = lapsed \ {q}
    /\ Return(q, "rejected")
    /\ UNCHANGED <<conversation, generation, message, ledger, process, overtaken>>

\* The handler emits command.acknowledged and starts the goroutine.  When Emit fails
\* the connection ends and nothing ever starts it; a retry is answered over HTTP.
Acknowledge(q) ==
    /\ pc[q] = "accepted"
    /\ \/ Goto(q, "starting") /\ UNCHANGED <<job, lapsed>>
       \/ q \notin Retries /\ Return(q, "abandoned") /\ lapsed' = lapsed \ {q}
    /\ UNCHANGED <<rows, lease, process, faulty, overtaken>>

-----------------------------------------------------------------------------
(* The goroutine that streams a generation *)

\* Its CancelFunc is registered, and a cancel that came too early is carried out.
Register(q) ==
    LET r == ReplicaOf[q] IN
    /\ pc[q] = "starting"
    /\ cancellations' = cancellations \cup {q}
    /\ pendingCancel' = [pendingCancel EXCEPT ![r] = @ \ {q}]
    /\ cancelled' = IF q \in pendingCancel[r] \/ mode[r] = "stopping"
                    THEN cancelled \cup {q} ELSE cancelled
    /\ Goto(q, "marking")
    /\ UNCHANGED <<rows, lease, job, commands, mode, history>>

\* Variant: an error of MarkGenerationStreaming is ignored.
MarkStreamingRegardless(q) ==
    /\ pc[q] = "marking"
    /\ generation' \in {generation, [generation EXCEPT ![q].status = "streaming"]}
    /\ Goto(q, "connecting")
    /\ UNCHANGED <<conversation, message, reservation, ledger, lease, job, process, history>>

\* MarkGenerationStreaming, then the state of the conversation (errors ignored).
MarkStreaming(q) ==
    LET c == ConversationOf[q] IN
    /\ pc[q] = "marking"
    /\ \/ /\ q \notin cancelled
          /\ generation[q].status = "accepted"
          /\ generation' = [generation EXCEPT ![q].status = "streaming"]
          /\ \/ ~conversation[c].deleted /\ conversation' = [conversation EXCEPT ![c].state = "streaming"]
             \/ UNCHANGED conversation
          /\ Goto(q, "connecting")
          /\ UNCHANGED job
       \/ /\ Fail(q, IF q \in cancelled THEN {"canceled"} ELSE {"retryable"})
          /\ UNCHANGED <<generation, conversation>>
    /\ UNCHANGED <<message, reservation, ledger, lease, process, history>>

\* gateway.Stream
Connect(q) ==
    /\ pc[q] = "connecting"
    /\ \/ q \notin cancelled /\ Goto(q, "streaming") /\ UNCHANGED job
       \/ Fail(q, IF q \in cancelled THEN {"canceled"} ELSE {"retryable", "permanent"})
    /\ UNCHANGED <<rows, lease, process, history>>

AppendAssistantMessage(q) == [message EXCEPT ![q].length = @ + 1]
CheckpointGeneration(q, text) == [generation EXCEPT ![q].offset = text]

\* stream.Next returns text that passes the safety check: it is appended to the
\* message, then the offset is checkpointed (errors ignored).  When the append fails
\* it may have been committed all the same.
ReceiveChunk(q) ==
    LET text == job[q].content + 1
        appended == AppendAssistantMessage(q)
    IN
    /\ pc[q] = "streaming"
    /\ job[q].content < MaxChunks
    /\ \/ /\ q \notin cancelled
          /\ message[q].status = "pending"
          /\ message' = appended
          /\ generation' \in {generation, CheckpointGeneration(q, text)}
          /\ job' = [job EXCEPT ![q].content = text]
          /\ UNCHANGED pc
       \/ /\ message' \in {message, appended}
          /\ job' = [job EXCEPT ![q].content = text, ![q].outcome = "failed",
                                ![q].cause = IF q \in cancelled THEN "canceled" ELSE "retryable"]
          /\ Goto(q, "finalizing")
          /\ UNCHANGED generation
    /\ UNCHANGED <<conversation, reservation, ledger, lease, process, history>>

\* The loop ends: end of the stream, cancellation, a provider error, or a chunk that
\* the safety policy blocks.
EndStream(q) ==
    /\ pc[q] = "streaming"
    /\ \/ Conclude(q, "completed", "none")
       \/ q \in cancelled /\ Conclude(q, "cancelled", "canceled")
       \/ Fail(q, {"retryable", "permanent", "blocked"})
    /\ UNCHANGED <<rows, lease, process, history>>

\* Variant: fail trusts its local content.
LocalOffset(q) == job[q].content

\* The offset that finish, blockSafety and fail write: fail reads the message back.
FinalOffset(q) ==
    IF job[q].outcome = "failed" /\ job[q].cause # "blocked"
    THEN message[q].length ELSE job[q].content

\* FinalizeGeneration.  Its error, and that of the GetMessage before it, are ignored.
FinalizeGeneration(q) ==
    /\ pc[q] = "finalizing"
    /\ \/ /\ generation[q].status \in Active
          /\ \E lost \in BOOLEAN :
                /\ lost => job[q].outcome = "failed"
                /\ generation' = [generation EXCEPT
                      ![q].status = job[q].outcome,
                      ![q].retryable = job[q].outcome = "failed" /\ job[q].cause = "retryable",
                      ![q].offset = IF lost THEN 0 ELSE FinalOffset(q)]
                /\ faulty' = IF lost THEN faulty \cup {q} ELSE faulty
       \/ faulty' = faulty \cup {q} /\ UNCHANGED generation
    /\ Goto(q, "closing")
    /\ UNCHANGED <<conversation, message, reservation, ledger, lease, job, process,
                   lapsed, overtaken>>

\* Variant: the status of the generation is written into the message.
FinalizeMessageAlike(q) ==
    /\ pc[q] = "closing"
    /\ message' = [message EXCEPT ![q].status = job[q].outcome]
    /\ Goto(q, "unlocking")
    /\ UNCHANGED <<conversation, generation, reservation, ledger, lease, job, process, history>>

\* FinalizeMessage
FinalizeMessage(q) ==
    /\ pc[q] = "closing"
    /\ \/ /\ message[q].status = "pending"
          /\ message' = [message EXCEPT ![q].status =
                IF job[q].outcome = "completed" THEN "complete" ELSE job[q].outcome]
          /\ UNCHANGED faulty
       \/ faulty' = faulty \cup {q} /\ UNCHANGED message
    /\ Goto(q, "unlocking")
    /\ UNCHANGED <<conversation, generation, reservation, ledger, lease, job, process,
                   lapsed, overtaken>>

\* Variant: blockSafety returns without SetConversationGenerationState.
UnlockUnlessBlocked(q) ==
    /\ pc[q] = "unlocking"
    /\ conversation' = IF job[q].cause = "blocked" THEN conversation
                       ELSE [conversation EXCEPT ![ConversationOf[q]].state = "idle"]
    /\ Goto(q, "settling")
    /\ UNCHANGED <<generation, message, reservation, ledger, lease, job, process, history>>

\* SetConversationGenerationState "idle": it does not look which generation it ends.
UnlockConversation(q) ==
    LET c == ConversationOf[q] IN
    /\ pc[q] = "unlocking"
    /\ \/ /\ conversation' = IF conversation[c].deleted THEN conversation
                             ELSE [conversation EXCEPT ![c].state = "idle"]
          /\ UNCHANGED faulty
       \/ faulty' = faulty \cup {q} /\ UNCHANGED conversation
    /\ Goto(q, "settling")
    /\ UNCHANGED <<generation, message, reservation, ledger, lease, job, process,
                   lapsed, overtaken>>

CreateUsageLedgerEntry(q) == ledger \cup {q}

\* recordUsage and quota.Settle, whose deferred release gives the lease back.
SettleGeneration(q) ==
    /\ pc[q] = "settling"
    /\ \/ /\ ledger' = CreateUsageLedgerEntry(q)
          /\ reservation' = [reservation EXCEPT ![q] = "settled"]
          /\ UNCHANGED faulty
       \/ /\ ledger' \in {ledger, CreateUsageLedgerEntry(q)}
          /\ reservation' \in {reservation, [reservation EXCEPT ![q] = "settled"]}
          /\ faulty' = faulty \cup {q}
    /\ ReleaseLease(q)
    /\ lapsed' = lapsed \ {q}
    /\ Goto(q, "leaving")
    /\ UNCHANGED <<conversation, generation, message, job, process, overtaken>>

\* After the final event and the title, the deferred functions unregister q.
Unregister(q) ==
    /\ pc[q] = "leaving"
    /\ cancellations' = cancellations \ {q}
    /\ cancelled' = cancelled \ {q}
    /\ Return(q, "done")
    /\ UNCHANGED <<rows, lease, pendingCancel, commands, mode, history>>

-----------------------------------------------------------------------------
(* Cancels, deletions, migration, and what fails around the service *)

\* chat.cancel arrives at any replica: it is acknowledged if the generation is active.
AcknowledgeCancel(r, q) ==
    /\ mode[r] = "up"
    /\ ~conversation[ConversationOf[q]].deleted
    /\ generation[q].status \in Active
    /\ commands' = commands \cup {<<r, q>>}
    /\ UNCHANGED <<rows, lease, pc, job, cancellations, pendingCancel, cancelled, mode, history>>

\* cancel(id) then looks in the memory of that replica.
Cancel(r, q) ==
    /\ <<r, q>> \in commands
    /\ commands' = commands \ {<<r, q>>}
    /\ IF q \in cancellations /\ ReplicaOf[q] = r
       THEN cancelled' = cancelled \cup {q} /\ UNCHANGED pendingCancel
       ELSE pendingCancel' = [pendingCancel EXCEPT ![r] = @ \cup {q}] /\ UNCHANGED cancelled
    /\ UNCHANGED <<rows, lease, pc, job, cancellations, mode, history>>

\* SoftDeleteUserConversation, SoftDeleteGuestConversation
DeleteConversation(c) ==
    /\ conversation[c].state = "idle"
    /\ ~conversation[c].deleted
    /\ conversation' = [conversation EXCEPT ![c].deleted = TRUE]
    /\ UNCHANGED <<generation, message, reservation, ledger, lease, pc, job, process, history>>

\* migrateGuest, when the guest signs in: it does not wait for a running generation.
MigrateGuest ==
    /\ \E c \in Conversations : conversation[c].owner = Guest
    /\ conversation' = [c \in Conversations |-> [conversation[c] EXCEPT !.owner = User]]
    /\ UNCHANGED <<generation, message, reservation, ledger, lease, pc, job, process, history>>

\* The TTL of a lease runs out, or Redis loses it.
LeaseExpires(a) ==
    /\ lease[a] # NoRequest
    /\ lease' = [lease EXCEPT ![a] = NoRequest]
    /\ lapsed' = lapsed \cup ({lease[a]} \cap InFlight)
    /\ UNCHANGED <<rows, pc, job, process, faulty, overtaken>>

\* SIGTERM cancels the root context, from which every stream's context derives.
BeginShutdown(r) ==
    /\ mode[r] = "up"
    /\ mode' = [mode EXCEPT ![r] = "stopping"]
    /\ cancelled' = cancelled \cup {q \in cancellations : ReplicaOf[q] = r}
    /\ UNCHANGED <<rows, lease, pc, job, cancellations, pendingCancel, commands, history>>

\* The process ends, after a shutdown that joins no goroutine or in a crash.
Stop(r) ==
    LET lost == {q \in Requests : ReplicaOf[q] = r /\ pc[q] \notin {"idle", "rejected", "abandoned", "done"}}
    IN
    /\ mode[r] # "down"
    /\ mode' = [mode EXCEPT ![r] = "down"]
    /\ pc' = [q \in Requests |-> IF q \in lost THEN "crashed" ELSE pc[q]]
    /\ job' = [q \in Requests |-> IF q \in lost THEN NoJob ELSE job[q]]
    /\ cancellations' = {q \in cancellations : ReplicaOf[q] # r}
    /\ pendingCancel' = [pendingCancel EXCEPT ![r] = {}]
    /\ commands' = {rq \in commands : rq[1] # r}
    /\ cancelled' = cancelled \ lost
    /\ lapsed' = lapsed \ lost
    /\ UNCHANGED <<rows, lease, faulty, overtaken>>

-----------------------------------------------------------------------------

\* The steps a request takes once its client has sent it.
Proceed(q) ==
    \/ ReserveQuota(q)
    \/ BuildContext(q)
    \/ Accept(q)
    \/ RollBack(q)
    \/ Refund(q)
    \/ Acknowledge(q)
    \/ Register(q)
    \/ MarkStreaming(q)
    \/ Connect(q)
    \/ ReceiveChunk(q)
    \/ EndStream(q)
    \/ FinalizeGeneration(q)
    \/ FinalizeMessage(q)
    \/ UnlockConversation(q)
    \/ SettleGeneration(q)
    \/ Unregister(q)

Environment ==
    \/ \E r \in Replicas, q \in Requests : AcknowledgeCancel(r, q) \/ Cancel(r, q)
    \/ \E c \in Conversations : DeleteConversation(c)
    \/ MigrateGuest
    \/ \E a \in Actors : LeaseExpires(a)
    \/ \E r \in Replicas : BeginShutdown(r) \/ Stop(r)

Next ==
    \/ \E q \in Requests : Lookup(q) \/ Proceed(q)
    \/ Environment

Spec == Init /\ [][Next]_vars

\* A handler or goroutine that can take a step takes it: Go schedules every goroutine,
\* and the timeouts of the provider, of PostgreSQL and of Redis end every call.
FairSpec == Spec /\ \A q \in Requests : WF_vars(Proceed(q))

-----------------------------------------------------------------------------
(* Properties *)

\* A request still covered by its lease: it did not lapse, nor did its conversation
\* move to an actor with a lease of its own.
Covered(q) == q \notin lapsed /\ job[q].actor = conversation[ConversationOf[q]].owner

\* Two requests of one conversation are never past Reserve together, unless one of
\* them lost its lease or its guest signed in: nobody else changes the transcript
\* between buildContext and finalization.
OneAtATime ==
    \A q, r \in InFlight :
        q # r /\ ConversationOf[q] = ConversationOf[r] => ~Covered(q) \/ ~Covered(r)

\* As long as no request overtook another, a conversation that reads idle or is
\* deleted has no active generation: SetConversationGenerationState, which names no
\* generation, and the guard of the deletion are then safe.
StateHonest ==
    \A q \in Requests \ faulty :
        LET c == ConversationOf[q] IN
        generation[q].status \in Active /\ c \notin overtaken =>
            conversation[c].state # "idle" /\ ~conversation[c].deleted

\* What a finished request leaves behind agrees: generation and message end in
\* matching states, the recorded offset is the length of the retained content, the
\* usage is in the ledger and the reservation is settled; one that was refused
\* leaves no generation and nothing reserved.
Settled ==
    \A q \in Requests \ faulty :
        /\ pc[q] \in {"leaving", "done"} =>
              /\ <<generation[q].status, message[q].status>> \in
                    {<<"completed", "complete">>, <<"cancelled", "cancelled">>, <<"failed", "failed">>}
              /\ generation[q].offset = message[q].length
              /\ q \in ledger /\ reservation[q] = "settled"
        /\ pc[q] = "rejected" => generation[q].status = "none" /\ reservation[q] # "open"

\* A retry continues a generation of its own conversation that was accepted earlier
\* and ended cancelled or retryable, although it was looked up before Reserve.
RetryContinues ==
    \A q \in Retries : generation[q].status # "none" =>
        LET p == generation[q].parent IN
        /\ p \in GenerationsOf(ConversationOf[q])
        /\ Continuable(p)
        /\ generation[p].acceptedAt < generation[q].acceptedAt

\* The states of the generation follow docs/product-capabilities.md.
Lifecycle == INSTANCE GenerationLifecycle
             WITH phase <- [q \in Requests |-> generation[q].status]
ImplementsLifecycle == Lifecycle!Spec

\* A conversation that accepted a generation reads idle again, unless the process
\* died, the acknowledgement failed or a write was lost: only then is it stuck.
ConversationUnlocks ==
    \A c \in Conversations :
        conversation[c].state # "idle" ~>
            \/ conversation[c].state = "idle"
            \/ conversation[c].deleted
            \/ \E q \in GenerationsOf(c) : pc[q] \in {"crashed", "abandoned"} \/ q \in faulty

=============================================================================
