------------------------------ MODULE Summaries ------------------------------
(***************************************************************************)
(* The transcript of one conversation, the summaries of its older part and *)
(* the contexts built from both (internal/chat/service.go: buildContext,   *)
(* buildStoredContext, ensureSummary, and the statements of accept, Retry, *)
(* finish and fail that touch messages).  Chat has the other side of the   *)
(* same requests: quota, streaming, cancellation, recovery.                *)
(*                                                                         *)
(* A message is its sequence number, its index in messages.  A summary is  *)
(* the messages its transcript was made of, with the range it claims.      *)
(***************************************************************************)
EXTENDS Naturals, Sequences, FiniteSets

CONSTANTS
    Requests, NoRequest,
    MaxFaults       \* bound: leases that lapse, connections and processes that die

ASSUME RequestsAssumption == NoRequest \notin Requests /\ MaxFaults \in Nat

VARIABLES
    messages,       \* the messages rows by sequence: role and status
    generating,     \* the request whose generation is accepted or streaming
    lastEnd,        \* status of the latest generation that ended
    summaries,      \* conversation_summaries by version: from, through, transcript
    lease,          \* generation:<actor> in Redis
    summaryLock,    \* advisory lock conversation-summary:<id>
    turn,           \* turn[r]: where the handler or goroutine of r is and what it has read
    lapsed,         \* history: a request went on without its lease
    faults

vars == <<messages, generating, lastEnd, summaries, lease, summaryLock, turn, lapsed, faults>>

-----------------------------------------------------------------------------

Newest(s) == s[Len(s)]

\* ListContextMessages
ContextMessages ==
    {i \in DOMAIN messages : messages[i].role = "user" \/ messages[i].status = "complete"}

\* ThroughSequence of GetLatestSummary, 0 when there is none.
SummarizedThrough == IF summaries = <<>> THEN 0 ELSE Newest(summaries).through

NoTurn == [pc |-> "idle"]

Over == [pc |-> "done"]

\* The turn of r goes to another place; the other fields as they are.
Go(r, place) == turn' = [turn EXCEPT ![r] = IF place = "done" THEN Over ELSE [@ EXCEPT !.pc = place]]

\* The context is complete; what was read for its summary is not used again.
Built(r) == turn' = [turn EXCEPT ![r] = [@ EXCEPT !.pc = "built", !.covered = {}, !.through = 0,
                                                  !.from = 0, !.version = 0]]

\* pg_advisory_unlock, which does nothing when the lock is not r's any more.
Unlock(r) == summaryLock' = IF summaryLock = r THEN NoRequest ELSE summaryLock

\* ReleaseLease compares the token.
Release(r) == lease' = IF lease = r THEN NoRequest ELSE lease

-----------------------------------------------------------------------------
(* Admission *)

\* What accept and Retry look at before they reserve quota.
Arrive(r, kind) ==
    /\ turn[r] = NoTurn
    /\ kind = "retry" => lastEnd = "failed" /\ generating = NoRequest
    /\ turn' = [turn EXCEPT ![r] = [pc |-> "arrived", kind |-> kind, covered |-> {}, through |-> 0,
                                    from |-> 0, version |-> 0, message |-> 0, end |-> "none"]]
    /\ UNCHANGED <<messages, generating, lastEnd, summaries, lease, summaryLock, lapsed, faults>>

\* Reserve takes the lease of the actor, or refuses.
Reserve(r) ==
    /\ turn[r].pc = "arrived"
    /\ \/ lease = NoRequest /\ lease' = r /\ Go(r, "reserved")
       \/ lease # NoRequest /\ Go(r, "done") /\ UNCHANGED lease
    /\ UNCHANGED <<messages, generating, lastEnd, summaries, summaryLock, lapsed, faults>>

-----------------------------------------------------------------------------
(* Context *)

\* ListContextMessages and the budget: what does not fit, counted from the newest message
\* on, is a prefix of any length, as windows and system prompts differ and change.
ReadMessages(r) ==
    /\ turn[r].pc = "reserved"
    /\ \/ Go(r, "built")
       \/ \E last \in ContextMessages :
            turn' = [turn EXCEPT ![r].pc = "overflowed", ![r].through = last,
                                 ![r].covered = {i \in ContextMessages : i <= last}]
    /\ UNCHANGED <<messages, generating, lastEnd, summaries, lease, summaryLock, lapsed, faults>>

\* WithAdvisoryLock: pg_try_advisory_lock, else on without a summary; so too when there is
\* no connection, and when no summary model can be selected.
TryLock(r) ==
    /\ turn[r].pc = "overflowed"
    /\ \/ summaryLock = NoRequest /\ summaryLock' = r /\ Go(r, "locked")
       \/ Built(r) /\ UNCHANGED summaryLock
    /\ UNCHANGED <<messages, generating, lastEnd, summaries, lease, lapsed, faults>>

\* Variant: the next summary starts at the end of the latest.
ReadLatestTwice(r) ==
    /\ turn[r].pc = "locked"
    /\ turn' = [turn EXCEPT ![r].pc = "summarizing", ![r].version = Len(summaries) + 1,
                            ![r].from = SummarizedThrough]
    /\ UNCHANGED <<messages, generating, lastEnd, summaries, lease, summaryLock, lapsed, faults>>

\* GetLatestSummary: nothing to do, or the version and the range of the next one.
ReadLatest(r) ==
    /\ turn[r].pc = "locked"
    /\ IF SummarizedThrough >= turn[r].through
       THEN Built(r) /\ Unlock(r)
       ELSE /\ turn' = [turn EXCEPT ![r].pc = "summarizing", ![r].version = Len(summaries) + 1,
                                    ![r].from = SummarizedThrough + 1]
            /\ UNCHANGED summaryLock
    /\ UNCHANGED <<messages, generating, lastEnd, summaries, lease, lapsed, faults>>

Summary(r) ==
    LET t == turn[r] IN
    [from |-> t.from, through |-> t.through, transcript |-> {i \in t.covered : i >= t.from}]

\* Variant: a summary that lost its lock is still written, under a version of its own.
AppendSummary(r) == summaries' = Append(summaries, Summary(r))

\* CreateConversationSummary; (conversation_id, version) is unique, as is the range.
InsertSummary(r) ==
    /\ turn[r].version = Len(summaries) + 1
    /\ \A v \in DOMAIN summaries :
        <<summaries[v].from, summaries[v].through>> # <<Summary(r).from, Summary(r).through>>
    /\ summaries' = Append(summaries, Summary(r))

\* The stream of the summary ends, and its row is written or not; the error is ignored.
Summarize(r) ==
    /\ turn[r].pc = "summarizing"
    /\ InsertSummary(r) \/ UNCHANGED summaries
    /\ Built(r)
    /\ Unlock(r)
    /\ UNCHANGED <<messages, generating, lastEnd, lease, lapsed, faults>>

BuildContext(r) ==
    \/ ReadMessages(r)
    \/ TryLock(r)
    \/ ReadLatest(r)
    \/ Summarize(r)

-----------------------------------------------------------------------------
(* The generation *)

\* The row of a message; NextMessageSequence gives it MAX(sequence) + 1.
CreateMessage(role, status) == <<[role |-> role, status |-> status]>>

\* The transaction of accept and of Retry: the messages and the generation, of which
\* there is one active (generations_one_active_conversation_idx).
Accept(r) ==
    LET answer == CreateMessage("assistant", "pending")
        added == IF turn[r].kind = "retry" THEN answer
                 ELSE CreateMessage("user", "complete") \o answer
    IN
    /\ turn[r].pc = "built"
    /\ generating = NoRequest
    /\ messages' = messages \o added
    /\ generating' = r
    /\ turn' = [turn EXCEPT ![r].pc = "streaming", ![r].message = Len(messages) + Len(added)]
    /\ UNCHANGED <<lastEnd, summaries, lease, summaryLock, lapsed, faults>>

\* The transaction fails, a unique index refuses it: quota is given back.
Refuse(r) ==
    /\ turn[r].pc \in {"reserved", "built"}
    /\ Go(r, "done")
    /\ Release(r)
    /\ UNCHANGED <<messages, generating, lastEnd, summaries, summaryLock, lapsed, faults>>

\* FinalizeGeneration of finish, fail and blockSafety.
FinalizeGeneration(r, end) ==
    /\ turn[r].pc = "streaming"
    /\ generating' = IF generating = r THEN NoRequest ELSE generating
    /\ lastEnd' = end
    /\ turn' = [turn EXCEPT ![r].pc = "ended", ![r].end = end]
    /\ UNCHANGED <<messages, summaries, lease, summaryLock, lapsed, faults>>

\* FinalizeMessage, a statement of its own whose error is ignored.
FinalizeMessage(r) ==
    /\ turn[r].pc = "ended"
    /\ \/ messages' = [messages EXCEPT ![turn[r].message].status =
                            IF turn[r].end = "completed" THEN "complete" ELSE "failed"]
       \/ UNCHANGED messages
    /\ Go(r, "settling")
    /\ UNCHANGED <<generating, lastEnd, summaries, lease, summaryLock, lapsed, faults>>

\* Variant: the lease is given back before the message is finalized.
SettleEarly(r) ==
    /\ turn[r].pc \in {"ended", "settling"}
    /\ Release(r)
    /\ IF turn[r].pc = "ended" THEN UNCHANGED turn ELSE Go(r, "done")
    /\ UNCHANGED <<messages, generating, lastEnd, summaries, summaryLock, lapsed, faults>>

\* Settle: the lease is free for the next message.
Settle(r) ==
    /\ turn[r].pc = "settling"
    /\ Release(r)
    /\ Go(r, "done")
    /\ UNCHANGED <<messages, generating, lastEnd, summaries, summaryLock, lapsed, faults>>

-----------------------------------------------------------------------------
(* Faults *)

Fault == faults < MaxFaults /\ faults' = faults + 1

\* The lease outlives its TTL, or the guest signs in and has another as a user.
LeaseLapses ==
    /\ Fault
    /\ lease # NoRequest
    /\ lease' = NoRequest
    /\ lapsed' = (lapsed \/ turn[lease].pc # "done")
    /\ UNCHANGED <<messages, generating, lastEnd, summaries, summaryLock, turn>>

\* The connection that keeps the advisory lock breaks during the stream of a summary.
LockLost ==
    /\ Fault
    /\ summaryLock # NoRequest
    /\ summaryLock' = NoRequest
    /\ UNCHANGED <<messages, generating, lastEnd, summaries, lease, turn, lapsed>>

\* The process of r dies: its generation stays active, its lease until the TTL.
Crash(r) ==
    /\ Fault
    /\ turn[r].pc \notin {"idle", "done"}
    /\ Go(r, "done")
    /\ Unlock(r)
    /\ UNCHANGED <<messages, generating, lastEnd, summaries, lease, lapsed>>

-----------------------------------------------------------------------------

Init ==
    /\ messages = <<>>
    /\ generating = NoRequest
    /\ lastEnd = "none"
    /\ summaries = <<>>
    /\ lease = NoRequest
    /\ summaryLock = NoRequest
    /\ turn = [r \in Requests |-> NoTurn]
    /\ lapsed = FALSE
    /\ faults = 0

Next ==
    \/ \E r \in Requests :
        \/ \E kind \in {"message", "retry"} : Arrive(r, kind)
        \/ Reserve(r)
        \/ BuildContext(r)
        \/ Accept(r) \/ Refuse(r)
        \/ \E end \in {"completed", "failed"} : FinalizeGeneration(r, end)
        \/ FinalizeMessage(r) \/ Settle(r)
        \/ Crash(r)
    \/ LeaseLapses
    \/ LockLost

Spec == Init /\ [][Next]_vars

-----------------------------------------------------------------------------
(* Properties *)

Places == {"arrived", "reserved", "overflowed", "locked", "summarizing", "built", "streaming",
           "ended", "settling"}

(* Types: a message, a summary and a turn are records of the rows and local  *)
(* variables of internal/chat/service.go.                                    *)
TypeOK ==
    /\ messages \in Seq([role : {"user", "assistant"},
                         status : {"pending", "complete", "failed"}])
    /\ {generating, lease, summaryLock} \subseteq Requests \cup {NoRequest}
    /\ lastEnd \in {"none", "completed", "failed"}
    /\ summaries \in Seq([from : Nat \ {0}, through : Nat \ {0},
                          transcript : SUBSET DOMAIN messages])
    /\ \A r \in Requests : turn[r] \in {NoTurn, Over} \/
          turn[r] \in [pc : Places, kind : {"message", "retry"}, covered : SUBSET DOMAIN messages,
                       through : Nat, from : Nat, version : Nat, message : Nat,
                       end : {"none", "completed", "failed"}]
    /\ lapsed \in BOOLEAN /\ faults \in 0..MaxFaults

(* The ranges of successive versions join without gap or overlap, although   *)
(* several requests summarize and the advisory lock can be lost under one of *)
(* them: ensureSummary, and the unique version of CreateConversationSummary. *)
Contiguous ==
    \A v \in DOMAIN summaries :
        /\ summaries[v].from = (IF v = 1 THEN 1 ELSE summaries[v - 1].through + 1)
        /\ summaries[v].from <= summaries[v].through

(* Whatever a context needs and is as old as the latest summary went into    *)
(* one: no message becomes complete behind the summaries, where no later     *)
(* summary looks.  It takes that FinalizeMessage precedes the release of the *)
(* lease, so only a request that went on without its lease can break it.     *)
NothingLeftBehind ==
    ~lapsed =>
        \A i \in ContextMessages :
            i <= SummarizedThrough => \E v \in DOMAIN summaries : i \in summaries[v].transcript

(* Summaries cover a contiguous range of the prior messages, and all of it   *)
(* (docs/api-glossary.md on conversation summaries).                         *)
SummariesFaithful == Contiguous /\ NothingLeftBehind

=============================================================================
