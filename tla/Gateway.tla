------------------------------- MODULE Gateway -------------------------------
(***************************************************************************)
(* The resilient gateway in front of an OpenAI-compatible provider         *)
(* (internal/provider/resilient.go, openai.go, domain.go): a channel of    *)
(* slots bounds the streams, a circuit breaker under a mutex counts        *)
(* failures and keeps calls away from a provider that fails.               *)
(*                                                                         *)
(* A caller is a goroutine of the chat service: it asks for a stream,      *)
(* reads it to an error or the end, and closes it.  A probe asks for the   *)
(* catalogue (Health is the same call).  Each action runs up to the next   *)
(* lock, channel operation or answer of the provider.                      *)
(***************************************************************************)
EXTENDS Naturals, FiniteSets

CONSTANTS
    Callers, Probes,
    MaxConcurrent, FailureLimit, PreStreamRetry   \* ResilienceOptions

ASSUME OptionsAssumption ==
    /\ {MaxConcurrent, FailureLimit} \subseteq Nat \ {0} /\ PreStreamRetry \in Nat
    /\ IsFiniteSet(Callers) /\ IsFiniteSet(Probes) /\ Callers \cap Probes = {}

VARIABLES
    slots,      \* tokens in the channel
    failures,
    circuit,    \* openUntil: "closed" (zero), "open", "lapsed" (in the past)
    call,       \* call[c]: where caller c is
    attempt,    \* attempt[c]: the loop variable of Stream
    result,     \* result[c]: the error c has yet to report to observe
    holds,      \* callers whose once has not run: their stream keeps a slot
    probing     \* probes that wait for the provider

vars == <<slots, failures, circuit, call, attempt, result, holds, probing>>

-----------------------------------------------------------------------------
(* Errors *)

\* Classes of HTTP status that responseError tells apart.
StatusErrors == {"invalid request", "unauthorized", "rate limited", "timeout status",
                 "server error", "other status"}

\* responseError
StatusRetryable(error) == error \in {"rate limited", "timeout status", "server error"}

\* Errors of the client, the body and the context; "malformed" is what openai.go cannot read.
TransportErrors == {"deadline", "canceled", "unexpected EOF", "connection", "malformed"}

\* Normalize
TransportRetryable(error) == error \notin {"canceled", "malformed"}

\* What observe and Stream ask of an error.
Retryable(error) ==
    IF error \in StatusErrors THEN StatusRetryable(error) ELSE TransportRetryable(error)

Classes(errors) == {IF Retryable(e) THEN "retryable" ELSE "final" : e \in errors}

\* OpenAICompatible.Stream connects, or fails before the first byte of the stream.
StreamAnswers == {"connected"} \cup Classes(StatusErrors \cup TransportErrors)

\* OpenAICompatible.Catalog
CatalogAnswers == {"connected"} \cup Classes(StatusErrors \cup TransportErrors)

\* openAIStream.Next returns io.EOF at [DONE], or what scanLine or the decoder fails with.
StreamEnds == {"eof"} \cup Classes(TransportErrors)

-----------------------------------------------------------------------------

Places == {"idle", "waiting", "calling", "failed", "streaming", "ending", "ended"}

TypeOK ==
    /\ slots \in 0..MaxConcurrent
    /\ failures \in 0..(FailureLimit + Cardinality(Callers \cup Probes) - 1)
    /\ circuit \in {"closed", "open", "lapsed"}
    /\ call \in [Callers -> Places]
    /\ attempt \in [Callers -> 0..PreStreamRetry]
    /\ result \in [Callers -> {"none", "retryable", "final", "eof"}]
    /\ holds \in SUBSET Callers
    /\ probing \in SUBSET Probes

Init ==
    /\ slots = 0 /\ failures = 0 /\ circuit = "closed"
    /\ call = [c \in Callers |-> "idle"]
    /\ attempt = [c \in Callers |-> 0]
    /\ result = [c \in Callers |-> "none"]
    /\ holds = {} /\ probing = {}

-----------------------------------------------------------------------------
(* The circuit, under the mutex *)

\* Variant: failures are counted on after openUntil.
PassCounting ==
    /\ circuit # "open"
    /\ circuit' = "closed"
    /\ UNCHANGED failures

\* isOpen answers no; after openUntil it starts afresh.
PassCircuit ==
    /\ circuit # "open"
    /\ circuit' = "closed"
    /\ failures' = IF circuit = "lapsed" THEN 0 ELSE failures

\* Variant: a success forgets the failures, and leaves openUntil to isOpen.
ObserveForgetful(outcome) ==
    IF outcome \in {"connected", "eof"} THEN failures' = 0 /\ UNCHANGED circuit
    ELSE IF outcome = "final" THEN UNCHANGED <<failures, circuit>>
    ELSE /\ failures' = failures + 1
         /\ circuit' = IF failures' >= FailureLimit THEN "open" ELSE circuit

\* observe
Observe(outcome) ==
    IF outcome \in {"connected", "eof"} THEN failures' = 0 /\ circuit' = "closed"
    ELSE IF outcome = "final" THEN UNCHANGED <<failures, circuit>>
    ELSE /\ failures' = failures + 1
         /\ circuit' = IF failures' >= FailureLimit THEN "open" ELSE circuit

\* openUntil passes.
CircuitLapses ==
    /\ circuit = "open"
    /\ circuit' = "lapsed"
    /\ UNCHANGED <<slots, failures, call, attempt, result, holds, probing>>

-----------------------------------------------------------------------------
(* Stream *)

Goto(c, place) == call' = [call EXCEPT ![c] = place]

\* The caller passes isOpen; else it returns ErrCircuitOpen, and nothing has changed.
Look(c) ==
    /\ call[c] = "idle"
    /\ PassCircuit
    /\ Goto(c, "waiting")
    /\ UNCHANGED <<slots, attempt, result, holds, probing>>

\* slots <- struct{}{}
Acquire(c) ==
    /\ call[c] = "waiting"
    /\ slots < MaxConcurrent
    /\ slots' = slots + 1
    /\ Goto(c, "calling")
    /\ UNCHANGED <<failures, circuit, attempt, result, holds, probing>>

\* The context of the caller ends while it waits.
GiveUp(c) ==
    /\ call[c] = "waiting"
    /\ Goto(c, "idle")
    /\ UNCHANGED <<slots, failures, circuit, attempt, result, holds, probing>>

\* A retryable failure before the stream is tried once more.
Retry(c) ==
    /\ call[c] = "calling"
    /\ "retryable" \in StreamAnswers
    /\ attempt[c] < PreStreamRetry
    /\ attempt' = [attempt EXCEPT ![c] = @ + 1]
    /\ UNCHANGED <<slots, failures, circuit, call, result, holds, probing>>

\* Variant: a caller whose request fails keeps its slot.
FailHolding(c) ==
    /\ call[c] = "calling"
    /\ \E answer \in StreamAnswers \ {"connected"} :
        /\ answer = "final" \/ attempt[c] = PreStreamRetry
        /\ result' = [result EXCEPT ![c] = answer]
    /\ attempt' = [attempt EXCEPT ![c] = 0]
    /\ Goto(c, "failed")
    /\ UNCHANGED <<slots, failures, circuit, holds, probing>>

\* The last failure gives the slot back; then it is observed.
Fail(c) ==
    /\ call[c] = "calling"
    /\ \E answer \in StreamAnswers \ {"connected"} :
        /\ answer = "final" \/ attempt[c] = PreStreamRetry
        /\ result' = [result EXCEPT ![c] = answer]
    /\ attempt' = [attempt EXCEPT ![c] = 0]
    /\ slots' = slots - 1
    /\ Goto(c, "failed")
    /\ UNCHANGED <<failures, circuit, holds, probing>>

ReportFailure(c) ==
    /\ call[c] = "failed"
    /\ Observe(result[c])
    /\ result' = [result EXCEPT ![c] = "none"]
    /\ Goto(c, "idle")
    /\ UNCHANGED <<slots, attempt, holds, probing>>

\* The stream is connected, which is observed as a success.
Connect(c) ==
    /\ call[c] = "calling"
    /\ Observe("connected")
    /\ attempt' = [attempt EXCEPT ![c] = 0]
    /\ holds' = holds \cup {c}
    /\ Goto(c, "streaming")
    /\ UNCHANGED <<slots, result, probing>>

-----------------------------------------------------------------------------
(* resilientStream *)

\* Next ends the stream: its error is observed before the slot goes.
NextEnds(c) ==
    /\ call[c] = "streaming"
    /\ \E end \in StreamEnds :
        /\ Observe(end)
        /\ result' = [result EXCEPT ![c] = end]
    /\ Goto(c, "ending")
    /\ UNCHANGED <<slots, attempt, holds, probing>>

\* Variant: release without the once.
ReleaseTwice(c) ==
    /\ call[c] \in {"streaming", "ending", "ended"}
    /\ slots > 0
    /\ slots' = slots - 1
    /\ holds' = holds \ {c}
    /\ result' = [result EXCEPT ![c] = "none"]
    /\ Goto(c, IF call[c] = "ending" THEN "ended" ELSE "idle")
    /\ UNCHANGED <<failures, circuit, attempt, probing>>

\* once.Do(release), in Next after an error and in Close, which the caller defers; a
\* caller that stops early, for a blocked text or a failed append, only closes.
ReleaseOnce(c) ==
    /\ call[c] \in {"streaming", "ending", "ended"}
    /\ slots' = IF c \in holds THEN slots - 1 ELSE slots
    /\ holds' = holds \ {c}
    /\ result' = [result EXCEPT ![c] = "none"]
    /\ Goto(c, IF call[c] = "ending" THEN "ended" ELSE "idle")
    /\ UNCHANGED <<failures, circuit, attempt, probing>>

-----------------------------------------------------------------------------
(* Catalog and Health: the circuit, but no slot *)

Probe(p) ==
    /\ p \notin probing
    /\ PassCircuit
    /\ probing' = probing \cup {p}
    /\ UNCHANGED <<slots, call, attempt, result, holds>>

ProbeAnswered(p) ==
    /\ p \in probing
    /\ \E answer \in CatalogAnswers : Observe(answer)
    /\ probing' = probing \ {p}
    /\ UNCHANGED <<slots, call, attempt, result, holds>>

-----------------------------------------------------------------------------

Step(c) ==
    \/ Look(c) \/ Acquire(c) \/ GiveUp(c)
    \/ Retry(c) \/ Fail(c) \/ ReportFailure(c) \/ Connect(c)
    \/ NextEnds(c) \/ ReleaseOnce(c)

Next ==
    \/ \E c \in Callers : Step(c)
    \/ \E p \in Probes : Probe(p) \/ ProbeAnswered(p)
    \/ CircuitLapses

\* The provider answers or the 90 seconds of a request end it, streams too; a channel
\* serves those who wait for it in turn.
Fairness ==
    \A c \in Callers :
        /\ SF_vars(Acquire(c))
        /\ WF_vars(Fail(c) \/ Connect(c))
        /\ WF_vars(ReportFailure(c))
        /\ WF_vars(NextEnds(c) \/ ReleaseOnce(c))
        /\ WF_vars(call[c] \in {"ending", "ended"} /\ ReleaseOnce(c))

Spec == Init /\ [][Next]_vars /\ Fairness

-----------------------------------------------------------------------------
(* Properties *)

(* The channel holds one token for each caller between its send and its      *)
(* release, in whatever order Next fails, Close runs and Stream gives up: a  *)
(* stream that is left early loses no slot, one that ends and is closed      *)
(* gives back one.  Stream, resilientStream.Next and Close.                  *)
SlotsAreHeld ==
    slots = Cardinality({c \in Callers : call[c] = "calling"} \cup holds)

(* The count of failures and openUntil, both written by isOpen and observe,  *)
(* never disagree, in whatever order the answers of old streams come in      *)
(* while the circuit opens, lapses and closes again: a success that closes   *)
(* it zeroes the count, callers pass a lapsed one only with a fresh count,   *)
(* and no late failure leaves one that is closed at its limit, where calls   *)
(* would go on to a provider that fails.  isOpen and observe.                *)
CircuitMatchesCount ==
    circuit = "closed" <=> failures < FailureLimit

(* A caller that waits for a slot is served, for streams end and give their  *)
(* slots back on every path.                                                 *)
EventuallyServed ==
    \A c \in Callers : call[c] = "waiting" ~> call[c] # "waiting"

=============================================================================
