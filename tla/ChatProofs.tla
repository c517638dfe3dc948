------------------------------ MODULE ChatProofs ------------------------------
(***************************************************************************)
(* Proofs about Chat, for any number of conversations, requests, replicas  *)
(* and chunks: the types, one covered request of a conversation at a time, *)
(* an honest conversation state, what a finished request leaves behind,    *)
(* what a retry continues, and the lifecycle of GenerationLifecycle.       *)
(***************************************************************************)
EXTENDS Chat, TLAPS, FiniteSetTheorems, FunctionTheorems

ConversationRecord == [owner : Actors, deleted : BOOLEAN,
                       state : {"idle", "accepted", "streaming"}]
GenerationRecord == [status : {"none"} \cup Active \cup Terminal,
                     retryable : BOOLEAN, offset : 0..MaxChunks,
                     parent : Requests \cup {NoRequest}, acceptedAt : Nat]
MessageRecord == [status : {"none", "pending", "complete", "cancelled", "failed"},
                  length : 0..MaxChunks]
JobRecord == [actor : Actors, previous : Requests \cup {NoRequest}, now : Nat,
              content : 0..MaxChunks, outcome : {"none"} \cup Terminal, cause : Causes]

Unaccepted == {"idle", "checked", "reserved", "stamped"}
Unstreamed == Unaccepted \cup {"accepted", "starting", "marking", "connecting"}
Running == {"accepted", "starting", "marking", "connecting", "streaming"}

\* What FinalizeMessage makes of an outcome.
MessageStatus(outcome) == IF outcome = "completed" THEN "complete" ELSE outcome

\* How far a request is tells what its rows and its local variables hold: the columns
\* are written by its own handler or goroutine only, in the order of its phases.
Progress(q) ==
    /\ pc[q] \in Unaccepted => generation[q].status = "none" /\ message[q].length = 0
    /\ pc[q] \in {"idle", "checked"} => reservation[q] # "open"
    /\ pc[q] \in Unstreamed => job[q].content = 0
    /\ pc[q] \in {"accepted", "starting", "marking"} => generation[q].status = "accepted"
    /\ pc[q] \in {"connecting", "streaming"} => generation[q].status = "streaming"
    /\ pc[q] \in Running => message[q].status = "pending" /\ message[q].length = job[q].content
    /\ pc[q] = "finalizing" =>
          /\ generation[q].status \in Active
          /\ job[q].outcome \in {"completed", "cancelled"} => generation[q].status = "streaming"
          /\ message[q].status = "pending" /\ FinalOffset(q) = message[q].length
    /\ pc[q] = "closing" => message[q].status = "pending"
    /\ pc[q] \in {"finalizing", "closing", "unlocking", "settling", "leaving"} =>
          job[q].outcome \in Terminal /\ generation[q].status # "none"
    /\ pc[q] \in {"closing", "unlocking", "settling", "leaving"} /\ q \notin faulty =>
          generation[q].status = job[q].outcome /\ generation[q].offset = message[q].length
    /\ pc[q] \in {"unlocking", "settling", "leaving"} /\ q \notin faulty =>
          message[q].status = MessageStatus(job[q].outcome)
    /\ pc[q] \in {"refunding", "rejected"} /\ q \notin faulty => generation[q].status = "none"
    /\ pc[q] = "rejected" /\ q \notin faulty => reservation[q] # "open"
    /\ pc[q] \in {"leaving", "done"} /\ q \notin faulty =>
          q \in ledger /\ reservation[q] = "settled"
    /\ pc[q] = "done" /\ q \notin faulty =>
          /\ \E outcome \in Terminal :
                generation[q].status = outcome /\ message[q].status = MessageStatus(outcome)
          /\ generation[q].offset = message[q].length

\* A request that has its lease is the one that Redis names as its holder.
LeaseHeld == \A q \in InFlight \ lapsed : lease[job[q].actor] = q

\* Beside an active generation no accepted request of the conversation is in flight,
\* unless one overtook another.
Alone == \A q, r \in Requests :
    /\ q # r /\ ConversationOf[q] = ConversationOf[r] /\ ConversationOf[q] \notin overtaken
    /\ generation[q].status \in Active
    => pc[r] \notin InFlightPhases \/ generation[r].status = "none"

\* p is a generation that q may continue.
MayContinue(q, p) == p \in GenerationsOf(ConversationOf[q]) /\ Continuable(p)

\* The generation that a retry found can still be continued when it accepts its own.
RetryKept == \A q \in Retries :
    /\ pc[q] \in {"checked", "reserved", "stamped"} => MayContinue(q, job[q].previous)
    /\ pc[q] = "stamped" => generation[job[q].previous].acceptedAt < job[q].now

AllProgress == \A q \in Requests : Progress(q)

IInv ==
    /\ TypeOK /\ AllProgress
    /\ LeaseHeld
    /\ Alone /\ StateHonest
    /\ RetryKept /\ RetryContinues

-----------------------------------------------------------------------------
(* The clock *)

\* A finite set of times that is not empty has a last one.
LEMMA LastExists ==
    ASSUME NEW S \in SUBSET Nat, IsFiniteSet(S), S # {}
    PROVE  \E m \in S : \A n \in S : n <= m
  <1> DEFINE Last(T) == \E m \in T : \A n \in T : n <= m
             Without == {T \in FiniteSubsetsOf(Nat) : T # {} /\ ~Last(T)}
  <1> SUFFICES ASSUME ~Last(S) PROVE FALSE
    OBVIOUS
  <1>1. S \in Without
    BY DEF FiniteSubsetsOf
  <1>2. PICK T \in Without : \A U \in Without : <<U, T>> \notin StrictSubsetOrdering(Nat)
    <2>1. IsWellFoundedOn(StrictSubsetOrdering(Nat), FiniteSubsetsOf(Nat))
      BY FS_StrictSubsetOrderingWellFounded
    <2>2. Without \subseteq FiniteSubsetsOf(Nat) /\ Without # {}
      BY <1>1
    <2> HIDE DEF Without
    <2> QED
      BY <2>1, <2>2, WFMin
  <1>3. T \subseteq Nat /\ IsFiniteSet(T) /\ T # {} /\ ~Last(T)
    BY DEF FiniteSubsetsOf
  <1>4. PICK t \in T : TRUE
    BY <1>3
  <1> DEFINE U == T \ {t}
  <1>5. U \in FiniteSubsetsOf(Nat)
    BY <1>3, FS_RemoveElement DEF FiniteSubsetsOf
  <1>6. <<U, T>> \in StrictSubsetOrdering(Nat)
    BY <1>3, <1>4 DEF StrictSubsetOrdering
  <1>7. U = {} \/ Last(U)
    BY <1>2, <1>5, <1>6
  <1>8. CASE U = {}
    BY <1>3, <1>4, <1>8
  <1>9. CASE Last(U)
    <2>1. PICK m \in U : \A n \in U : n <= m
      BY <1>9
    <2>2. m \in Nat /\ t \in Nat /\ \A n \in T : n \in Nat
      BY <1>3
    <2>3. CASE t <= m
      BY <2>1, <2>3, <1>3
    <2>4. CASE m < t
      BY <2>1, <2>2, <2>4, <1>3
    <2> QED
      BY <2>2, <2>3, <2>4
  <1> QED
    BY <1>7, <1>8, <1>9

LEMMA ImageFinite ==
    ASSUME NEW f \in [Requests -> Nat]
    PROVE  IsFiniteSet({f[q] : q \in Requests})
  <1>1. f \in Surjection(Requests, {f[q] : q \in Requests})
    BY Fun_IsSurj
  <1> QED
    BY <1>1, FS_Surjection, RequestAssumption

\* Clock is later than every time that is known.
LEMMA ClockLater ==
    ASSUME TypeOK, NEW r \in Requests
    PROVE  /\ Clock \in Nat
           /\ \A q \in Requests : generation[q].acceptedAt < Clock /\ job[q].now < Clock
  <1> DEFINE accepted == [q \in Requests |-> generation[q].acceptedAt]
             read == [q \in Requests |-> job[q].now]
             times == {accepted[q] : q \in Requests} \cup {read[q] : q \in Requests}
  <1>1. accepted \in [Requests -> Nat] /\ read \in [Requests -> Nat]
    BY DEF TypeOK
  <1>2. IsFiniteSet(times)
    BY <1>1, ImageFinite, FS_Union
  <1>3. times \in SUBSET Nat /\ accepted[r] \in times
    BY <1>1
  <1>4. Clock = 1 + Max(times)
    <2>1. times = {generation[q].acceptedAt : q \in Requests} \cup {job[q].now : q \in Requests}
      OBVIOUS
    <2> HIDE DEF times
    <2> QED
      BY <2>1 DEF Clock
  <1>5. \A q \in Requests : generation[q].acceptedAt \in times /\ job[q].now \in times
    OBVIOUS
  <1> HIDE DEF times, accepted, read
  <1>6. Max(times) \in times /\ \A t \in times : t <= Max(times)
    <2>1. \E m \in times : \A n \in times : n <= m
      BY <1>2, <1>3, LastExists
    <2>2. \E m \in times : \A n \in times : m >= n
      BY <2>1, <1>3
    <2>3. Max(times) \in times /\ \A n \in times : Max(times) >= n
      BY <2>2 DEF Max
    <2> QED
      BY <2>3, <1>3
  <1>7. Max(times) \in Nat
    BY <1>3, <1>6
  <1>8. \A q \in Requests : generation[q].acceptedAt \in Nat /\ job[q].now \in Nat
    BY DEF TypeOK
  <1>9. \A q \in Requests : generation[q].acceptedAt <= Max(times) /\ job[q].now <= Max(times)
    BY <1>5, <1>6
  <1>10. Clock \in Nat /\ \A t \in Nat : t <= Max(times) => t < Clock
    BY <1>4, <1>7
  <1> QED
    BY <1>8, <1>9, <1>10

-----------------------------------------------------------------------------
(* Types and progress *)

\* The parts of TypeOK: what the steps of requests write, and the rest.
RequestTypes ==
    /\ generation \in [Requests -> GenerationRecord]
    /\ message \in [Requests -> MessageRecord]
    /\ reservation \in [Requests -> {"none", "open", "settled"}]
    /\ ledger \in SUBSET Requests
    /\ pc \in [Requests -> Phases]
    /\ job \in [Requests -> JobRecord]
    /\ faulty \in SUBSET Requests

SharedTypes ==
    /\ conversation \in [Conversations -> ConversationRecord]
    /\ lease \in [Actors -> Requests \cup {NoRequest}]
    /\ cancellations \in SUBSET Requests
    /\ pendingCancel \in [Replicas -> SUBSET Requests]
    /\ cancelled \in SUBSET Requests
    /\ commands \in SUBSET (Replicas \X Requests)
    /\ mode \in [Replicas -> {"up", "stopping", "down"}]
    /\ lapsed \in SUBSET Requests
    /\ overtaken \in SUBSET Conversations

LEMMA TypesFold == TypeOK <=> RequestTypes /\ SharedTypes
  BY DEF TypeOK, RequestTypes, SharedTypes, ConversationRecord, GenerationRecord,
         MessageRecord, JobRecord

\* A step of q touches nothing of another request.
Others(q) == \A r \in Requests \ {q} :
    /\ pc'[r] = pc[r] /\ job'[r] = job[r]
    /\ generation'[r] = generation[r] /\ message'[r] = message[r]
    /\ reservation'[r] = reservation[r]
    /\ (r \in ledger') = (r \in ledger) /\ (r \in faulty') = (r \in faulty)

Own(q) == RequestTypes' /\ Others(q) /\ Progress(q)'

\* The shape of every step of a request: its rows and its variables get new values.
LEMMA OwnShape ==
    ASSUME RequestTypes, NEW q \in Requests,
           NEW p \in Phases, NEW j \in JobRecord, NEW g \in GenerationRecord,
           NEW m \in MessageRecord, NEW s \in {"none", "open", "settled"},
           pc' = [pc EXCEPT ![q] = p], job' = [job EXCEPT ![q] = j],
           generation' = [generation EXCEPT ![q] = g], message' = [message EXCEPT ![q] = m],
           reservation' = [reservation EXCEPT ![q] = s],
           ledger' \in {ledger, ledger \cup {q}}, faulty' \in {faulty, faulty \cup {q}}
    PROVE  /\ RequestTypes' /\ Others(q)
           /\ pc'[q] = p /\ job'[q] = j /\ generation'[q] = g /\ message'[q] = m
           /\ reservation'[q] = s
  BY DEF RequestTypes, Others

\* What q has is a row or a record of its type, and keeping it is a new value too.
LEMMA OwnKept ==
    ASSUME RequestTypes, NEW q \in Requests
    PROVE  /\ pc[q] \in Phases /\ job[q] \in JobRecord /\ generation[q] \in GenerationRecord
           /\ message[q] \in MessageRecord /\ reservation[q] \in {"none", "open", "settled"}
           /\ pc = [pc EXCEPT ![q] = pc[q]] /\ job = [job EXCEPT ![q] = job[q]]
           /\ generation = [generation EXCEPT ![q] = generation[q]]
           /\ message = [message EXCEPT ![q] = message[q]]
           /\ reservation = [reservation EXCEPT ![q] = reservation[q]]
  BY DEF RequestTypes

\* Steps that change the phase of q alone.
LEMMA GotoShape ==
    ASSUME RequestTypes, NEW q \in Requests, NEW p \in Phases, Goto(q, p),
           UNCHANGED <<job, generation, message, reservation, ledger, faulty>>
    PROVE  /\ RequestTypes' /\ Others(q) /\ pc'[q] = p
  BY DEF Goto, RequestTypes, Others

\* ... its local variables too.
LEMMA JobShape ==
    ASSUME RequestTypes, NEW q \in Requests, NEW p \in Phases, Goto(q, p),
           NEW j \in JobRecord, job' = [job EXCEPT ![q] = j],
           UNCHANGED <<generation, message, reservation, ledger, faulty>>
    PROVE  /\ RequestTypes' /\ Others(q) /\ pc'[q] = p /\ job'[q] = j
  BY DEF Goto, RequestTypes, Others

LEMMA NoJobTyped == NoJob \in JobRecord
  BY ChunkAssumption DEF NoJob, JobRecord, Actors, Causes

LEMMA LookupOwn ==
    ASSUME TypeOK, AllProgress, NEW q \in Requests, Lookup(q)
    PROVE  Own(q)
  <1> DEFINE c == ConversationOf[q]
  <1>1. RequestTypes /\ SharedTypes /\ Progress(q) /\ pc[q] = "idle"
    BY TypesFold DEF AllProgress, Lookup
  <1>2. UNCHANGED <<generation, message, reservation, ledger, faulty>>
    BY DEF Lookup, rows, history
  <1>3. CASE Goto(q, "rejected") /\ UNCHANGED job
    <2>1. RequestTypes' /\ Others(q) /\ pc'[q] = "rejected"
      BY <1>1, <1>2, <1>3, GotoShape DEF Phases
    <2> QED
      BY <1>1, <1>2, <1>3, <2>1 DEF Own, Progress, Unaccepted, Unstreamed, Running
  <1>4. ASSUME NEW p \in (IF q \in Retries THEN {r \in LatestOf(c) : Continuable(r)} ELSE {NoRequest}),
               job' = [job EXCEPT ![q].actor = conversation[c].owner, ![q].previous = p],
               Goto(q, "checked")
        PROVE  Own(q)
    <2> DEFINE j == [job[q] EXCEPT !.actor = conversation[c].owner, !.previous = p]
    <2>1. p \in Requests \cup {NoRequest}
      BY DEF LatestOf, GenerationsOf
    <2>2. conversation[c].owner \in Actors
      BY <1>1, RequestAssumption DEF SharedTypes, ConversationRecord
    <2>3. j \in JobRecord /\ j.content = job[q].content
      BY <1>1, <2>1, <2>2, OwnKept DEF JobRecord
    <2>4. job' = [job EXCEPT ![q] = j]
      BY <1>4
    <2> HIDE DEF j
    <2>5. RequestTypes' /\ Others(q) /\ pc'[q] = "checked" /\ job'[q] = j
      BY <1>1, <1>2, <1>4, <2>3, <2>4, JobShape DEF Phases
    <2> QED
      BY <1>1, <1>2, <2>3, <2>5 DEF Own, Progress, Unaccepted, Unstreamed, Running
  <1> QED
    BY <1>3, <1>4 DEF Lookup

LEMMA ReserveQuotaOwn ==
    ASSUME TypeOK, AllProgress, NEW q \in Requests, ReserveQuota(q)
    PROVE  Own(q)
  <1>1. RequestTypes /\ Progress(q) /\ pc[q] = "checked"
    BY TypesFold DEF AllProgress, ReserveQuota
  <1>2. UNCHANGED <<generation, message, ledger, faulty>>
    BY DEF ReserveQuota, history
  <1>3. CASE reservation' = [reservation EXCEPT ![q] = "open"] /\ Goto(q, "reserved") /\ UNCHANGED job
    <2>1. /\ RequestTypes' /\ Others(q) /\ pc'[q] = "reserved"
      BY <1>1, <1>2, <1>3 DEF Goto, RequestTypes, Others, Phases, InFlightPhases
    <2> QED
      BY <1>1, <1>2, <1>3, <2>1 DEF Own, Progress, Unaccepted, Unstreamed, Running
  <1>4. CASE Return(q, "rejected") /\ UNCHANGED reservation
    <2>1. RequestTypes' /\ Others(q) /\ pc'[q] = "rejected"
      BY <1>1, <1>2, <1>4, NoJobTyped, JobShape DEF Return, Phases
    <2> QED
      BY <1>1, <1>2, <1>4, <2>1 DEF Own, Progress, Unaccepted, Unstreamed, Running
  <1> QED
    BY <1>3, <1>4 DEF ReserveQuota

LEMMA BuildContextOwn ==
    ASSUME TypeOK, AllProgress, NEW q \in Requests, BuildContext(q)
    PROVE  Own(q)
  <1>1. RequestTypes /\ Progress(q) /\ pc[q] = "reserved"
    BY TypesFold DEF AllProgress, BuildContext
  <1>2. UNCHANGED <<generation, message, reservation, ledger, faulty>>
    BY DEF BuildContext, rows, history
  <1>3. CASE job' = [job EXCEPT ![q].now = Clock] /\ Goto(q, "stamped")
    <2> DEFINE j == [job[q] EXCEPT !.now = Clock]
    <2>1. j \in JobRecord /\ j.content = job[q].content
      BY <1>1, OwnKept, ClockLater DEF JobRecord
    <2>2. job' = [job EXCEPT ![q] = j]
      BY <1>3
    <2> HIDE DEF j
    <2>3. RequestTypes' /\ Others(q) /\ pc'[q] = "stamped" /\ job'[q] = j
      BY <1>1, <1>2, <1>3, <2>1, <2>2, JobShape DEF Phases, InFlightPhases
    <2> QED
      BY <1>1, <1>2, <2>1, <2>3 DEF Own, Progress, Unaccepted, Unstreamed, Running
  <1>4. CASE Goto(q, "refunding") /\ UNCHANGED job
    <2>1. RequestTypes' /\ Others(q) /\ pc'[q] = "refunding"
      BY <1>1, <1>2, <1>4, GotoShape DEF Phases, InFlightPhases
    <2> QED
      BY <1>1, <1>2, <2>1 DEF Own, Progress, Unaccepted, Unstreamed, Running
  <1> QED
    BY <1>3, <1>4 DEF BuildContext

\* The rows that Accept writes.
LEMMA AcceptRows ==
    ASSUME TypeOK, NEW q \in Requests, Accept(q)
    PROVE  \E g \in GenerationRecord, m \in MessageRecord :
             /\ generation' = [generation EXCEPT ![q] = g]
             /\ message' = [message EXCEPT ![q] = m]
             /\ g.status = "accepted" /\ g.parent = job[q].previous /\ g.acceptedAt = job[q].now
             /\ m.status = "pending" /\ m.length = message[q].length
  <1>1. job[q] \in JobRecord /\ generation[q] \in GenerationRecord /\ message[q] \in MessageRecord
    BY TypesFold, OwnKept
  <1> DEFINE g == [generation[q] EXCEPT !.status = "accepted", !.parent = job[q].previous,
                                        !.acceptedAt = job[q].now]
             m == [message[q] EXCEPT !.status = "pending"]
  <1>2. g \in GenerationRecord /\ m \in MessageRecord
    BY <1>1 DEF GenerationRecord, MessageRecord, JobRecord, Active
  <1>3. g.status = "accepted" /\ g.parent = job[q].previous /\ g.acceptedAt = job[q].now
    BY <1>1 DEF GenerationRecord
  <1>4. m.status = "pending" /\ m.length = message[q].length
    BY <1>1 DEF MessageRecord
  <1>5. generation' = [generation EXCEPT ![q] = g] /\ message' = [message EXCEPT ![q] = m]
    BY DEF Accept
  <1> HIDE DEF g, m
  <1> QED
    BY <1>2, <1>3, <1>4, <1>5

LEMMA AcceptOwn ==
    ASSUME TypeOK, AllProgress, NEW q \in Requests, Accept(q)
    PROVE  Own(q)
  <1>1. RequestTypes /\ Progress(q) /\ pc[q] = "stamped"
    BY TypesFold DEF AllProgress, Accept
  <1>2. UNCHANGED <<job, reservation, ledger>>
    BY DEF Accept
  <1>3. PICK g \in GenerationRecord, m \in MessageRecord :
             /\ generation' = [generation EXCEPT ![q] = g]
             /\ message' = [message EXCEPT ![q] = m]
             /\ g.status = "accepted"
             /\ m.status = "pending" /\ m.length = message[q].length
    BY AcceptRows
  <1>4. \/ pc' = [pc EXCEPT ![q] = "accepted"] /\ faulty' = faulty
        \/ pc' = [pc EXCEPT ![q] = "refunding"] /\ faulty' = faulty \cup {q}
    BY DEF Accept, Goto
  <1>5. /\ RequestTypes' /\ Others(q)
        /\ \/ pc'[q] = "accepted"
           \/ pc'[q] = "refunding" /\ q \in faulty'
        /\ generation'[q] = g /\ message'[q] = m
    BY <1>1, <1>2, <1>3, <1>4 DEF RequestTypes, Others, Phases, InFlightPhases
  <1> QED
    BY <1>1, <1>2, <1>3, <1>5 DEF Own, Progress, Unaccepted, Unstreamed, Running

LEMMA RefuseOwn ==
    ASSUME TypeOK, AllProgress, NEW q \in Requests, RollBack(q) \/ Refund(q)
    PROVE  Own(q)
  <1>1. RequestTypes /\ Progress(q)
    BY TypesFold DEF AllProgress
  <1>2. CASE RollBack(q)
    <2>1. /\ RequestTypes' /\ Others(q) /\ pc[q] = "stamped" /\ pc'[q] = "refunding"
          /\ UNCHANGED <<job, generation, message, reservation, ledger, faulty>>
      BY <1>1, <1>2, GotoShape DEF RollBack, rows, history, Phases, InFlightPhases
    <2> QED
      BY <1>1, <2>1 DEF Own, Progress, Unaccepted, Unstreamed, Running
  <1>3. CASE Refund(q)
    <2>1. /\ pc[q] = "refunding" /\ UNCHANGED <<generation, message, ledger>>
          /\ pc' = [pc EXCEPT ![q] = "rejected"] /\ job' = [job EXCEPT ![q] = NoJob]
          /\ \/ reservation' = [reservation EXCEPT ![q] = "settled"] /\ faulty' = faulty
             \/ faulty' = faulty \cup {q} /\ UNCHANGED reservation
      BY <1>3 DEF Refund, Return, Goto
    <2>2. /\ RequestTypes' /\ Others(q) /\ pc'[q] = "rejected"
          /\ \/ reservation'[q] = "settled" /\ faulty' = faulty
             \/ q \in faulty'
      BY <1>1, <2>1, NoJobTyped DEF RequestTypes, Others, Phases
    <2> QED
      BY <1>1, <2>1, <2>2 DEF Own, Progress, Unaccepted, Unstreamed, Running
  <1> QED
    BY <1>2, <1>3

LEMMA AcknowledgeOwn ==
    ASSUME TypeOK, AllProgress, NEW q \in Requests, Acknowledge(q)
    PROVE  Own(q)
  <1>1. RequestTypes /\ Progress(q) /\ pc[q] = "accepted"
    BY TypesFold DEF AllProgress, Acknowledge
  <1>2. UNCHANGED <<generation, message, reservation, ledger, faulty>>
    BY DEF Acknowledge, rows
  <1>3. CASE Goto(q, "starting") /\ UNCHANGED job
    <2>1. RequestTypes' /\ Others(q) /\ pc'[q] = "starting"
      BY <1>1, <1>2, <1>3, GotoShape DEF Phases, InFlightPhases
    <2> QED
      BY <1>1, <1>2, <1>3, <2>1 DEF Own, Progress, Unaccepted, Unstreamed, Running
  <1>4. CASE Return(q, "abandoned")
    <2>1. RequestTypes' /\ Others(q) /\ pc'[q] = "abandoned"
      BY <1>1, <1>2, <1>4, NoJobTyped, JobShape DEF Return, Phases
    <2> QED
      BY <2>1 DEF Own, Progress, Unaccepted, Unstreamed, Running
  <1> QED
    BY <1>3, <1>4 DEF Acknowledge

LEMMA RegisterOwn ==
    ASSUME TypeOK, AllProgress, NEW q \in Requests, Register(q)
    PROVE  Own(q)
  <1>1. /\ RequestTypes /\ Progress(q) /\ pc[q] = "starting" /\ Goto(q, "marking")
        /\ UNCHANGED <<job, generation, message, reservation, ledger, faulty>>
    BY TypesFold DEF AllProgress, Register, rows, history
  <1>2. RequestTypes' /\ Others(q) /\ pc'[q] = "marking"
    BY <1>1, GotoShape DEF Phases, InFlightPhases
  <1> QED
    BY <1>1, <1>2 DEF Own, Progress, Unaccepted, Unstreamed, Running

\* Conclude: only the local variables of q change.
LEMMA ConcludeShape ==
    ASSUME RequestTypes, NEW q \in Requests, NEW outcome \in Terminal, NEW cause \in Causes,
           Conclude(q, outcome, cause),
           UNCHANGED <<generation, message, reservation, ledger, faulty>>
    PROVE  /\ RequestTypes' /\ Others(q) /\ pc'[q] = "finalizing"
           /\ job'[q].outcome = outcome /\ job'[q].cause = cause
           /\ job'[q].content = job[q].content /\ job'[q].actor = job[q].actor
  <1> DEFINE j == [job[q] EXCEPT !.outcome = outcome, !.cause = cause]
  <1>1. /\ j \in JobRecord /\ j.outcome = outcome /\ j.cause = cause
        /\ j.content = job[q].content /\ j.actor = job[q].actor
    BY OwnKept DEF JobRecord
  <1>2. job' = [job EXCEPT ![q] = j] /\ Goto(q, "finalizing")
    BY DEF Conclude
  <1> HIDE DEF j
  <1>3. RequestTypes' /\ Others(q) /\ pc'[q] = "finalizing" /\ job'[q] = j
    BY <1>1, <1>2, JobShape DEF Phases, InFlightPhases
  <1> QED
    BY <1>1, <1>3

LEMMA ConcludeOwn ==
    ASSUME RequestTypes, NEW q \in Requests, NEW outcome \in Terminal, NEW cause \in Causes,
           Conclude(q, outcome, cause),
           UNCHANGED <<generation, message, reservation, ledger, faulty>>,
           generation[q].status \in Active,
           outcome # "failed" => generation[q].status = "streaming",
           message[q].status = "pending", message[q].length = job[q].content
    PROVE  Own(q)
  <1>1. /\ RequestTypes' /\ Others(q) /\ pc'[q] = "finalizing"
        /\ job'[q].outcome = outcome /\ job'[q].content = job[q].content
    BY ConcludeShape
  <1>2. FinalOffset(q)' = message[q].length
    BY <1>1 DEF FinalOffset
  <1> QED
    BY <1>1, <1>2 DEF Own, Progress, Unaccepted, Unstreamed, Running, Active, Terminal

LEMMA MarkStreamingOwn ==
    ASSUME TypeOK, AllProgress, NEW q \in Requests, MarkStreaming(q)
    PROVE  Own(q)
  <1>1. RequestTypes /\ Progress(q) /\ pc[q] = "marking"
    BY TypesFold DEF AllProgress, MarkStreaming
  <1>2. UNCHANGED <<message, reservation, ledger, faulty>>
    BY DEF MarkStreaming, history
  <1>3. CASE /\ generation' = [generation EXCEPT ![q].status = "streaming"]
             /\ Goto(q, "connecting") /\ UNCHANGED job
    <2> DEFINE g == [generation[q] EXCEPT !.status = "streaming"]
    <2>1. g \in GenerationRecord /\ g.status = "streaming"
      BY <1>1, OwnKept DEF GenerationRecord, Active
    <2>2. generation' = [generation EXCEPT ![q] = g]
      BY <1>3
    <2> HIDE DEF g
    <2>3. RequestTypes' /\ Others(q) /\ pc'[q] = "connecting" /\ generation'[q] = g
      BY <1>1, <1>2, <1>3, <2>1, <2>2 DEF Goto, RequestTypes, Others, Phases, InFlightPhases
    <2> QED
      BY <1>1, <1>2, <1>3, <2>1, <2>3 DEF Own, Progress, Unaccepted, Unstreamed, Running
  <1>4. ASSUME UNCHANGED generation, NEW cause \in {"canceled", "retryable"},
               Conclude(q, "failed", cause)
        PROVE  Own(q)
    BY <1>1, <1>2, <1>4, ConcludeOwn
       DEF Progress, Running, Unstreamed, Active, Terminal, Causes
  <1> QED
    BY <1>3, <1>4 DEF MarkStreaming, Fail

LEMMA ConnectOwn ==
    ASSUME TypeOK, AllProgress, NEW q \in Requests, Connect(q)
    PROVE  Own(q)
  <1>1. RequestTypes /\ Progress(q) /\ pc[q] = "connecting"
    BY TypesFold DEF AllProgress, Connect
  <1>2. UNCHANGED <<generation, message, reservation, ledger, faulty>>
    BY DEF Connect, rows, history
  <1>3. CASE Goto(q, "streaming") /\ UNCHANGED job
    <2>1. RequestTypes' /\ Others(q) /\ pc'[q] = "streaming"
      BY <1>1, <1>2, <1>3, GotoShape DEF Phases, InFlightPhases
    <2> QED
      BY <1>1, <1>2, <1>3, <2>1 DEF Own, Progress, Unaccepted, Unstreamed, Running
  <1>4. ASSUME NEW cause \in {"canceled", "retryable", "permanent"}, Conclude(q, "failed", cause)
        PROVE  Own(q)
    BY <1>1, <1>2, <1>4, ConcludeOwn
       DEF Progress, Running, Unstreamed, Active, Terminal, Causes
  <1> QED
    BY <1>3, <1>4 DEF Connect, Fail

LEMMA EndStreamOwn ==
    ASSUME TypeOK, AllProgress, NEW q \in Requests, EndStream(q)
    PROVE  Own(q)
  <1>1. RequestTypes /\ Progress(q) /\ pc[q] = "streaming"
    BY TypesFold DEF AllProgress, EndStream
  <1>2. UNCHANGED <<generation, message, reservation, ledger, faulty>>
    BY DEF EndStream, rows, history
  <1>3. PICK outcome \in Terminal, cause \in Causes : Conclude(q, outcome, cause)
    BY DEF EndStream, Fail, Terminal, Causes
  <1> QED
    BY <1>1, <1>2, <1>3, ConcludeOwn DEF Progress, Running, Active

\* The text of a chunk, and where a failed append leads.
LEMMA ReceiveChunkOwn ==
    ASSUME TypeOK, AllProgress, NEW q \in Requests, ReceiveChunk(q)
    PROVE  Own(q)
  <1> DEFINE text == job[q].content + 1
  <1>1. /\ RequestTypes /\ Progress(q) /\ pc[q] = "streaming"
        /\ UNCHANGED <<reservation, ledger, faulty>> /\ job[q].content < MaxChunks
    BY TypesFold DEF AllProgress, ReceiveChunk, history
  <1>2. /\ job[q] \in JobRecord /\ generation[q] \in GenerationRecord
        /\ message[q] \in MessageRecord /\ message[q].length = job[q].content
        /\ generation[q].status = "streaming" /\ message[q].status = "pending"
    BY <1>1, OwnKept DEF Progress, Running
  <1>3. text \in 0..MaxChunks /\ message[q].length + 1 = text
    BY <1>1, <1>2, ChunkAssumption DEF JobRecord, MessageRecord
  <1> DEFINE m == [message[q] EXCEPT !.length = @ + 1]
             g == [generation[q] EXCEPT !.offset = text]
             cause == IF q \in cancelled THEN "canceled" ELSE "retryable"
             kept == [job[q] EXCEPT !.content = text]
             failed == [job[q] EXCEPT !.content = text, !.outcome = "failed", !.cause = cause]
  <1>4. m \in MessageRecord /\ m.length = text /\ m.status = "pending"
    BY <1>2, <1>3 DEF MessageRecord
  <1>5. g \in GenerationRecord /\ g.status = "streaming"
    BY <1>2, <1>3 DEF GenerationRecord
  <1>6. kept \in JobRecord /\ kept.content = text
    BY <1>2, <1>3 DEF JobRecord
  <1>7. /\ failed \in JobRecord /\ failed.outcome = "failed" /\ failed.cause # "blocked"
    BY <1>2, <1>3 DEF JobRecord, Terminal, Causes
  <1>8. AppendAssistantMessage(q) = [message EXCEPT ![q] = m]
    BY DEF AppendAssistantMessage
  <1>9. CheckpointGeneration(q, text) = [generation EXCEPT ![q] = g]
    BY DEF CheckpointGeneration
  <1> HIDE DEF m, g, cause
  <1>10. CASE /\ message' = AppendAssistantMessage(q)
              /\ generation' \in {generation, CheckpointGeneration(q, text)}
              /\ job' = [job EXCEPT ![q].content = text] /\ UNCHANGED pc
    <2>1. job' = [job EXCEPT ![q] = kept]
      BY <1>10
    <2> HIDE DEF kept, text
    <2>2. generation' = generation \/ generation' = [generation EXCEPT ![q] = g]
      BY <1>9, <1>10
    <2>3. /\ RequestTypes' /\ Others(q) /\ job'[q] = kept /\ message'[q] = m
          /\ generation'[q].status = "streaming"
      BY <1>1, <1>2, <1>4, <1>5, <1>6, <1>8, <1>10, <2>1, <2>2 DEF RequestTypes, Others
    <2> QED
      BY <1>1, <1>4, <1>6, <1>10, <2>3 DEF Own, Progress, Unaccepted, Unstreamed, Running
  <1>11. CASE /\ message' \in {message, AppendAssistantMessage(q)}
              /\ job' = [job EXCEPT ![q].content = text, ![q].outcome = "failed",
                                    ![q].cause = IF q \in cancelled THEN "canceled" ELSE "retryable"]
              /\ Goto(q, "finalizing") /\ UNCHANGED generation
    <2>1. job' = [job EXCEPT ![q] = failed]
      BY <1>11 DEF cause
    <2> HIDE DEF failed, text
    <2>2. message' = message \/ message' = [message EXCEPT ![q] = m]
      BY <1>8, <1>11
    <2>0. PICK n \in MessageRecord : message' = [message EXCEPT ![q] = n] /\ n.status = "pending"
      BY <1>1, <1>2, <1>4, <2>2, OwnKept
    <2>3. /\ RequestTypes' /\ Others(q) /\ job'[q] = failed /\ pc'[q] = "finalizing"
          /\ message'[q].status = "pending"
      <3>1. /\ pc' = [pc EXCEPT ![q] = "finalizing"] /\ "finalizing" \in Phases
            /\ UNCHANGED <<generation, reservation, ledger, faulty>>
        BY <1>1, <1>11 DEF Goto, Phases, InFlightPhases
      <3> QED
        BY <1>1, <1>7, <2>0, <2>1, <3>1 DEF RequestTypes, Others
    <2>4. FinalOffset(q)' = message'[q].length
      BY <1>7, <2>3 DEF FinalOffset
    <2> QED
      BY <1>1, <1>2, <1>7, <1>11, <2>3, <2>4
         DEF Own, Progress, Unaccepted, Unstreamed, Running, Active, Terminal
  <1> QED
    BY <1>10, <1>11 DEF ReceiveChunk

\* The offset of a lost GetMessage is zero; every other one is the length of the message.
LEMMA FinalizeGenerationOwn ==
    ASSUME TypeOK, AllProgress, NEW q \in Requests, FinalizeGeneration(q)
    PROVE  Own(q)
  <1>1. /\ RequestTypes /\ Progress(q) /\ pc[q] = "finalizing"
        /\ pc' = [pc EXCEPT ![q] = "closing"] /\ UNCHANGED <<job, message, reservation, ledger>>
    BY TypesFold DEF AllProgress, FinalizeGeneration, Goto
  <1>2. /\ job[q] \in JobRecord /\ generation[q] \in GenerationRecord
        /\ message[q] \in MessageRecord /\ job[q].outcome \in Terminal
        /\ FinalOffset(q) = message[q].length /\ message[q].status = "pending"
    BY <1>1, OwnKept DEF Progress
  <1>3. ASSUME NEW lost \in BOOLEAN,
               generation' = [generation EXCEPT
                      ![q].status = job[q].outcome,
                      ![q].retryable = job[q].outcome = "failed" /\ job[q].cause = "retryable",
                      ![q].offset = IF lost THEN 0 ELSE FinalOffset(q)],
               faulty' = IF lost THEN faulty \cup {q} ELSE faulty
        PROVE  Own(q)
    <2> DEFINE retryable == job[q].outcome = "failed" /\ job[q].cause = "retryable"
               offset == IF lost THEN 0 ELSE FinalOffset(q)
               g == [generation[q] EXCEPT !.status = job[q].outcome, !.retryable = retryable,
                                          !.offset = offset]
    <2>1. retryable \in BOOLEAN
      OBVIOUS
    <2>2. offset \in 0..MaxChunks /\ (~lost => offset = message[q].length)
      BY <1>2, ChunkAssumption DEF MessageRecord
    <2>3. generation' = [generation EXCEPT ![q] = g]
      BY <1>3
    <2> HIDE DEF retryable, offset
    <2>4. g \in GenerationRecord /\ g.status = job[q].outcome /\ g.offset = offset
      BY <1>2, <2>1, <2>2 DEF GenerationRecord
    <2> HIDE DEF g
    <2>6. faulty' \in {faulty, faulty \cup {q}} /\ (q \notin faulty' => ~lost)
      BY <1>3
    <2>5. /\ RequestTypes' /\ Others(q) /\ generation'[q] = g /\ pc'[q] = "closing"
      BY <1>1, <2>3, <2>4, <2>6 DEF RequestTypes, Others, Phases, InFlightPhases
    <2> QED
      BY <1>1, <1>2, <2>2, <2>4, <2>5, <2>6 DEF Own, Progress, Unaccepted, Unstreamed, Running, Active, Terminal
  <1>4. CASE faulty' = faulty \cup {q} /\ UNCHANGED generation
    <2>1. /\ RequestTypes' /\ Others(q) /\ pc'[q] = "closing" /\ q \in faulty'
      BY <1>1, <1>4 DEF RequestTypes, Others, Phases, InFlightPhases
    <2> QED
      BY <1>1, <1>2, <1>4, <2>1 DEF Own, Progress, Unaccepted, Unstreamed, Running, Active, Terminal
  <1> QED
    BY <1>3, <1>4 DEF FinalizeGeneration

LEMMA FinalizeMessageOwn ==
    ASSUME TypeOK, AllProgress, NEW q \in Requests, FinalizeMessage(q)
    PROVE  Own(q)
  <1>1. /\ RequestTypes /\ Progress(q) /\ pc[q] = "closing"
        /\ pc' = [pc EXCEPT ![q] = "unlocking"]
        /\ UNCHANGED <<job, generation, reservation, ledger>>
    BY TypesFold DEF AllProgress, FinalizeMessage, Goto
  <1>2. message[q] \in MessageRecord /\ job[q].outcome \in Terminal
    BY <1>1, OwnKept DEF Progress
  <1>3. CASE /\ message' = [message EXCEPT ![q].status =
                    IF job[q].outcome = "completed" THEN "complete" ELSE job[q].outcome]
             /\ UNCHANGED faulty
    <2> DEFINE m == [message[q] EXCEPT !.status = MessageStatus(job[q].outcome)]
    <2>1. /\ m \in MessageRecord /\ m.status = MessageStatus(job[q].outcome)
          /\ m.length = message[q].length
      BY <1>2 DEF MessageRecord, MessageStatus, Terminal
    <2>2. message' = [message EXCEPT ![q] = m]
      BY <1>3 DEF MessageStatus
    <2> HIDE DEF m
    <2>3. RequestTypes' /\ Others(q) /\ message'[q] = m /\ pc'[q] = "unlocking"
      BY <1>1, <1>3, <2>1, <2>2 DEF RequestTypes, Others, Phases, InFlightPhases
    <2> QED
      BY <1>1, <1>2, <1>3, <2>1, <2>3 DEF Own, Progress, Unaccepted, Unstreamed, Running
  <1>4. CASE faulty' = faulty \cup {q} /\ UNCHANGED message
    <2>1. RequestTypes' /\ Others(q) /\ pc'[q] = "unlocking" /\ q \in faulty'
      BY <1>1, <1>4 DEF RequestTypes, Others, Phases, InFlightPhases
    <2> QED
      BY <1>1, <1>2, <2>1 DEF Own, Progress, Unaccepted, Unstreamed, Running
  <1> QED
    BY <1>3, <1>4 DEF FinalizeMessage

LEMMA UnlockOwn ==
    ASSUME TypeOK, AllProgress, NEW q \in Requests, UnlockConversation(q)
    PROVE  Own(q)
  <1>1. /\ RequestTypes /\ Progress(q) /\ pc[q] = "unlocking"
        /\ pc' = [pc EXCEPT ![q] = "settling"]
        /\ UNCHANGED <<job, generation, message, reservation, ledger>>
        /\ faulty' \in {faulty, faulty \cup {q}}
    BY TypesFold DEF AllProgress, UnlockConversation, Goto
  <1>2. RequestTypes' /\ Others(q) /\ pc'[q] = "settling" /\ faulty \subseteq faulty'
    BY <1>1 DEF RequestTypes, Others, Phases, InFlightPhases
  <1> QED
    BY <1>1, <1>2 DEF Own, Progress, Unaccepted, Unstreamed, Running

LEMMA SettleOwn ==
    ASSUME TypeOK, AllProgress, NEW q \in Requests, SettleGeneration(q)
    PROVE  Own(q)
  <1>1. /\ RequestTypes /\ Progress(q) /\ pc[q] = "settling"
        /\ pc' = [pc EXCEPT ![q] = "leaving"] /\ UNCHANGED <<job, generation, message>>
    BY TypesFold DEF AllProgress, SettleGeneration, Goto
  <1>2. /\ ledger' \in {ledger, ledger \cup {q}}
        /\ reservation' \in {reservation, [reservation EXCEPT ![q] = "settled"]}
        /\ \/ /\ ledger' = ledger \cup {q} /\ faulty' = faulty
              /\ reservation' = [reservation EXCEPT ![q] = "settled"]
           \/ faulty' = faulty \cup {q}
    BY DEF SettleGeneration, CreateUsageLedgerEntry
  <1>3. RequestTypes' /\ Others(q) /\ pc'[q] = "leaving"
    BY <1>1, <1>2 DEF RequestTypes, Others, Phases
  <1>4. q \notin faulty' => q \notin faulty /\ q \in ledger' /\ reservation'[q] = "settled"
    BY <1>1, <1>2 DEF RequestTypes
  <1> QED
    BY <1>1, <1>3, <1>4 DEF Own, Progress, Unaccepted, Unstreamed, Running

LEMMA UnregisterOwn ==
    ASSUME TypeOK, AllProgress, NEW q \in Requests, Unregister(q)
    PROVE  Own(q)
  <1>1. /\ RequestTypes /\ Progress(q) /\ pc[q] = "leaving" /\ Return(q, "done")
        /\ UNCHANGED <<generation, message, reservation, ledger, faulty>>
    BY TypesFold DEF AllProgress, Unregister, rows, history
  <1>2. RequestTypes' /\ Others(q) /\ pc'[q] = "done"
    BY <1>1, NoJobTyped, JobShape DEF Return, Phases
  <1> QED
    BY <1>1, <1>2 DEF Own, Progress, Unaccepted, Unstreamed, Running

\* Every step of a request is a step of its own, and keeps its progress.
LEMMA RequestOwn ==
    ASSUME TypeOK, AllProgress, NEW q \in Requests, Lookup(q) \/ Proceed(q)
    PROVE  Own(q)
  BY LookupOwn, ReserveQuotaOwn, BuildContextOwn, AcceptOwn, RefuseOwn, AcknowledgeOwn,
     RegisterOwn, MarkStreamingOwn, ConnectOwn, EndStreamOwn, ReceiveChunkOwn,
     FinalizeGenerationOwn, FinalizeMessageOwn, UnlockOwn, SettleOwn, UnregisterOwn
     DEF Proceed

\* A conversation row with another state.
LEMMA StateShape ==
    ASSUME SharedTypes, NEW c \in Conversations, NEW state \in {"idle", "accepted", "streaming"},
           conversation' = [conversation EXCEPT ![c].state = state]
    PROVE  /\ conversation' \in [Conversations -> ConversationRecord]
           /\ conversation'[c].state = state
           /\ conversation'[c].deleted = conversation[c].deleted
           /\ \A d \in Conversations : conversation'[d].owner = conversation[d].owner
           /\ \A d \in Conversations \ {c} : conversation'[d] = conversation[d]
  <1> DEFINE new == [conversation[c] EXCEPT !.state = state]
  <1>1. conversation[c] \in ConversationRecord
    BY DEF SharedTypes
  <1>2. /\ new \in ConversationRecord /\ new.state = state
        /\ new.owner = conversation[c].owner
    BY <1>1 DEF ConversationRecord
  <1>3. new.deleted = conversation[c].deleted
    BY <1>1 DEF ConversationRecord
  <1>4. conversation' = [conversation EXCEPT ![c] = new]
    OBVIOUS
  <1> HIDE DEF new
  <1> QED
    BY <1>1, <1>2, <1>3, <1>4 DEF SharedTypes

\* What a request writes into its conversation: a state, and "idle" only to unlock it.
Writes(q, state) ==
    /\ conversation' = [conversation EXCEPT ![ConversationOf[q]].state = state]
    /\ state \in {"idle", "accepted", "streaming"}
    /\ state = "idle" => UnlockConversation(q)

LEMMA RequestWrites ==
    ASSUME NEW q \in Requests, Lookup(q) \/ Proceed(q)
    PROVE  conversation' = conversation \/ \E state : Writes(q, state)
  <1>1. CASE Accept(q)
    <2>1. conversation' = [conversation EXCEPT ![ConversationOf[q]].state = "accepted"]
      BY <1>1 DEF Accept
    <2>2. Writes(q, "accepted")
      BY <2>1 DEF Writes
    <2> QED
      BY <2>2
  <1>2. CASE MarkStreaming(q)
    BY <1>2 DEF MarkStreaming, Writes
  <1>3. CASE UnlockConversation(q)
    <2>1. conversation' = conversation \/
              conversation' = [conversation EXCEPT ![ConversationOf[q]].state = "idle"]
      BY <1>3 DEF UnlockConversation
    <2> QED
      BY <1>3, <2>1 DEF Writes
  <1>4. CASE Lookup(q) \/ ReserveQuota(q) \/ BuildContext(q) \/ RollBack(q) \/ Refund(q)
    BY <1>4 DEF Lookup, ReserveQuota, BuildContext, RollBack, Refund, rows
  <1>5. CASE Acknowledge(q) \/ Register(q) \/ Connect(q) \/ ReceiveChunk(q) \/ EndStream(q)
    BY <1>5 DEF Acknowledge, Register, Connect, ReceiveChunk, EndStream, rows
  <1>6. CASE FinalizeGeneration(q) \/ FinalizeMessage(q) \/ SettleGeneration(q) \/ Unregister(q)
    BY <1>6 DEF FinalizeGeneration, FinalizeMessage, SettleGeneration, Unregister, rows
  <1> QED
    BY <1>1, <1>2, <1>3, <1>4, <1>5, <1>6 DEF Proceed

\* What a request does to the leases: it takes a free one, or releases its own.
Takes(q) ==
    /\ pc[q] = "checked" /\ pc'[q] = "reserved" /\ job'[q] = job[q]
    /\ lease[job[q].actor] = NoRequest
    /\ lease' = [lease EXCEPT ![job[q].actor] = q]
    /\ lapsed' = lapsed

Releases(q) == LET a == job[q].actor IN
    /\ pc'[q] \notin InFlightPhases
    /\ lease' \in {lease, [lease EXCEPT ![a] = IF lease[a] = q THEN NoRequest ELSE lease[a]]}
    /\ lapsed' = lapsed \ {q}

Keeps(q) ==
    /\ lease' = lease /\ lapsed' = lapsed
    /\ pc'[q] \in InFlightPhases =>
          pc[q] \in InFlightPhases /\ job'[q].actor = job[q].actor

LEMMA RequestLease ==
    ASSUME TypeOK, NEW q \in Requests, Lookup(q) \/ Proceed(q)
    PROVE  Takes(q) \/ Releases(q) \/ Keeps(q)
  <1>1. pc \in [Requests -> Phases] /\ job \in [Requests -> JobRecord]
    BY TypesFold DEF RequestTypes
  <1>2. CASE ReserveQuota(q)
    <2>1. CASE Goto(q, "reserved") /\ UNCHANGED job /\ lease[job[q].actor] = NoRequest
                /\ lease' = [lease EXCEPT ![job[q].actor] = q]
      BY <1>1, <1>2, <2>1 DEF ReserveQuota, Takes, Goto, history
    <2>2. CASE Return(q, "rejected") /\ UNCHANGED <<lease, reservation>>
      BY <1>1, <1>2, <2>2 DEF ReserveQuota, Keeps, Return, Goto, history, InFlightPhases
    <2> QED
      BY <1>2, <2>1, <2>2 DEF ReserveQuota
  <1>3. CASE Refund(q) \/ SettleGeneration(q)
    BY <1>1, <1>3 DEF Refund, SettleGeneration, ReleaseLease, Return, Goto, Releases, InFlightPhases
  <1>4. CASE Lookup(q) \/ Unregister(q)
    BY <1>1, <1>4 DEF Lookup, Unregister, Return, Goto, Keeps, InFlightPhases, rows, history
  <1>5. CASE Acknowledge(q)
    <2>1. lease' = lease
      BY <1>5 DEF Acknowledge
    <2>2. CASE Goto(q, "starting") /\ UNCHANGED <<job, lapsed>>
      BY <1>1, <1>5, <2>1, <2>2 DEF Acknowledge, Goto, Keeps, InFlightPhases
    <2>3. CASE Return(q, "abandoned") /\ lapsed' = lapsed \ {q}
      BY <1>1, <2>1, <2>3 DEF Return, Goto, Releases, InFlightPhases
    <2> QED
      BY <1>5, <2>2, <2>3 DEF Acknowledge
  <1>6. ASSUME UNCHANGED <<lease, lapsed>>, pc[q] \in InFlightPhases,
               job'[q].actor = job[q].actor
        PROVE  Keeps(q)
    BY <1>6 DEF Keeps
  <1>7. CASE RollBack(q) \/ Register(q) \/ Accept(q) \/ FinalizeGeneration(q)
               \/ FinalizeMessage(q) \/ UnlockConversation(q)
    BY <1>6, <1>7 DEF RollBack, Register, Accept, FinalizeGeneration, FinalizeMessage,
                      UnlockConversation, history, InFlightPhases
  <1>8. ASSUME NEW outcome \in Terminal, NEW cause \in Causes, Conclude(q, outcome, cause)
        PROVE  job'[q].actor = job[q].actor
    <2>1. job[q] \in JobRecord /\ q \in DOMAIN job
      BY <1>1
    <2> QED
      BY <1>8, <2>1 DEF Conclude, JobRecord
  <1>9. CASE BuildContext(q)
    <2>1. job'[q].actor = job[q].actor
      BY <1>1, <1>9 DEF BuildContext, JobRecord
    <2> QED
      BY <1>6, <1>9, <2>1 DEF BuildContext, history, InFlightPhases
  <1>10. CASE ReceiveChunk(q)
    <2>1. job'[q].actor = job[q].actor
      BY <1>1, <1>10 DEF ReceiveChunk, JobRecord
    <2> QED
      BY <1>6, <1>10, <2>1 DEF ReceiveChunk, history, InFlightPhases
  <1>11. CASE MarkStreaming(q)
    <2>1. job'[q].actor = job[q].actor
      BY <1>8, <1>11 DEF MarkStreaming, Fail, Terminal, Causes
    <2> QED
      BY <1>6, <1>11, <2>1 DEF MarkStreaming, history, InFlightPhases
  <1>12. CASE Connect(q)
    <2>1. job'[q].actor = job[q].actor
      BY <1>8, <1>12 DEF Connect, Fail, Terminal, Causes
    <2> QED
      BY <1>6, <1>12, <2>1 DEF Connect, history, InFlightPhases
  <1>13. CASE EndStream(q)
    <2>1. job'[q].actor = job[q].actor
      BY <1>8, <1>13 DEF EndStream, Fail, Terminal, Causes
    <2> QED
      BY <1>6, <1>13, <2>1 DEF EndStream, history, InFlightPhases
  <1> QED
    BY <1>2, <1>3, <1>4, <1>5, <1>7, <1>9, <1>10, <1>11, <1>12, <1>13 DEF Proceed

\* Cancels, the shutdown flag and the history of conversations stay what they are.
LEMMA RequestProcess ==
    ASSUME TypeOK, NEW q \in Requests, Lookup(q) \/ Proceed(q)
    PROVE  /\ cancellations' \in SUBSET Requests /\ cancelled' \in SUBSET Requests
           /\ pendingCancel' \in [Replicas -> SUBSET Requests]
           /\ UNCHANGED <<commands, mode>>
           /\ overtaken \subseteq overtaken' /\ overtaken' \subseteq Conversations
  <1>1. SharedTypes
    BY TypesFold
  <1>2. CASE Register(q)
    BY <1>1, <1>2 DEF Register, SharedTypes, history
  <1>3. CASE Unregister(q)
    BY <1>1, <1>3 DEF Unregister, SharedTypes, history
  <1>4. CASE Accept(q)
    BY <1>1, <1>4, RequestAssumption DEF Accept, SharedTypes, process
  <1>5. CASE UNCHANGED <<process, overtaken>>
    BY <1>1, <1>5 DEF SharedTypes, process
  <1> QED
    BY <1>2, <1>3, <1>4, <1>5 DEF Proceed, Lookup, ReserveQuota, BuildContext, RollBack, Refund,
       Acknowledge, MarkStreaming, Connect, ReceiveChunk, EndStream, FinalizeGeneration,
       FinalizeMessage, UnlockConversation, SettleGeneration, history

\* What an error lost stays lost.
LEMMA FaultsStay ==
    ASSUME NEW q \in Requests, Lookup(q) \/ Proceed(q)
    PROVE  faulty \subseteq faulty'
  BY DEF Proceed, Lookup, ReserveQuota, BuildContext, Accept, RollBack, Refund, Acknowledge,
         Register, MarkStreaming, Connect, ReceiveChunk, EndStream, FinalizeGeneration,
         FinalizeMessage, UnlockConversation, SettleGeneration, Unregister, history

LEMMA RequestShared ==
    ASSUME TypeOK, NEW q \in Requests, Lookup(q) \/ Proceed(q)
    PROVE  SharedTypes'
  <1>1. SharedTypes /\ job[q].actor \in Actors
    BY TypesFold DEF RequestTypes, JobRecord
  <1>2. conversation' \in [Conversations -> ConversationRecord]
    <2>1. CASE conversation' = conversation
      BY <1>1, <2>1 DEF SharedTypes
    <2>2. ASSUME NEW state, Writes(q, state)
          PROVE  conversation' \in [Conversations -> ConversationRecord]
      BY <1>1, <2>2, StateShape, RequestAssumption DEF Writes
    <2> QED
      BY <2>1, <2>2, RequestWrites
  <1>3. lease' \in [Actors -> Requests \cup {NoRequest}] /\ lapsed' \in SUBSET Requests
    BY <1>1, RequestLease DEF Takes, Releases, Keeps, SharedTypes
  <1> QED
    BY <1>1, <1>2, <1>3, RequestProcess DEF SharedTypes

-----------------------------------------------------------------------------
(* Steps around the requests *)

Around ==
    \/ \E r \in Replicas, q \in Requests : AcknowledgeCancel(r, q) \/ Cancel(r, q)
    \/ \E c \in Conversations : DeleteConversation(c)
    \/ MigrateGuest
    \/ \E a \in Actors : LeaseExpires(a)
    \/ \E r \in Replicas : BeginShutdown(r)

\* All but the death of a process leave the requests alone.
LEMMA AroundOwn ==
    ASSUME Around
    PROVE  /\ UNCHANGED <<generation, message, reservation, ledger, pc, job, faulty, overtaken>>
           /\ lapsed \subseteq lapsed'
  BY DEF Around, AcknowledgeCancel, Cancel, DeleteConversation, MigrateGuest, LeaseExpires,
         BeginShutdown, rows, process, history

\* A process that dies takes its requests with it, and no row.
Crash(r) == \A q \in Requests :
    \/ pc'[q] = "crashed"
    \/ pc'[q] = pc[q] /\ job'[q] = job[q] /\ (q \in lapsed' <=> q \in lapsed)

LEMMA StopShape ==
    ASSUME TypeOK, NEW r \in Replicas, Stop(r)
    PROVE  /\ TypeOK' /\ Crash(r)
           /\ UNCHANGED <<conversation, generation, message, reservation, ledger, lease, faulty, overtaken>>
  <1> DEFINE lost == {q \in Requests : ReplicaOf[q] = r /\
                          pc[q] \notin {"idle", "rejected", "abandoned", "done"}}
  <1>1. RequestTypes /\ SharedTypes
    BY TypesFold
  <1>2. /\ mode' = [mode EXCEPT ![r] = "down"]
        /\ pc' = [q \in Requests |-> IF q \in lost THEN "crashed" ELSE pc[q]]
        /\ job' = [q \in Requests |-> IF q \in lost THEN NoJob ELSE job[q]]
        /\ cancellations' = {q \in cancellations : ReplicaOf[q] # r}
        /\ pendingCancel' = [pendingCancel EXCEPT ![r] = {}]
        /\ commands' = {rq \in commands : rq[1] # r}
        /\ cancelled' = cancelled \ lost /\ lapsed' = lapsed \ lost
        /\ UNCHANGED <<conversation, generation, message, reservation, ledger, lease, faulty, overtaken>>
    BY DEF Stop, rows
  <1> HIDE DEF lost
  <1>3. RequestTypes'
    BY <1>1, <1>2, NoJobTyped DEF RequestTypes, Phases
  <1>4. commands' \in SUBSET (Replicas \X Requests)
    BY <1>1, <1>2 DEF SharedTypes
  <1>5. mode' \in [Replicas -> {"up", "stopping", "down"}]
    BY <1>1, <1>2 DEF SharedTypes
  <1>6. SharedTypes'
    BY <1>1, <1>2, <1>4, <1>5 DEF SharedTypes
  <1>7. Crash(r)
    BY <1>2 DEF Crash
  <1> QED
    BY <1>2, <1>3, <1>6, <1>7, TypesFold, PTL

LEMMA MigrateTyped ==
    ASSUME SharedTypes, MigrateGuest
    PROVE  /\ conversation' \in [Conversations -> ConversationRecord]
           /\ \A c \in Conversations : conversation'[c].state = conversation[c].state
                                      /\ conversation'[c].deleted = conversation[c].deleted
  <1> DEFINE new(c) == [conversation[c] EXCEPT !.owner = User]
  <1>1. \A c \in Conversations : conversation[c] \in ConversationRecord
    BY DEF SharedTypes
  <1>2. \A c \in Conversations : new(c) \in ConversationRecord
    BY <1>1 DEF ConversationRecord, Actors
  <1>3. \A c \in Conversations :
           new(c).state = conversation[c].state /\ new(c).deleted = conversation[c].deleted
    BY <1>1 DEF ConversationRecord
  <1>4. conversation' = [c \in Conversations |-> new(c)]
    BY DEF MigrateGuest
  <1> HIDE DEF new
  <1> QED
    BY <1>2, <1>3, <1>4

LEMMA DeleteTyped ==
    ASSUME SharedTypes, NEW c \in Conversations, DeleteConversation(c)
    PROVE  /\ conversation' \in [Conversations -> ConversationRecord]
           /\ conversation[c].state = "idle"
           /\ \A d \in Conversations \ {c} : conversation'[d] = conversation[d]
  <1> DEFINE new == [conversation[c] EXCEPT !.deleted = TRUE]
  <1>1. conversation[c] \in ConversationRecord
    BY DEF SharedTypes
  <1>2. new \in ConversationRecord
    BY <1>1 DEF ConversationRecord
  <1>3. conversation' = [conversation EXCEPT ![c] = new] /\ conversation[c].state = "idle"
    BY DEF DeleteConversation
  <1> HIDE DEF new
  <1> QED
    BY <1>2, <1>3 DEF SharedTypes

LEMMA AroundTyped ==
    ASSUME TypeOK, Around
    PROVE  TypeOK'
  <1>1. RequestTypes /\ SharedTypes
    BY TypesFold
  <1>2. RequestTypes'
    BY <1>1, AroundOwn DEF RequestTypes
  <1>3. SharedTypes'
    <2>1. ASSUME NEW r \in Replicas, NEW q \in Requests, AcknowledgeCancel(r, q)
          PROVE  SharedTypes'
      BY <1>1, <2>1 DEF AcknowledgeCancel, SharedTypes, rows, history
    <2>2. ASSUME NEW r \in Replicas, NEW q \in Requests, Cancel(r, q)
          PROVE  SharedTypes'
      BY <1>1, <2>2 DEF Cancel, SharedTypes, rows, history
    <2>3. ASSUME NEW c \in Conversations, DeleteConversation(c)
          PROVE  SharedTypes'
      BY <1>1, <2>3, DeleteTyped DEF DeleteConversation, SharedTypes, process, history
    <2>4. CASE MigrateGuest
      BY <1>1, <2>4, MigrateTyped DEF MigrateGuest, SharedTypes, process, history
    <2>5. ASSUME NEW a \in Actors, LeaseExpires(a)
          PROVE  SharedTypes'
      BY <1>1, <2>5 DEF LeaseExpires, SharedTypes, rows, process
    <2>6. ASSUME NEW r \in Replicas, BeginShutdown(r)
          PROVE  SharedTypes'
      BY <1>1, <2>6 DEF BeginShutdown, SharedTypes, rows, history
    <2> QED
      BY <2>1, <2>2, <2>3, <2>4, <2>5, <2>6 DEF Around
  <1> QED
    BY <1>2, <1>3, TypesFold, PTL

-----------------------------------------------------------------------------
(* Types and progress are kept *)

LEMMA ProgressKept ==
    ASSUME TypeOK, AllProgress, NEW q \in Requests, Lookup(q) \/ Proceed(q)
    PROVE  TypeOK' /\ AllProgress'
  <1>1. RequestTypes' /\ Others(q) /\ Progress(q)'
    BY RequestOwn DEF Own
  <1>2. TypeOK'
    BY <1>1, RequestShared, TypesFold, PTL
  <1>3. ASSUME NEW r \in Requests \ {q} PROVE Progress(r)'
    BY <1>1 DEF AllProgress, Progress, Others, FinalOffset
  <1> QED
    BY <1>1, <1>2, <1>3 DEF AllProgress

LEMMA ProgressInductive == TypeOK /\ AllProgress /\ [Next]_vars => TypeOK' /\ AllProgress'
  <1> SUFFICES ASSUME TypeOK, AllProgress, [Next]_vars PROVE TypeOK' /\ AllProgress'
    OBVIOUS
  <1>1. ASSUME NEW q \in Requests, Lookup(q) \/ Proceed(q)
        PROVE  TypeOK' /\ AllProgress'
    BY <1>1, ProgressKept
  <1>2. CASE Around
    <2>1. TypeOK'
      BY <1>2, AroundTyped
    <2>2. AllProgress'
      BY <1>2, AroundOwn DEF AllProgress, Progress, FinalOffset
    <2> QED
      BY <2>1, <2>2
  <1>3. ASSUME NEW r \in Replicas, Stop(r) PROVE TypeOK' /\ AllProgress'
    <2>1. /\ TypeOK' /\ Crash(r)
          /\ UNCHANGED <<generation, message, reservation, ledger, faulty>>
      BY <1>3, StopShape
    <2>2. AllProgress'
      BY <2>1 DEF AllProgress, Progress, FinalOffset, Crash, Unaccepted, Unstreamed, Running
    <2> QED
      BY <2>1, <2>2
  <1>4. CASE UNCHANGED vars
    <2>1. TypeOK'
      BY <1>4 DEF vars, rows, process, history, TypeOK
    <2>2. AllProgress'
      BY <1>4 DEF vars, rows, process, history, AllProgress, Progress, FinalOffset
    <2> QED
      BY <2>1, <2>2
  <1> QED
    BY <1>1, <1>2, <1>3, <1>4 DEF Next, Environment, Around

-----------------------------------------------------------------------------
(* Leases *)

LEMMA LeaseInductive == TypeOK /\ AllProgress /\ LeaseHeld /\ [Next]_vars => LeaseHeld'
  <1> SUFFICES ASSUME TypeOK, AllProgress, LeaseHeld, [Next]_vars,
                      NEW r \in Requests, pc'[r] \in InFlightPhases, r \notin lapsed'
               PROVE  lease'[job'[r].actor] = r
    BY DEF LeaseHeld, InFlight
  <1>1. /\ lease \in [Actors -> Requests \cup {NoRequest}]
        /\ job[r].actor \in Actors /\ NoRequest \notin Requests
    BY TypesFold, RequestAssumption DEF RequestTypes, SharedTypes, JobRecord
  <1>2. pc[r] \in InFlightPhases /\ r \notin lapsed => lease[job[r].actor] = r
    BY DEF LeaseHeld, InFlight
  <1>3. ASSUME NEW q \in Requests, Lookup(q) \/ Proceed(q)
        PROVE  lease'[job'[r].actor] = r
    <2>1. job[q].actor \in Actors
      BY TypesFold DEF RequestTypes, JobRecord
    <2>2. CASE r = q
      BY <1>1, <1>2, <1>3, <2>2, RequestLease DEF Takes, Releases, Keeps
    <2>3. CASE r # q
      <3>1. pc'[r] = pc[r] /\ job'[r] = job[r]
        BY <1>3, <2>3, RequestOwn DEF Own, Others
      <3> QED
        BY <1>1, <1>2, <1>3, <2>1, <2>3, <3>1, RequestLease DEF Takes, Releases, Keeps
    <2> QED
      BY <2>2, <2>3
  <1>4. ASSUME NEW a \in Actors, LeaseExpires(a)
        PROVE  lease'[job'[r].actor] = r
    BY <1>1, <1>2, <1>4 DEF LeaseExpires, InFlight
  <1>5. ASSUME UNCHANGED <<lease, pc, job, lapsed>>
        PROVE  lease'[job'[r].actor] = r
    BY <1>2, <1>5
  <1>6. ASSUME NEW k \in Replicas, Stop(k)
        PROVE  lease'[job'[r].actor] = r
    BY <1>2, <1>6, StopShape DEF Crash, InFlightPhases
  <1>7. CASE Around \/ UNCHANGED vars
    BY <1>4, <1>5, <1>7 DEF Around, AcknowledgeCancel, Cancel, DeleteConversation, MigrateGuest,
       BeginShutdown, vars, history, process, rows
  <1> QED
    BY <1>3, <1>6, <1>7 DEF Next, Environment, Around

\* Two requests that have their lease differ in the actor.
LEMMA LeaseExcludes == TypeOK /\ LeaseHeld => OneAtATime
  <1> SUFFICES ASSUME TypeOK, LeaseHeld, NEW q \in InFlight, NEW r \in InFlight, q # r,
                      ConversationOf[q] = ConversationOf[r], Covered(q), Covered(r)
               PROVE  FALSE
    BY DEF OneAtATime
  <1>1. job[q].actor = job[r].actor
    BY DEF Covered
  <1> QED
    BY <1>1 DEF Covered, LeaseHeld

-----------------------------------------------------------------------------
(* Generations *)

\* What a step makes of the row of q.
Same(q) ==
    /\ generation'[q].status = generation[q].status
    /\ generation'[q].retryable = generation[q].retryable
    /\ generation'[q].parent = generation[q].parent
    /\ generation'[q].acceptedAt = generation[q].acceptedAt

Accepts(q) ==
    /\ Accept(q)
    /\ generation'[q].status = "accepted"
    /\ generation'[q].parent = job[q].previous
    /\ generation'[q].acceptedAt = job[q].now

Streams(q) ==
    /\ generation[q].status = "accepted" /\ generation'[q].status = "streaming"
    /\ generation'[q].parent = generation[q].parent
    /\ generation'[q].acceptedAt = generation[q].acceptedAt

Ends(q) ==
    /\ generation[q].status \in Active /\ generation'[q].status \in Terminal
    /\ generation[q].status = "accepted" => generation'[q].status = "failed"
    /\ generation'[q].parent = generation[q].parent
    /\ generation'[q].acceptedAt = generation[q].acceptedAt

LEMMA RequestMoves ==
    ASSUME TypeOK, AllProgress, NEW q \in Requests, Lookup(q) \/ Proceed(q)
    PROVE  Same(q) \/ Accepts(q) \/ Streams(q) \/ Ends(q)
  <1>1. /\ generation \in [Requests -> GenerationRecord] /\ generation[q] \in GenerationRecord
        /\ Progress(q)
    BY TypesFold DEF RequestTypes, AllProgress
  <1>2. CASE Accept(q)
    <2>1. PICK g \in GenerationRecord :
             /\ generation' = [generation EXCEPT ![q] = g]
             /\ g.status = "accepted" /\ g.parent = job[q].previous /\ g.acceptedAt = job[q].now
      BY <1>2, AcceptRows
    <2>2. generation'[q] = g
      BY <1>1, <2>1
    <2> QED
      BY <1>2, <2>1, <2>2 DEF Accepts
  <1>3. CASE generation' = generation
    BY <1>3 DEF Same
  <1>4. CASE MarkStreaming(q)
    <2>1. CASE generation[q].status = "accepted"
               /\ generation' = [generation EXCEPT ![q].status = "streaming"]
      BY <1>1, <2>1 DEF Streams, GenerationRecord
    <2> QED
      BY <1>3, <1>4, <2>1 DEF MarkStreaming
  <1>5. CASE ReceiveChunk(q)
    <2>1. CASE generation' = CheckpointGeneration(q, job[q].content + 1)
      BY <1>1, <2>1 DEF Same, CheckpointGeneration, GenerationRecord
    <2> QED
      BY <1>3, <1>5, <2>1 DEF ReceiveChunk
  <1>6. CASE FinalizeGeneration(q)
    <2>1. ASSUME NEW lost \in BOOLEAN, generation[q].status \in Active,
                 generation' = [generation EXCEPT
                      ![q].status = job[q].outcome,
                      ![q].retryable = job[q].outcome = "failed" /\ job[q].cause = "retryable",
                      ![q].offset = IF lost THEN 0 ELSE FinalOffset(q)]
          PROVE  Ends(q)
      <3> DEFINE retryable == job[q].outcome = "failed" /\ job[q].cause = "retryable"
                 offset == IF lost THEN 0 ELSE FinalOffset(q)
                 g == [generation[q] EXCEPT !.status = job[q].outcome, !.retryable = retryable,
                                            !.offset = offset]
      <3>1. generation' = [generation EXCEPT ![q] = g]
        BY <2>1
      <3> HIDE DEF retryable, offset
      <3>2. /\ g.status = job[q].outcome /\ g.parent = generation[q].parent
            /\ g.acceptedAt = generation[q].acceptedAt
        BY <1>1 DEF GenerationRecord
      <3> HIDE DEF g
      <3>3. generation'[q] = g
        BY <1>1, <3>1
      <3>4. job[q].outcome \in Terminal
            /\ (job[q].outcome \in {"completed", "cancelled"} => generation[q].status = "streaming")
        BY <1>1, <1>6 DEF Progress, FinalizeGeneration
      <3> QED
        BY <2>1, <3>2, <3>3, <3>4 DEF Ends, Terminal
    <2> QED
      BY <1>3, <1>6, <2>1 DEF FinalizeGeneration
  <1>7. generation' = generation \/ Accept(q) \/ MarkStreaming(q) \/ ReceiveChunk(q)
            \/ FinalizeGeneration(q)
    BY DEF Proceed, Lookup, ReserveQuota, BuildContext, RollBack, Refund, Acknowledge, Register,
       Connect, EndStream, FinalizeMessage, UnlockConversation, SettleGeneration, Unregister, rows
  <1> QED
    BY <1>2, <1>3, <1>4, <1>5, <1>6, <1>7

\* Rows of other requests stay what they are.
LEMMA OthersSame ==
    ASSUME TypeOK, AllProgress, NEW q \in Requests, Lookup(q) \/ Proceed(q),
           NEW r \in Requests \ {q}
    PROVE  /\ Same(r) /\ generation'[r] = generation[r]
           /\ pc'[r] = pc[r] /\ job'[r] = job[r] /\ (r \in faulty' <=> r \in faulty)
  BY RequestOwn DEF Own, Others, Same

\* Only Accept creates a row, and only for a request that has none.
LEMMA StepMoves ==
    ASSUME TypeOK, AllProgress, [Next]_vars, NEW q \in Requests
    PROVE  Same(q) \/ Accepts(q) \/ Streams(q) \/ Ends(q)
  <1>1. ASSUME NEW r \in Requests, Lookup(r) \/ Proceed(r)
        PROVE  Same(q) \/ Accepts(q) \/ Streams(q) \/ Ends(q)
    BY <1>1, RequestMoves, OthersSame
  <1>2. CASE Around
    BY <1>2, AroundOwn DEF Same
  <1>3. ASSUME NEW r \in Replicas, Stop(r) PROVE Same(q)
    BY <1>3 DEF Stop, rows, Same
  <1>4. CASE UNCHANGED vars
    BY <1>4 DEF vars, rows, Same
  <1> QED
    BY <1>1, <1>2, <1>3, <1>4 DEF Next, Environment, Around

LEMMA AcceptsFresh ==
    ASSUME AllProgress, NEW q \in Requests, Accepts(q)
    PROVE  generation[q].status = "none"
  BY DEF AllProgress, Progress, Accepts, Accept, Unaccepted

-----------------------------------------------------------------------------
(* Retries *)

\* A generation that can be continued stays as it is.
LEMMA ContinuableStays ==
    ASSUME TypeOK, AllProgress, [Next]_vars, NEW q \in Requests, NEW p, MayContinue(q, p)
    PROVE  /\ MayContinue(q, p)' /\ p \in Requests
           /\ generation'[p].acceptedAt = generation[p].acceptedAt
  <1>1. /\ p \in Requests /\ ConversationOf[p] = ConversationOf[q]
        /\ generation[p].status \in {"cancelled", "failed"} /\ Continuable(p)
    BY DEF MayContinue, GenerationsOf, Continuable
  <1>2. Same(p)
    BY <1>1, StepMoves, AcceptsFresh DEF Streams, Ends, Active
  <1>3. Continuable(p)'
    BY <1>1, <1>2 DEF Same, Continuable
  <1>4. p \in GenerationsOf(ConversationOf[q])'
    BY <1>1, <1>2 DEF Same, GenerationsOf
  <1> QED
    BY <1>1, <1>2, <1>3, <1>4 DEF Same, MayContinue

\* The generation to continue is found by Lookup, and kept up to the stamp.
LEMMA PreviousKept ==
    ASSUME TypeOK, NEW q \in Requests, Lookup(q) \/ Proceed(q),
           pc'[q] \in {"checked", "reserved", "stamped"}
    PROVE  \/ Lookup(q) /\ pc'[q] = "checked" /\ (q \in Retries => MayContinue(q, job'[q].previous))
           \/ /\ pc[q] \in {"checked", "reserved"} /\ job'[q].previous = job[q].previous
              /\ pc'[q] = "stamped" => job'[q].now = Clock
  <1>1. /\ pc \in [Requests -> Phases] /\ job \in [Requests -> JobRecord] /\ job[q] \in JobRecord
    BY TypesFold DEF RequestTypes
  <1>2. CASE Lookup(q)
    <2> DEFINE c == ConversationOf[q]
    <2>1. pc'[q] = "checked"
      BY <1>1, <1>2 DEF Lookup, Goto
    <2>2. PICK p \in IF q \in Retries THEN {r \in LatestOf(c) : Continuable(r)} ELSE {NoRequest} :
              job' = [job EXCEPT ![q].actor = conversation[c].owner, ![q].previous = p]
      BY <1>1, <1>2, <2>1 DEF Lookup, Goto
    <2>3. job'[q].previous = p
      BY <1>1, <2>2 DEF JobRecord
    <2>4. q \in Retries => MayContinue(q, p)
      BY DEF LatestOf, MayContinue
    <2> QED
      BY <1>2, <2>1, <2>3, <2>4
  <1>3. CASE ReserveQuota(q)
    BY <1>1, <1>3 DEF ReserveQuota, Return, Goto
  <1>4. CASE BuildContext(q)
    <2>1. pc[q] = "reserved" /\ pc'[q] = "stamped" /\ job' = [job EXCEPT ![q].now = Clock]
      BY <1>1, <1>4 DEF BuildContext, Goto
    <2>2. job'[q].previous = job[q].previous /\ job'[q].now = Clock
      BY <1>1, <2>1 DEF JobRecord
    <2> QED
      BY <2>1, <2>2
  <1>5. CASE Accept(q) \/ RollBack(q) \/ Refund(q) \/ Acknowledge(q) \/ Register(q)
    BY <1>1, <1>5 DEF Accept, RollBack, Refund, Acknowledge, Register, Return, Goto
  <1>6. CASE MarkStreaming(q) \/ Connect(q) \/ ReceiveChunk(q) \/ EndStream(q)
    BY <1>1, <1>6 DEF MarkStreaming, Connect, ReceiveChunk, EndStream, Fail, Conclude, Goto
  <1>7. CASE FinalizeGeneration(q) \/ FinalizeMessage(q) \/ UnlockConversation(q)
               \/ SettleGeneration(q) \/ Unregister(q)
    BY <1>1, <1>7 DEF FinalizeGeneration, FinalizeMessage, UnlockConversation, SettleGeneration,
       Unregister, Return, Goto
  <1> QED
    BY <1>2, <1>3, <1>4, <1>5, <1>6, <1>7 DEF Proceed

LEMMA RetryInductive ==
    TypeOK /\ AllProgress /\ RetryKept /\ RetryContinues /\ [Next]_vars
        => RetryKept' /\ RetryContinues'
  <1> SUFFICES ASSUME TypeOK, AllProgress, RetryKept, RetryContinues, [Next]_vars,
                      NEW q \in Retries
               PROVE  /\ pc'[q] \in {"checked", "reserved", "stamped"} =>
                            MayContinue(q, job[q].previous)'
                      /\ pc'[q] = "stamped" =>
                            generation'[job'[q].previous].acceptedAt < job'[q].now
                      /\ generation'[q].status # "none" =>
                            /\ MayContinue(q, generation[q].parent)'
                            /\ generation'[generation'[q].parent].acceptedAt
                                  < generation'[q].acceptedAt
    BY DEF RetryKept, RetryContinues, MayContinue
  <1>1. q \in Requests
    BY RequestAssumption
  <1>2. /\ pc[q] \in {"checked", "reserved", "stamped"} => MayContinue(q, job[q].previous)
        /\ pc[q] = "stamped" => generation[job[q].previous].acceptedAt < job[q].now
        /\ generation[q].status # "none" =>
              /\ MayContinue(q, generation[q].parent)
              /\ generation[generation[q].parent].acceptedAt < generation[q].acceptedAt
    BY DEF RetryKept, RetryContinues, MayContinue
  <1>3. ASSUME NEW p, MayContinue(q, p)
        PROVE  /\ MayContinue(q, p)' /\ p \in Requests
               /\ generation'[p].acceptedAt = generation[p].acceptedAt
    BY <1>1, <1>3, ContinuableStays
  <1>4. generation'[q].status # "none" =>
            /\ MayContinue(q, generation[q].parent)'
            /\ generation'[generation'[q].parent].acceptedAt < generation'[q].acceptedAt
    <2>1. CASE Accepts(q)
      <3>1. pc[q] = "stamped"
        BY <2>1 DEF Accepts, Accept
      <3>0. PICK p : p = job[q].previous
        OBVIOUS
      <3>2. /\ MayContinue(q, p) /\ generation[p].acceptedAt < job[q].now
            /\ generation'[q].parent = p /\ generation'[q].acceptedAt = job[q].now
        BY <1>2, <2>1, <3>0, <3>1 DEF Accepts
      <3>3. MayContinue(q, p)' /\ generation'[p].acceptedAt = generation[p].acceptedAt
        BY <1>3, <3>2
      <3> QED
        BY <3>2, <3>3 DEF MayContinue
    <2>2. CASE Same(q) \/ Streams(q) \/ Ends(q)
      <3>1. CASE generation[q].status = "none"
        BY <2>2, <3>1 DEF Same, Streams, Ends, Active
      <3>2. CASE generation[q].status # "none"
        <4>0. PICK p : p = generation[q].parent
          OBVIOUS
        <4>1. /\ MayContinue(q, p) /\ generation[p].acceptedAt < generation[q].acceptedAt
          BY <1>2, <3>2, <4>0
        <4>2. generation'[q].parent = p /\ generation'[q].acceptedAt = generation[q].acceptedAt
          BY <2>2, <4>0 DEF Same, Streams, Ends
        <4>3. MayContinue(q, p)' /\ generation'[p].acceptedAt = generation[p].acceptedAt
          BY <1>3, <4>1
        <4> QED
          BY <4>1, <4>2, <4>3 DEF MayContinue
      <3> QED
        BY <3>1, <3>2
    <2> QED
      BY <1>1, <2>1, <2>2, StepMoves
  <1>5. ASSUME pc'[q] \in {"checked", "reserved", "stamped"}
        PROVE  /\ MayContinue(q, job[q].previous)'
               /\ pc'[q] = "stamped" => generation'[job'[q].previous].acceptedAt < job'[q].now
    <2>1. CASE pc'[q] = pc[q] /\ job'[q] = job[q]
      <3>0. PICK p : p = job[q].previous
        OBVIOUS
      <3>1. MayContinue(q, p) /\ (pc[q] = "stamped" => generation[p].acceptedAt < job[q].now)
        BY <1>2, <1>5, <2>1, <3>0
      <3>2. job'[q].previous = p
        BY <2>1, <3>0
      <3>3. MayContinue(q, p)' /\ generation'[p].acceptedAt = generation[p].acceptedAt
        BY <1>3, <3>1
      <3> QED
        BY <2>1, <3>1, <3>2, <3>3 DEF MayContinue
    <2>2. CASE Lookup(q) \/ Proceed(q)
      <3>0. PICK p : p = job'[q].previous
        OBVIOUS
      <3>1. /\ MayContinue(q, p)
            /\ pc'[q] = "stamped" => job'[q].now = Clock
        BY <1>1, <1>2, <1>5, <2>2, <3>0, PreviousKept
      <3>2. pc'[q] = "stamped" => generation[p].acceptedAt < job'[q].now
        BY <1>1, <3>1, ClockLater DEF MayContinue, GenerationsOf
      <3>3. MayContinue(q, p)' /\ generation'[p].acceptedAt = generation[p].acceptedAt
        BY <1>3, <3>1
      <3> QED
        BY <3>0, <3>2, <3>3 DEF MayContinue
    <2>3. ASSUME NEW r \in Requests \ {q}, Lookup(r) \/ Proceed(r)
          PROVE  pc'[q] = pc[q] /\ job'[q] = job[q]
      BY <1>1, <2>3, OthersSame
    <2>4. ASSUME NEW k \in Replicas, Stop(k)
          PROVE  pc'[q] = pc[q] /\ job'[q] = job[q]
      BY <1>1, <1>5, <2>4, StopShape DEF Crash
    <2>5. CASE Around \/ UNCHANGED vars
      BY <2>1, <2>5, AroundOwn DEF vars
    <2> QED
      BY <1>1, <2>1, <2>2, <2>3, <2>4, <2>5 DEF Next, Environment, Around
  <1> QED
    BY <1>4, <1>5

-----------------------------------------------------------------------------
(* The state of a conversation *)

\* A request becomes an active one beside another only by overtaking it.
LEMMA AloneKept ==
    ASSUME TypeOK, AllProgress, Alone, NEW x \in Requests, Lookup(x) \/ Proceed(x),
           NEW q \in Requests, NEW r \in Requests, q # r,
           ConversationOf[q] = ConversationOf[r], ConversationOf[q] \notin overtaken',
           generation'[q].status \in Active
    PROVE  pc'[r] \notin InFlightPhases \/ generation'[r].status = "none"
  <1> SUFFICES ASSUME pc'[r] \in InFlightPhases, generation'[r].status # "none"
               PROVE  FALSE
    OBVIOUS
  <1>1. overtaken \subseteq overtaken'
    BY RequestProcess
  <1>2. ~(generation[q].status \in Active /\ pc[r] \in InFlightPhases /\ generation[r].status # "none")
    BY <1>1 DEF Alone
  <1>3. CASE x = q
    <2>1. pc[r] \in InFlightPhases /\ generation[r].status # "none"
      BY <1>3, OthersSame
    <2>2. CASE Accepts(q)
      <3>1. r \in InFlight \ {q}
        BY <2>1 DEF InFlight
      <3>2. ConversationOf[q] \in overtaken'
        BY <2>1, <2>2, <3>1 DEF Accepts, Accept
      <3> QED
        BY <3>2
    <2>3. CASE Same(q) \/ Streams(q) \/ Ends(q)
      BY <1>2, <2>1, <2>3 DEF Same, Streams, Ends, Active, Terminal
    <2> QED
      BY <1>3, <2>2, <2>3, RequestMoves
  <1>4. CASE x = r
    <2>1. generation[q].status \in Active
      BY <1>4, OthersSame
    <2>2. ~Accepts(r)
      <3>1. Accept(r) => \A p \in GenerationsOf(ConversationOf[r]) : generation[p].status \notin Active
        BY DEF Accept
      <3>2. q \in GenerationsOf(ConversationOf[r])
        BY <2>1 DEF GenerationsOf, Active
      <3> QED
        BY <2>1, <3>1, <3>2 DEF Accepts
    <2>3. generation[r].status # "none"
      BY <1>4, <2>2, RequestMoves DEF Same, Streams, Ends, Active
    <2>4. pc[r] \in InFlightPhases
      <3>1. pc[r] # "checked"
        BY <2>3 DEF AllProgress, Progress, Unaccepted
      <3> QED
        BY <1>4, <3>1, RequestLease DEF Takes, Releases, Keeps
    <2> QED
      BY <1>2, <2>1, <2>3, <2>4
  <1>5. CASE x # q /\ x # r
    BY <1>2, <1>5, OthersSame
  <1> QED
    BY <1>3, <1>4, <1>5

LEMMA AloneInductive ==
    TypeOK /\ AllProgress /\ Alone /\ [Next]_vars => Alone'
  <1> SUFFICES ASSUME TypeOK, AllProgress, Alone, [Next]_vars,
                      NEW q \in Requests, NEW r \in Requests, q # r,
                      ConversationOf[q] = ConversationOf[r],
                      ConversationOf[q] \notin overtaken', generation'[q].status \in Active
               PROVE  pc'[r] \notin InFlightPhases \/ generation'[r].status = "none"
    BY DEF Alone
  <1>1. ASSUME NEW x \in Requests, Lookup(x) \/ Proceed(x)
        PROVE  pc'[r] \notin InFlightPhases \/ generation'[r].status = "none"
    BY <1>1, AloneKept
  <1>2. CASE Around \/ UNCHANGED vars
    <2>1. UNCHANGED <<generation, pc, overtaken>>
      BY <1>2, AroundOwn DEF vars, rows, history
    <2> QED
      BY <2>1 DEF Alone
  <1>3. ASSUME NEW k \in Replicas, Stop(k)
        PROVE  pc'[r] \notin InFlightPhases \/ generation'[r].status = "none"
    <2>1. UNCHANGED <<generation, overtaken>> /\ (pc'[r] = "crashed" \/ pc'[r] = pc[r])
      BY <1>3, StopShape DEF Crash
    <2> QED
      BY <2>1 DEF Alone, InFlightPhases
  <1> QED
    BY <1>1, <1>2, <1>3 DEF Next, Environment, Around

\* A request unlocks its own conversation when its generation has ended, and no other
\* generation of the conversation is active then.
LEMMA HonestKept ==
    ASSUME TypeOK, AllProgress, Alone, StateHonest,
           NEW x \in Requests, Lookup(x) \/ Proceed(x),
           NEW q \in Requests, q \notin faulty', generation'[q].status \in Active,
           ConversationOf[q] \notin overtaken'
    PROVE  conversation'[ConversationOf[q]].state # "idle" /\ ~conversation'[ConversationOf[q]].deleted
  <1> DEFINE c == ConversationOf[q]
  <1>1. /\ c \in Conversations /\ ConversationOf[x] \in Conversations
        /\ SharedTypes /\ conversation \in [Conversations -> ConversationRecord]
    BY RequestAssumption, TypesFold DEF SharedTypes
  <1>2. c \notin overtaken
    BY RequestProcess
  <1>3. CASE Accepts(q)
    <2>1. /\ conversation' = [conversation EXCEPT ![c].state = "accepted"]
          /\ ~conversation[c].deleted
      BY <1>3 DEF Accepts, Accept
    <2>2. conversation'[c].state = "accepted" /\ conversation'[c].deleted = conversation[c].deleted
      BY <1>1, <2>1, StateShape
    <2> QED
      BY <2>1, <2>2
  <1>4. CASE generation[q].status \in Active /\ q \notin faulty
    <2>1. conversation[c].state # "idle" /\ ~conversation[c].deleted
      BY <1>2, <1>4 DEF StateHonest
    <2>2. ASSUME NEW state, Writes(x, state)
          PROVE  conversation'[c].state # "idle" /\ ~conversation'[c].deleted
      <3>1. /\ conversation'[ConversationOf[x]].state = state
            /\ conversation'[ConversationOf[x]].deleted = conversation[ConversationOf[x]].deleted
            /\ \A d \in Conversations \ {ConversationOf[x]} : conversation'[d] = conversation[d]
        BY <1>1, <2>2, StateShape DEF Writes
      <3>2. CASE c = ConversationOf[x] /\ state = "idle"
        <4>1. UnlockConversation(x) /\ pc[x] = "unlocking" /\ generation' = generation
          BY <2>2, <3>2 DEF Writes, UnlockConversation
        <4>2. CASE x = q
          <5>1. Progress(q) /\ job[q].outcome \in Terminal
            BY <4>1, <4>2 DEF AllProgress, Progress
          <5>2. generation[q].status = job[q].outcome
            BY <1>4, <4>1, <4>2, <5>1 DEF Progress
          <5> QED
            BY <1>4, <5>1, <5>2 DEF Active, Terminal
        <4>3. CASE x # q
          <5>1. pc[x] \in InFlightPhases /\ generation[x].status # "none"
            BY <4>1 DEF InFlightPhases, AllProgress, Progress
          <5> QED
            BY <1>2, <1>4, <3>2, <4>3, <5>1 DEF Alone
        <4> QED
          BY <4>2, <4>3
      <3>3. CASE c = ConversationOf[x] /\ state # "idle"
        BY <2>1, <3>1, <3>3
      <3>4. CASE c # ConversationOf[x]
        BY <1>1, <2>1, <3>1, <3>4
      <3> QED
        BY <3>2, <3>3, <3>4
    <2>3. CASE conversation' = conversation
      BY <2>1, <2>3
    <2> QED
      BY <2>2, <2>3, RequestWrites
  <1>5. q \notin faulty
    BY FaultsStay
  <1>6. Accepts(q) \/ generation[q].status \in Active
    <2>1. CASE x = q
      BY <2>1, RequestMoves DEF Same, Streams, Ends, Active, Terminal
    <2>2. CASE x # q
      BY <2>2, OthersSame
    <2> QED
      BY <2>1, <2>2
  <1> QED
    BY <1>3, <1>4, <1>5, <1>6

LEMMA HonestInductive ==
    TypeOK /\ AllProgress /\ Alone /\ StateHonest /\ [Next]_vars => StateHonest'
  <1> SUFFICES ASSUME TypeOK, AllProgress, Alone, StateHonest, [Next]_vars,
                      NEW q \in Requests, q \notin faulty', generation'[q].status \in Active,
                      ConversationOf[q] \notin overtaken'
               PROVE  /\ conversation'[ConversationOf[q]].state # "idle"
                      /\ ~conversation'[ConversationOf[q]].deleted
    BY DEF StateHonest
  <1> DEFINE c == ConversationOf[q]
             Goal == conversation'[c].state # "idle" /\ ~conversation'[c].deleted
  <1>1. c \in Conversations /\ SharedTypes
    BY RequestAssumption, TypesFold
  <1>2. ASSUME NEW x \in Requests, Lookup(x) \/ Proceed(x)
        PROVE  Goal
    BY <1>2, HonestKept
  <1>3. ASSUME UNCHANGED <<generation, faulty, overtaken>>
        PROVE  conversation[c].state # "idle" /\ ~conversation[c].deleted
    BY <1>3 DEF StateHonest
  <1>4. CASE UNCHANGED <<conversation, generation, faulty, overtaken>>
    BY <1>3, <1>4
  <1>5. ASSUME NEW d \in Conversations, DeleteConversation(d)
        PROVE  Goal
    <2>1. UNCHANGED <<generation, faulty, overtaken>>
      BY <1>5 DEF DeleteConversation, history
    <2>2. d # c /\ conversation'[c] = conversation[c]
      BY <1>1, <1>3, <1>5, <2>1, DeleteTyped
    <2> QED
      BY <1>3, <2>1, <2>2
  <1>6. CASE MigrateGuest
    <2>1. UNCHANGED <<generation, faulty, overtaken>>
      BY <1>6 DEF MigrateGuest, history
    <2>2. /\ conversation'[c].state = conversation[c].state
          /\ conversation'[c].deleted = conversation[c].deleted
      BY <1>1, <1>6, MigrateTyped
    <2> QED
      BY <1>3, <2>1, <2>2
  <1>7. ASSUME NEW k \in Replicas, Stop(k)
        PROVE  UNCHANGED <<conversation, generation, faulty, overtaken>>
    BY <1>7, StopShape
  <1>8. CASE Around \/ UNCHANGED vars
    BY <1>4, <1>5, <1>6, <1>8 DEF Around, AcknowledgeCancel, Cancel, LeaseExpires,
       BeginShutdown, vars, history, process, rows
  <1> QED
    BY <1>2, <1>4, <1>7, <1>8 DEF Next, Environment, Around

-----------------------------------------------------------------------------
(* The invariant *)

LEMMA InitIInv == Init => IInv
  <1> SUFFICES ASSUME Init PROVE IInv
    OBVIOUS
  <1>1. /\ \A q \in Requests : generation[q].status = "none" /\ message[q].length = 0
        /\ \A q \in Requests : pc[q] = "idle" /\ job[q] = NoJob /\ reservation[q] = "none"
    BY DEF Init
  <1>2. RequestTypes
    BY ChunkAssumption, NoJobTyped DEF Init, RequestTypes, GenerationRecord, MessageRecord, Phases
  <1>3. SharedTypes
    BY DEF Init, SharedTypes, ConversationRecord, Actors
  <1>4. AllProgress
    BY <1>1 DEF AllProgress, Progress, NoJob, Unaccepted, Unstreamed, Running
  <1>5. LeaseHeld /\ Alone /\ StateHonest
    BY <1>1 DEF LeaseHeld, Alone, StateHonest, InFlight, InFlightPhases, Active
  <1>6. RetryKept /\ RetryContinues
    BY <1>1, RequestAssumption DEF RetryKept, RetryContinues
  <1> QED
    BY <1>2, <1>3, <1>4, <1>5, <1>6, TypesFold DEF IInv

LEMMA NextIInv == IInv /\ [Next]_vars => IInv'
  BY ProgressInductive, LeaseInductive, AloneInductive, HonestInductive, RetryInductive DEF IInv

LEMMA Invariant == Spec => []IInv
  BY InitIInv, NextIInv, PTL DEF Spec

\* Every variable keeps its type: in particular a message never has more text than its
\* provider sent, and every phase and local variable is one of the handler or goroutine.
THEOREM TypeCorrect == Spec => []TypeOK
  BY Invariant, PTL DEF IInv

\* Two requests of one conversation are past Reserve together only when one of them lost
\* its lease or its guest signed in (quota.Reserve, releaseLeaseScript).
THEOREM AlwaysOneAtATime == Spec => []OneAtATime
  <1>1. IInv => OneAtATime
    BY LeaseExcludes DEF IInv
  <1> QED
    BY <1>1, Invariant, PTL

\* The state of a conversation tells whether a generation is active, unless a request
\* overtook another (SetConversationGenerationState, SoftDeleteUserConversation).
THEOREM StateAlwaysHonest == Spec => []StateHonest
  BY Invariant, PTL DEF IInv

\* What a finished or refused request leaves in generations, messages, usage_ledger and
\* quota_reservations agrees (finish, fail, Settle).
THEOREM AlwaysSettled == Spec => []Settled
  <1>1. IInv => Settled
    <2> SUFFICES ASSUME IInv, NEW q \in Requests \ faulty
                 PROVE  /\ pc[q] \in {"leaving", "done"} =>
                              /\ <<generation[q].status, message[q].status>> \in
                                    {<<"completed", "complete">>, <<"cancelled", "cancelled">>,
                                     <<"failed", "failed">>}
                              /\ generation[q].offset = message[q].length
                              /\ q \in ledger /\ reservation[q] = "settled"
                        /\ pc[q] = "rejected" =>
                              generation[q].status = "none" /\ reservation[q] # "open"
      BY DEF Settled
    <2>1. Progress(q)
      BY DEF IInv, AllProgress
    <2>2. pc[q] = "rejected" => generation[q].status = "none" /\ reservation[q] # "open"
      BY <2>1 DEF Progress
    <2>3. ASSUME pc[q] \in {"leaving", "done"}
          PROVE  /\ \E outcome \in Terminal :
                       generation[q].status = outcome /\ message[q].status = MessageStatus(outcome)
                 /\ generation[q].offset = message[q].length
                 /\ q \in ledger /\ reservation[q] = "settled"
      BY <2>1, <2>3 DEF Progress
    <2> QED
      BY <2>2, <2>3 DEF Terminal, MessageStatus
  <1> QED
    BY <1>1, Invariant, PTL

\* A retry continues an earlier generation of its conversation that was cancelled or
\* failed retryably, although it was looked up before Reserve (Retry).
THEOREM RetryAlwaysContinues == Spec => []RetryContinues
  BY Invariant, PTL DEF IInv

-----------------------------------------------------------------------------
(* The lifecycle *)

\* Every step is a step of one generation in its lifecycle or leaves all of them alone.
LEMMA LifecycleStep == IInv /\ [Next]_vars => [Lifecycle!Next]_[q \in Requests |-> generation[q].status]
  <1> DEFINE status == [q \in Requests |-> generation[q].status]
  <1> SUFFICES ASSUME IInv, [Next]_vars
               PROVE  (\E q \in Requests :
                           Lifecycle!Start(q) \/ Lifecycle!Stream(q) \/ Lifecycle!End(q))
                      \/ status' = status
    BY DEF Lifecycle!Next
  <1>1. TypeOK /\ AllProgress /\ RetryKept
    BY DEF IInv
  <1>2. ASSUME \A q \in Requests : generation'[q].status = generation[q].status
        PROVE  status' = status
    BY <1>2
  <1>3. ASSUME NEW q \in Requests, Lookup(q) \/ Proceed(q)
        PROVE  Lifecycle!Start(q) \/ Lifecycle!Stream(q) \/ Lifecycle!End(q) \/ status' = status
    <2>1. \A r \in Requests \ {q} : generation'[r].status = generation[r].status
      BY <1>1, <1>3, OthersSame DEF Same
    <2>2. status' = [status EXCEPT ![q] = generation'[q].status]
      BY <2>1
    <2>3. CASE Same(q)
      BY <1>2, <2>1, <2>3 DEF Same
    <2>4. CASE Accepts(q)
      <3>1. generation[q].status = "none" /\ generation'[q].status = "accepted" /\ Accept(q)
        BY <1>1, <2>4, AcceptsFresh DEF Accepts
      <3>2. ASSUME NEW r \in Requests, ConversationOf[r] = ConversationOf[q]
            PROVE  /\ generation[r].status \notin Active
                   /\ KeyOf[r] = KeyOf[q] => generation[r].status = "none"
        <4>1. CASE generation[r].status = "none"
          BY <4>1 DEF Active
        <4>2. CASE generation[r].status # "none"
          <5>1. r \in GenerationsOf(ConversationOf[q])
            BY <3>2, <4>2 DEF GenerationsOf
          <5> QED
            BY <3>1, <5>1 DEF Accept, Duplicate
        <4> QED
          BY <4>1, <4>2
      <3>3. q \in Retries => \E r \in Requests :
                ConversationOf[r] = ConversationOf[q] /\ generation[r].status \in {"cancelled", "failed"}
        <4>1. q \in Retries => MayContinue(q, job[q].previous)
          BY <1>1, <3>1 DEF Accept, RetryKept
        <4> QED
          BY <4>1 DEF MayContinue, GenerationsOf, Continuable
      <3>4. Lifecycle!Start(q)
        BY <2>2, <3>1, <3>2, <3>3 DEF Lifecycle!Start, Lifecycle!Active, Active
      <3> QED
        BY <3>4
    <2>5. CASE Streams(q)
      BY <2>2, <2>5 DEF Streams, Lifecycle!Stream
    <2>6. CASE Ends(q)
      <3>1. \/ generation'[q].status = "failed"
            \/ generation[q].status = "streaming" /\ generation'[q].status \in {"completed", "cancelled"}
        BY <2>6 DEF Ends, Active, Terminal
      <3>2. generation[q].status \in Active
        BY <2>6 DEF Ends
      <3> QED
        BY <2>2, <3>1, <3>2 DEF Lifecycle!End, Lifecycle!Active, Active
    <2> QED
      BY <1>1, <1>3, <2>3, <2>4, <2>5, <2>6, RequestMoves
  <1>4. CASE UNCHANGED generation
    BY <1>2, <1>4
  <1>5. ASSUME NEW r \in Replicas, Stop(r) PROVE UNCHANGED generation
    BY <1>5 DEF Stop, rows
  <1>6. CASE Around \/ UNCHANGED vars
    BY <1>4, <1>6, AroundOwn DEF vars, rows
  <1> QED
    BY <1>3, <1>4, <1>5, <1>6 DEF Next, Environment, Around

\* The handlers, goroutines, cancels, deletions, expiries and crashes together go through
\* the states of generations.status as GenerationLifecycle allows.
THEOREM RefinesLifecycle == Spec => ImplementsLifecycle
  <1>1. Init => Lifecycle!Init
    BY DEF Init, Lifecycle!Init
  <1> QED
    BY <1>1, LifecycleStep, Invariant, PTL DEF Spec, ImplementsLifecycle, Lifecycle!Spec

==============================================================================
