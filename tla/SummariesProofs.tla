--------------------------- MODULE SummariesProofs ---------------------------
(***************************************************************************)
(* Proofs about Summaries: the types, and that summaries join without gap  *)
(* or overlap and leave no message out, for any number of requests, lost   *)
(* locks, lapsed leases and processes that die.                            *)
(***************************************************************************)
EXTENDS Summaries, TLAPS, SequenceTheorems

MessageRecord == [role : {"user", "assistant"}, status : {"pending", "complete", "failed"}]

SummaryRecord == [from : Nat \ {0}, through : Nat \ {0}, transcript : SUBSET Nat]

TurnRecord == [pc : Places, kind : {"message", "retry"}, covered : SUBSET Nat,
               through : Nat, from : Nat, version : Nat, message : Nat,
               end : {"none", "completed", "failed"}]

Types ==
    /\ messages \in Seq(MessageRecord)
    /\ {generating, lease, summaryLock} \subseteq Requests \cup {NoRequest}
    /\ lastEnd \in {"none", "completed", "failed"}
    /\ summaries \in Seq(SummaryRecord)
    /\ turn \in [Requests -> {NoTurn, Over} \cup TurnRecord]
    /\ lapsed \in BOOLEAN /\ faults \in 0..MaxFaults

\* Between Reserve and Settle a request relies on the lease.
Holding == Places \ {"arrived"}

\* It has read the messages and not written its summary yet.
Reading == {"overflowed", "locked", "summarizing"}

\* The messages a summary through the given one has to cover.
Needed(through) == {i \in ContextMessages : i <= through}

\* What a request read remains true: the next version starts after the latest summary, or
\* somebody else took it; nothing it covers changes, and its own message stays ahead of all
\* summaries, unless a lease lapsed.
TurnSound(t) ==
    /\ t \in TurnRecord => t.covered \subseteq DOMAIN messages
    /\ t.pc \in Reading => t.through \in DOMAIN messages
    /\ t.pc = "summarizing" =>
         /\ t.version <= Len(summaries) + 1
         /\ 1 <= t.from /\ t.from <= t.through
         /\ t.version = Len(summaries) + 1 => t.from = SummarizedThrough + 1
    /\ t.pc \in {"streaming", "ended"} => t.message \in DOMAIN messages
    /\ ~lapsed /\ t.pc \in Reading => t.covered = Needed(t.through)
    /\ ~lapsed /\ t.pc \in {"streaming", "ended"} => t.message > SummarizedThrough

SummariesOfMessages == \A v \in DOMAIN summaries :
    summaries[v].through \in DOMAIN messages /\ summaries[v].transcript \subseteq DOMAIN messages

Holders == ~lapsed => \A r \in Requests : turn[r].pc \in Holding => lease = r

IInv ==
    /\ Types
    /\ SummariesOfMessages
    /\ \A r \in Requests : TurnSound(turn[r])
    /\ Holders
    /\ Contiguous
    /\ NothingLeftBehind

LEMMA ThroughType ==
    ASSUME Types, SummariesOfMessages
    PROVE  /\ SummarizedThrough \in Nat /\ SummarizedThrough <= Len(messages)
           /\ Len(messages) \in Nat /\ DOMAIN messages = 1..Len(messages)
           /\ ContextMessages \subseteq DOMAIN messages
  <1>1. Len(messages) \in Nat /\ DOMAIN messages = 1..Len(messages)
    BY DEF Types
  <1>2. CASE summaries = <<>>
    BY <1>1, <1>2 DEF SummarizedThrough, ContextMessages
  <1>3. CASE summaries # <<>>
    <2>1. Len(summaries) \in DOMAIN summaries
      BY <1>3 DEF Types
    <2> QED
      BY <1>1, <1>3, <2>1 DEF SummarizedThrough, Newest, SummariesOfMessages, ContextMessages
  <1> QED
    BY <1>2, <1>3

LEMMA InitIInv == Init => IInv
  <1> SUFFICES ASSUME Init PROVE IInv
    OBVIOUS
  <1>1. Types
    <2>1. turn \in [Requests -> {NoTurn, Over} \cup TurnRecord]
      BY DEF Init
    <2>2. messages \in Seq(MessageRecord) /\ summaries \in Seq(SummaryRecord)
      BY DEF Init
    <2>3. lapsed \in BOOLEAN
      BY DEF Init
    <2>4. {generating, lease, summaryLock} \subseteq Requests \cup {NoRequest} /\ lastEnd = "none"
      BY DEF Init
    <2>5. faults \in 0..MaxFaults
      BY RequestsAssumption DEF Init
    <2> QED
      BY <2>1, <2>2, <2>3, <2>4, <2>5 DEF Types
  <1>2. \A r \in Requests : turn[r] = NoTurn /\ turn[r].pc = "idle"
    BY DEF Init, NoTurn
  <1>3. NoTurn \notin TurnRecord
    BY DEF NoTurn, TurnRecord, Places
  <1>4. \A r \in Requests : TurnSound(turn[r])
    BY <1>2, <1>3 DEF TurnSound, Reading
  <1>5. Holders
    BY <1>2 DEF Holders, Holding, Places
  <1>6. SummariesOfMessages /\ Contiguous /\ NothingLeftBehind
    BY DEF Init, SummariesOfMessages, Contiguous, NothingLeftBehind, ContextMessages
  <1> QED
    BY <1>1, <1>4, <1>5, <1>6 DEF IInv

-----------------------------------------------------------------------------
(* Steps that write neither messages nor summaries *)

LEMMA RowsSame ==
    ASSUME UNCHANGED <<messages, summaries>>
    PROVE  /\ ContextMessages' = ContextMessages
           /\ SummarizedThrough' = SummarizedThrough
           /\ \A n : Needed(n)' = Needed(n)
  BY DEF ContextMessages, SummarizedThrough, Newest, Needed

LEMMA QuietStep ==
    ASSUME IInv, UNCHANGED <<messages, summaries, lapsed>>, NEW r \in Requests,
           NEW new \in {NoTurn, Over} \cup TurnRecord, TurnSound(new),
           turn' = [turn EXCEPT ![r] = new],
           new.pc \in Holding => lease' = r \/ (lease' = lease /\ turn[r].pc \in Holding),
           lease' = lease \/ lease \in {r, NoRequest},
           {generating', lease', summaryLock'} \subseteq Requests \cup {NoRequest},
           lastEnd' \in {"none", "completed", "failed"}, faults' \in 0..MaxFaults
    PROVE  IInv'
  <1> USE DEF IInv
  <1>1. turn'[r] = new /\ \A q \in Requests : q # r => turn'[q] = turn[q]
    BY DEF Types
  <1>2. Types'
    BY DEF Types
  <1>3. \A t : TurnSound(t)' <=> TurnSound(t)
    BY RowsSame DEF TurnSound
  <1>4. \A q \in Requests : TurnSound(turn[q])'
    <2>1. \A q \in Requests : TurnSound(turn'[q])
      BY <1>1
    <2> QED
      BY <2>1, RowsSame DEF TurnSound
  <1>5. Holders'
    BY <1>1, RequestsAssumption DEF Holders
  <1>6. SummariesOfMessages' /\ Contiguous' /\ NothingLeftBehind'
    BY RowsSame DEF SummariesOfMessages, Contiguous, NothingLeftBehind
  <1> QED
    BY <1>2, <1>4, <1>5, <1>6

\* A turn that is over or not begun, or waits for nothing it has read.
LEMMA PlainTurn ==
    ASSUME Types, NEW t \in {NoTurn, Over} \cup TurnRecord,
           t \in TurnRecord => t.covered \subseteq DOMAIN messages,
           t.pc \notin Reading \cup {"streaming", "ended"}
    PROVE  TurnSound(t)
  BY DEF TurnSound, Reading

LEMMA TurnIsRecord ==
    ASSUME IInv, NEW r \in Requests, turn[r].pc \notin {"idle", "done"}
    PROVE  turn[r] \in TurnRecord /\ TurnSound(turn[r]) /\ turn[r].covered \subseteq DOMAIN messages
  <1>1. turn[r] # NoTurn /\ turn[r] # Over
    BY DEF NoTurn, Over
  <1>2. turn[r] \in TurnRecord /\ TurnSound(turn[r])
    BY <1>1 DEF IInv, Types
  <1> QED
    BY <1>2 DEF TurnSound

LEMMA OverFacts == Over.pc = "done" /\ Over.pc \notin Holding /\ Over \notin TurnRecord
  BY DEF Over, Holding, Places, TurnRecord

LEMMA LeaseFacts ==
    ASSUME Types, NEW r \in Requests
    PROVE  /\ Release(r) => lease' \in Requests \cup {NoRequest} /\ (lease' = lease \/ lease = r)
           /\ Unlock(r) => summaryLock' \in Requests \cup {NoRequest}
  BY DEF Types, Release, Unlock

\* A request ends: its turn is over, and the lease is given back or left behind.
LEMMA OverStep ==
    ASSUME IInv, UNCHANGED <<messages, summaries, lapsed>>, NEW r \in Requests,
           turn' = [turn EXCEPT ![r] = Over],
           lease' = lease \/ lease = r,
           {generating', lease', summaryLock'} \subseteq Requests \cup {NoRequest},
           lastEnd' \in {"none", "completed", "failed"}, faults' \in 0..MaxFaults
    PROVE  IInv'
  <1>1. Types /\ Over \in {NoTurn, Over} \cup TurnRecord
    BY DEF IInv
  <1>2. Over.pc \notin Reading \cup {"streaming", "ended"}
    BY OverFacts DEF Reading
  <1>3. TurnSound(Over)
    BY <1>1, <1>2, OverFacts, PlainTurn
  <1> QED
    BY <1>1, <1>3, OverFacts, QuietStep

LEMMA ArriveStep ==
    ASSUME IInv, NEW r \in Requests, NEW kind \in {"message", "retry"}, Arrive(r, kind)
    PROVE  IInv'
  <1> DEFINE new == [pc |-> "arrived", kind |-> kind, covered |-> {}, through |-> 0,
                     from |-> 0, version |-> 0, message |-> 0, end |-> "none"]
  <1>1. /\ new \in TurnRecord /\ new.pc = "arrived" /\ new.covered = {}
        /\ turn' = [turn EXCEPT ![r] = new]
    BY DEF Arrive, TurnRecord, Places
  <1> HIDE DEF new
  <1>2. new.pc \notin Holding /\ new.pc \notin Reading \cup {"streaming", "ended"}
    BY <1>1 DEF Holding, Reading
  <1>3. Types
    BY DEF IInv
  <1>4. TurnSound(new)
    BY <1>1, <1>2, <1>3, PlainTurn
  <1> QED
    BY <1>1, <1>2, <1>3, <1>4, QuietStep DEF Arrive, Types

\* The turn goes on to a place where it needs nothing of what it read.
LEMMA GoFacts ==
    ASSUME IInv, NEW r \in Requests, turn[r].pc \notin {"idle", "done"}, NEW place \in Places,
           place \notin Reading \cup {"streaming", "ended"}
    PROVE  LET new == [turn[r] EXCEPT !.pc = place] IN
           /\ new \in TurnRecord /\ new.pc = place /\ TurnSound(new)
  <1> DEFINE new == [turn[r] EXCEPT !.pc = place]
  <1>1. turn[r] \in TurnRecord /\ turn[r].covered \subseteq DOMAIN messages
    BY TurnIsRecord
  <1>2. new \in TurnRecord /\ new.pc = place /\ new.covered = turn[r].covered
    BY <1>1 DEF TurnRecord
  <1> HIDE DEF new
  <1>3. TurnSound(new)
    BY <1>1, <1>2, PlainTurn DEF IInv
  <1> QED
    BY <1>2, <1>3 DEF new

LEMMA BuiltFacts ==
    ASSUME IInv, NEW r \in Requests, turn[r].pc \notin {"idle", "done"}
    PROVE  LET new == [turn[r] EXCEPT !.pc = "built", !.covered = {}, !.through = 0,
                                      !.from = 0, !.version = 0] IN
           /\ new \in TurnRecord /\ new.pc = "built" /\ TurnSound(new)
  <1> DEFINE new == [turn[r] EXCEPT !.pc = "built", !.covered = {}, !.through = 0,
                                    !.from = 0, !.version = 0]
  <1>1. turn[r] \in TurnRecord
    BY TurnIsRecord
  <1>2. new \in TurnRecord /\ new.pc = "built" /\ new.covered = {}
    BY <1>1 DEF TurnRecord, Places
  <1> HIDE DEF new
  <1>3. TurnSound(new)
    BY <1>2, PlainTurn DEF IInv, Reading
  <1> QED
    BY <1>2, <1>3 DEF new

LEMMA ReserveStep ==
    ASSUME IInv, NEW r \in Requests, Reserve(r)
    PROVE  IInv'
  <1> DEFINE new == [turn[r] EXCEPT !.pc = "reserved"]
  <1>1. turn[r].pc = "arrived" /\ Types
    BY DEF Reserve, IInv
  <1>2. CASE lease = NoRequest
    <2>1. new \in TurnRecord /\ new.pc = "reserved" /\ TurnSound(new)
      BY <1>1, GoFacts DEF Places, Reading
    <2>2. lease' = r /\ turn' = [turn EXCEPT ![r] = new]
      BY <1>2 DEF Reserve, Go
    <2> HIDE DEF new
    <2> QED
      BY <1>1, <1>2, <2>1, <2>2, QuietStep DEF Reserve, Types
  <1>3. CASE lease # NoRequest
    <2>1. lease' = lease /\ turn' = [turn EXCEPT ![r] = Over]
      BY <1>3 DEF Reserve, Go
    <2> QED
      BY <1>1, <2>1, OverStep DEF Reserve, Types
  <1> QED
    BY <1>2, <1>3

LEMMA ReadMessagesStep ==
    ASSUME IInv, NEW r \in Requests, ReadMessages(r)
    PROVE  IInv'
  <1>1. turn[r].pc = "reserved" /\ Types /\ turn[r].pc \in Holding
    BY DEF ReadMessages, IInv, Holding, Places
  <1>2. CASE Go(r, "built")
    <2> DEFINE new == [turn[r] EXCEPT !.pc = "built"]
    <2>1. new \in TurnRecord /\ new.pc = "built" /\ TurnSound(new)
      BY <1>1, GoFacts DEF Places, Reading
    <2>2. turn' = [turn EXCEPT ![r] = new]
      BY <1>2 DEF Go
    <2> HIDE DEF new
    <2> QED
      BY <1>1, <2>1, <2>2, QuietStep DEF ReadMessages, Types
  <1>3. ASSUME NEW last \in ContextMessages,
               turn' = [turn EXCEPT ![r].pc = "overflowed", ![r].through = last,
                                    ![r].covered = {i \in ContextMessages : i <= last}]
        PROVE  IInv'
    <2> DEFINE new == [turn[r] EXCEPT !.pc = "overflowed", !.through = last,
                                      !.covered = Needed(last)]
    <2>1. turn' = [turn EXCEPT ![r] = new]
      BY <1>1, <1>3 DEF Types, Needed
    <2>2. turn[r] \in TurnRecord
      BY <1>1, TurnIsRecord
    <2>3. ContextMessages \subseteq DOMAIN messages /\ DOMAIN messages \subseteq Nat
      BY ThroughType DEF IInv
    <2>4. Needed(last) \subseteq DOMAIN messages /\ last \in DOMAIN messages
      BY <2>3 DEF Needed
    <2>5. /\ new \in TurnRecord /\ new.pc = "overflowed" /\ new.through = last
          /\ new.covered = Needed(last)
      BY <2>2, <2>3, <2>4 DEF TurnRecord, Places
    <2> HIDE DEF new
    <2>6. TurnSound(new)
      BY <2>4, <2>5 DEF TurnSound
    <2> QED
      BY <1>1, <2>1, <2>5, <2>6, QuietStep DEF ReadMessages, Types
  <1> QED
    BY <1>2, <1>3 DEF ReadMessages

LEMMA TryLockStep ==
    ASSUME IInv, NEW r \in Requests, TryLock(r)
    PROVE  IInv'
  <1>1. turn[r].pc = "overflowed" /\ Types /\ turn[r].pc \in Holding
    BY DEF TryLock, IInv, Holding, Places
  <1>2. CASE summaryLock' = r /\ Go(r, "locked")
    <2> DEFINE new == [turn[r] EXCEPT !.pc = "locked"]
    <2>1. turn[r] \in TurnRecord /\ TurnSound(turn[r])
      BY <1>1, TurnIsRecord
    <2>2. /\ new \in TurnRecord /\ new.pc = "locked" /\ new.covered = turn[r].covered
          /\ new.through = turn[r].through
      BY <2>1 DEF TurnRecord, Places
    <2>3. turn' = [turn EXCEPT ![r] = new]
      BY <1>2 DEF Go
    <2> HIDE DEF new
    <2>4. TurnSound(new)
      BY <1>1, <2>1, <2>2 DEF TurnSound, Reading
    <2> QED
      BY <1>1, <1>2, <2>2, <2>3, <2>4, QuietStep DEF TryLock, Types
  <1>3. CASE Built(r) /\ UNCHANGED summaryLock
    <2> DEFINE new == [turn[r] EXCEPT !.pc = "built", !.covered = {}, !.through = 0,
                                      !.from = 0, !.version = 0]
    <2>1. new \in TurnRecord /\ new.pc = "built" /\ TurnSound(new)
      BY <1>1, BuiltFacts
    <2>2. turn' = [turn EXCEPT ![r] = new]
      BY <1>3 DEF Built
    <2> HIDE DEF new
    <2> QED
      BY <1>1, <1>3, <2>1, <2>2, QuietStep DEF TryLock, Types
  <1> QED
    BY <1>2, <1>3 DEF TryLock

LEMMA ReadLatestStep ==
    ASSUME IInv, NEW r \in Requests, ReadLatest(r)
    PROVE  IInv'
  <1>1. turn[r].pc = "locked" /\ Types /\ turn[r].pc \in Holding
    BY DEF ReadLatest, IInv, Holding, Places
  <1>2. turn[r] \in TurnRecord /\ TurnSound(turn[r])
    BY <1>1, TurnIsRecord
  <1>3. SummarizedThrough \in Nat /\ Len(summaries) \in Nat
    BY <1>1, ThroughType DEF IInv, Types
  <1>4. CASE SummarizedThrough >= turn[r].through
    <2> DEFINE new == [turn[r] EXCEPT !.pc = "built", !.covered = {}, !.through = 0,
                                      !.from = 0, !.version = 0]
    <2>1. new \in TurnRecord /\ new.pc = "built" /\ TurnSound(new)
      BY <1>1, BuiltFacts
    <2>2. turn' = [turn EXCEPT ![r] = new] /\ Unlock(r)
      BY <1>4 DEF ReadLatest, Built
    <2> HIDE DEF new
    <2> QED
      BY <1>1, <2>1, <2>2, LeaseFacts, QuietStep DEF ReadLatest, Types
  <1>5. CASE ~(SummarizedThrough >= turn[r].through)
    <2> DEFINE version == Len(summaries) + 1
               from == SummarizedThrough + 1
               new == [turn[r] EXCEPT !.pc = "summarizing", !.version = version, !.from = from]
    <2>1. turn' = [turn EXCEPT ![r] = new] /\ UNCHANGED summaryLock
      BY <1>1, <1>5 DEF ReadLatest, Types
    <2>5. version \in Nat /\ from \in Nat /\ version = Len(summaries) + 1 /\ from = SummarizedThrough + 1
      BY <1>3
    <2> HIDE DEF version, from
    <2>2. /\ new \in TurnRecord /\ new.pc = "summarizing" /\ new.covered = turn[r].covered
          /\ new.through = turn[r].through /\ new.from = SummarizedThrough + 1
          /\ new.version = Len(summaries) + 1
      BY <1>2, <2>5 DEF TurnRecord, Places
    <2> HIDE DEF new
    <2>3. turn[r].through \in Nat
      BY <1>2 DEF TurnRecord
    <2>4. TurnSound(new)
      BY <1>1, <1>2, <1>3, <1>5, <2>2, <2>3 DEF TurnSound, Reading
    <2> QED
      BY <1>1, <2>1, <2>2, <2>4, QuietStep DEF ReadLatest, Types
  <1> QED
    BY <1>4, <1>5

LEMMA EndSteps ==
    ASSUME IInv, NEW r \in Requests, Refuse(r) \/ Settle(r) \/ Crash(r)
    PROVE  IInv'
  <1>1. Types
    BY DEF IInv
  <1>2. turn' = [turn EXCEPT ![r] = Over]
    BY DEF Refuse, Settle, Crash, Go
  <1>3. lease' = lease \/ lease = r
    BY DEF Refuse, Settle, Crash, Release
  <1>4. {generating', lease', summaryLock'} \subseteq Requests \cup {NoRequest}
    BY <1>1, LeaseFacts DEF Refuse, Settle, Crash, Types
  <1>5. faults' \in 0..MaxFaults /\ lastEnd' = lastEnd
    BY <1>1, RequestsAssumption DEF Refuse, Settle, Crash, Fault, Types
  <1>6. UNCHANGED <<messages, summaries, lapsed>>
    BY DEF Refuse, Settle, Crash
  <1> QED
    BY <1>1, <1>2, <1>3, <1>4, <1>5, <1>6, OverStep DEF Types

LEMMA FinalizeGenerationStep ==
    ASSUME IInv, NEW r \in Requests, NEW end \in {"completed", "failed"}, FinalizeGeneration(r, end)
    PROVE  IInv'
  <1> DEFINE new == [turn[r] EXCEPT !.pc = "ended", !.end = end]
  <1>1. turn[r].pc = "streaming" /\ Types /\ turn[r].pc \in Holding
    BY DEF FinalizeGeneration, IInv, Holding, Places
  <1>2. turn[r] \in TurnRecord /\ TurnSound(turn[r])
    BY <1>1, TurnIsRecord
  <1>3. /\ new \in TurnRecord /\ new.pc = "ended" /\ new.covered = turn[r].covered
        /\ new.message = turn[r].message
    BY <1>2 DEF TurnRecord, Places
  <1>4. turn' = [turn EXCEPT ![r] = new]
    BY <1>1 DEF FinalizeGeneration, Types
  <1> HIDE DEF new
  <1>5. TurnSound(new)
    BY <1>1, <1>2, <1>3 DEF TurnSound, Reading
  <1> QED
    BY <1>1, <1>3, <1>4, <1>5, QuietStep DEF FinalizeGeneration, Types

\* When the lease of a request at work lapses, nothing about leases is promised any more.
LEMMA FaultStep ==
    ASSUME IInv, LeaseLapses \/ LockLost
    PROVE  IInv'
  <1> USE DEF IInv
  <1>1. UNCHANGED <<messages, summaries, turn>> /\ faults' \in 0..MaxFaults
    BY RequestsAssumption DEF LeaseLapses, LockLost, Fault, Types
  <1>2. lapsed' \in BOOLEAN /\ (~lapsed' => ~lapsed)
    BY DEF LeaseLapses, LockLost, Types
  <1>3. lease' \in Requests \cup {NoRequest} /\ summaryLock' \in Requests \cup {NoRequest}
    BY DEF LeaseLapses, LockLost, Types
  <1>4. Types'
    BY <1>1, <1>2, <1>3 DEF LeaseLapses, LockLost, Types
  <1>5. \A q \in Requests : TurnSound(turn[q])'
    BY <1>1, <1>2, RowsSame DEF TurnSound
  <1>6. Holders'
    <2> SUFFICES ASSUME ~lapsed', NEW q \in Requests, turn[q].pc \in Holding
                 PROVE  lease' = q
      BY <1>1 DEF Holders
    <2>1. lease = q /\ turn[q].pc # "done"
      BY <1>2 DEF Holders, Holding, Places
    <2> QED
      BY <2>1 DEF LeaseLapses, LockLost
  <1>7. SummariesOfMessages' /\ Contiguous' /\ NothingLeftBehind'
    BY <1>1, <1>2, RowsSame DEF SummariesOfMessages, Contiguous, NothingLeftBehind
  <1> QED
    BY <1>4, <1>5, <1>6, <1>7

-----------------------------------------------------------------------------
(* A summary is written *)

\* Only the next version can be inserted, so its range continues the latest one; and the
\* messages that became complete since they were read are all ahead of it.
LEMMA InsertStep ==
    ASSUME IInv, NEW r \in Requests, Summarize(r), InsertSummary(r)
    PROVE  IInv'
  <1> USE DEF IInv
  <1> DEFINE t == turn[r]
             n == Len(summaries) + 1
             s == Summary(r)
             new == [turn[r] EXCEPT !.pc = "built", !.covered = {}, !.through = 0,
                                    !.from = 0, !.version = 0]
  <1>1. t.pc = "summarizing" /\ t.pc \in Holding /\ t.pc \in Reading
    BY DEF Summarize, Holding, Places, Reading
  <1>2. t \in TurnRecord /\ TurnSound(t) /\ t.covered \subseteq DOMAIN messages
    BY <1>1, TurnIsRecord
  <1>3. /\ t.through \in DOMAIN messages /\ t.version = n /\ t.from = SummarizedThrough + 1
        /\ 1 <= t.from /\ t.from <= t.through /\ t.from \in Nat /\ t.through \in Nat
        /\ t.covered \subseteq Nat
        /\ ~lapsed => t.covered = Needed(t.through)
    BY <1>1, <1>2 DEF TurnSound, InsertSummary, TurnRecord
  <1>4. /\ SummarizedThrough \in Nat /\ Len(messages) \in Nat
        /\ DOMAIN messages = 1..Len(messages) /\ ContextMessages \subseteq DOMAIN messages
        /\ SummarizedThrough <= Len(messages)
    BY ThroughType
  <1>5. /\ s.from = t.from /\ s.through = t.through
        /\ s.transcript = {i \in t.covered : i >= t.from}
        /\ s.transcript \subseteq DOMAIN messages /\ s \in SummaryRecord
    BY <1>2, <1>3 DEF Summary, SummaryRecord
  <1>6. summaries' = Append(summaries, s) /\ messages' = messages /\ lapsed' = lapsed
    BY DEF InsertSummary, Summarize
  <1>7. new \in TurnRecord /\ new.pc = "built" /\ new.covered = {}
    BY <1>2 DEF TurnRecord, Places
  <1>8. turn' = [turn EXCEPT ![r] = new] /\ lease' = lease /\ Unlock(r)
    BY DEF Summarize, Built
  <1> HIDE DEF new, s
  <1>9. /\ summaries' \in Seq(SummaryRecord) /\ Len(summaries') = n /\ n \in Nat \ {0}
        /\ DOMAIN summaries = 1..Len(summaries) /\ DOMAIN summaries' = 1..n
        /\ Len(summaries) \in Nat /\ summaries'[n] = s
        /\ \A v \in DOMAIN summaries : summaries'[v] = summaries[v]
        /\ summaries' # <<>>
    BY <1>5, <1>6 DEF Types
  <1>10. SummarizedThrough' = t.through
    BY <1>5, <1>9 DEF SummarizedThrough, Newest
  <1>11. ContextMessages' = ContextMessages /\ \A i : Needed(i)' = Needed(i)
    BY <1>6 DEF ContextMessages, Needed
  <1>12. turn'[r] = new /\ \A q \in Requests : q # r => turn'[q] = turn[q]
    BY <1>8 DEF Types
  <1>13. Types'
    <2>1. turn' \in [Requests -> {NoTurn, Over} \cup TurnRecord]
      BY <1>7, <1>8 DEF Types
    <2>2. summaryLock' \in Requests \cup {NoRequest}
      BY <1>8, LeaseFacts
    <2> QED
      BY <1>6, <1>8, <1>9, <2>1, <2>2 DEF Types, Summarize
  <1>14. SummariesOfMessages'
    BY <1>3, <1>5, <1>6, <1>9 DEF SummariesOfMessages
  <1>15. ASSUME NEW q \in Requests PROVE TurnSound(turn[q])'
    <2>1. CASE q = r
      BY <2>1, <1>7, <1>12 DEF TurnSound, Reading
    <2>2. CASE q # r
      <3>1. turn'[q] = turn[q] /\ TurnSound(turn[q])
        BY <2>2, <1>12
      <3>2. ~lapsed => turn[q].pc \notin Holding
        BY <2>2, <1>1 DEF Holders
      <3>3. turn[q].pc = "summarizing" => turn[q] \in TurnRecord /\ turn[q].version \in Nat
        BY TurnIsRecord DEF TurnRecord
      <3>4. turn[q].pc = "summarizing" => turn[q].version < n + 1
        BY <3>1, <3>3, <1>9 DEF TurnSound
      <3>5. ~lapsed => turn[q].pc \notin Reading \cup {"streaming", "ended"}
        BY <3>2 DEF Holding, Places, Reading
      <3>6. turn[q].pc = "summarizing" => /\ turn[q].version <= n + 1 /\ turn[q].version # n + 1
        BY <3>3, <3>4, <1>9
      <3> QED
        BY <3>1, <3>5, <3>6, <1>6, <1>9 DEF TurnSound
    <2> QED
      BY <2>1, <2>2
  <1>16. Holders'
    BY <1>1, <1>6, <1>8, <1>12 DEF Holders
  <1>17. Contiguous'
    <2> SUFFICES ASSUME NEW v \in 1..n
                 PROVE  /\ summaries'[v].from = (IF v = 1 THEN 1 ELSE summaries'[v - 1].through + 1)
                        /\ summaries'[v].from <= summaries'[v].through
      BY <1>9 DEF Contiguous
    <2>1. CASE v \in 1..Len(summaries)
      <3>1. v # 1 => v - 1 \in 1..Len(summaries)
        BY <2>1, <1>9
      <3> QED
        BY <2>1, <3>1, <1>9 DEF Contiguous
    <2>2. CASE v = n /\ summaries = <<>>
      BY <2>2, <1>3, <1>5, <1>9 DEF SummarizedThrough
    <2>3. CASE v = n /\ summaries # <<>>
      <3>1. n # 1 /\ n - 1 = Len(summaries) /\ Len(summaries) \in DOMAIN summaries
        BY <2>3, <1>9 DEF Types
      <3>2. SummarizedThrough = summaries'[n - 1].through
        BY <2>3, <3>1, <1>9 DEF SummarizedThrough, Newest
      <3> QED
        BY <2>3, <3>1, <3>2, <1>3, <1>5, <1>9
    <2> QED
      BY <2>1, <2>2, <2>3, <1>9
  <1>18. NothingLeftBehind'
    <2> SUFFICES ASSUME ~lapsed, NEW i \in ContextMessages, i <= t.through
                 PROVE  \E v \in DOMAIN summaries' : i \in summaries'[v].transcript
      BY <1>6, <1>10, <1>11 DEF NothingLeftBehind
    <2>1. i \in Nat
      BY <1>4
    <2>2. CASE i <= SummarizedThrough
      <3>1. PICK v \in DOMAIN summaries : i \in summaries[v].transcript
        BY <2>2 DEF NothingLeftBehind
      <3> QED
        BY <3>1, <1>9
    <2>3. CASE i >= t.from
      <3>1. i \in s.transcript
        BY <2>3, <1>3, <1>5 DEF Needed
      <3> QED
        BY <3>1, <1>9
    <2> QED
      BY <2>1, <2>2, <2>3, <1>3, <1>4
  <1> QED
    BY <1>13, <1>14, <1>15, <1>16, <1>17, <1>18

LEMMA SummarizeStep ==
    ASSUME IInv, NEW r \in Requests, Summarize(r)
    PROVE  IInv'
  <1>1. CASE InsertSummary(r)
    BY <1>1, InsertStep
  <1>2. CASE UNCHANGED summaries
    <2> DEFINE new == [turn[r] EXCEPT !.pc = "built", !.covered = {}, !.through = 0,
                                      !.from = 0, !.version = 0]
    <2>1. turn[r].pc = "summarizing" /\ turn[r].pc \in Holding /\ Types
      BY DEF Summarize, IInv, Holding, Places
    <2>2. new \in TurnRecord /\ new.pc = "built" /\ TurnSound(new)
      BY <2>1, BuiltFacts
    <2>3. turn' = [turn EXCEPT ![r] = new] /\ Unlock(r)
      BY DEF Summarize, Built
    <2> HIDE DEF new
    <2> QED
      BY <1>2, <2>1, <2>2, <2>3, LeaseFacts, QuietStep DEF Summarize, Types
  <1> QED
    BY <1>1, <1>2 DEF Summarize

-----------------------------------------------------------------------------
(* Messages are written *)

\* New messages come after all others.
LEMMA AcceptStep ==
    ASSUME IInv, NEW r \in Requests, Accept(r)
    PROVE  IInv'
  <1> USE DEF IInv
  <1> DEFINE added == IF turn[r].kind = "retry" THEN CreateMessage("assistant", "pending")
                      ELSE CreateMessage("user", "complete") \o CreateMessage("assistant", "pending")
             n == Len(messages)
             last == n + Len(added)
             new == [turn[r] EXCEPT !.pc = "streaming", !.message = last]
  <1>1. turn[r].pc = "built" /\ turn[r].pc \in Holding /\ turn[r] \in TurnRecord
        /\ turn[r].covered \subseteq DOMAIN messages
    BY TurnIsRecord DEF Accept, Holding, Places
  <1>2. added \in Seq(MessageRecord) /\ Len(added) \in {1, 2}
    <2> DEFINE answer == [role |-> "assistant", status |-> "pending"]
               question == [role |-> "user", status |-> "complete"]
    <2>1. answer \in MessageRecord /\ question \in MessageRecord
      BY DEF MessageRecord
    <2>2. added \in {<<answer>>, <<question>> \o <<answer>>}
      BY DEF CreateMessage
    <2> HIDE DEF answer, question, added
    <2>3. /\ <<answer>> \in Seq(MessageRecord) /\ Len(<<answer>>) = 1
          /\ <<question>> \in Seq(MessageRecord) /\ Len(<<question>>) = 1
      BY <2>1
    <2>4. /\ <<question>> \o <<answer>> \in Seq(MessageRecord)
          /\ Len(<<question>> \o <<answer>>) = 2
      BY <2>3, ConcatProperties
    <2> QED
      BY <2>2, <2>3, <2>4
  <1>3. /\ messages' = messages \o added /\ turn' = [turn EXCEPT ![r] = new]
        /\ UNCHANGED <<lastEnd, summaries, lease, summaryLock, lapsed, faults>> /\ generating' = r
    BY <1>1 DEF Accept, Types
  <1> HIDE DEF added
  <1>4. /\ SummarizedThrough \in Nat /\ n \in Nat /\ SummarizedThrough <= n
        /\ DOMAIN messages = 1..n /\ ContextMessages \subseteq DOMAIN messages
        /\ last \in Nat /\ last > n
    <2>1. /\ SummarizedThrough \in Nat /\ n \in Nat /\ SummarizedThrough <= n
          /\ DOMAIN messages = 1..n /\ ContextMessages \subseteq DOMAIN messages
      BY ThroughType
    <2> HIDE DEF n
    <2>2. last \in Nat /\ last > n
      BY <1>2, <2>1
    <2> QED
      BY <2>1, <2>2
  <1>5. /\ messages' \in Seq(MessageRecord) /\ DOMAIN messages' = 1..last
        /\ \A i \in 1..n : messages'[i] = messages[i]
    BY <1>2, <1>3, <1>4 DEF Types
  <1> HIDE DEF last, n
  <1>6. new \in TurnRecord /\ new.pc = "streaming" /\ new.message = last /\ new.covered = turn[r].covered
    BY <1>1, <1>4 DEF TurnRecord, Places
  <1> HIDE DEF new
  <1>7. /\ DOMAIN messages \subseteq DOMAIN messages' /\ last \in DOMAIN messages'
        /\ SummarizedThrough' = SummarizedThrough
    BY <1>3, <1>4, <1>5 DEF SummarizedThrough, Newest
  <1>8. \A i \in 1..n : i \in ContextMessages' <=> i \in ContextMessages
    BY <1>4, <1>5, <1>7 DEF ContextMessages
  <1>9. \A i \in ContextMessages' : i \in 1..last
    BY <1>4, <1>5 DEF ContextMessages
  <1>10. ASSUME NEW m \in 1..n PROVE Needed(m)' = Needed(m)
    BY <1>4, <1>8, <1>9 DEF Needed
  <1>11. Types'
    <2>1. turn' \in [Requests -> {NoTurn, Over} \cup TurnRecord]
      BY <1>3, <1>6 DEF Types
    <2> QED
      BY <1>3, <1>5, <2>1 DEF Types
  <1>12. turn'[r] = new /\ \A q \in Requests : q # r => turn'[q] = turn[q]
    BY <1>3 DEF Types
  <1>13. SummariesOfMessages'
    BY <1>3, <1>7 DEF SummariesOfMessages
  <1>14. ASSUME NEW q \in Requests PROVE TurnSound(turn[q])'
    <2>1. CASE q = r
      BY <2>1, <1>1, <1>4, <1>6, <1>7, <1>12 DEF TurnSound, Reading
    <2>2. CASE q # r
      <3>1. turn'[q] = turn[q] /\ TurnSound(turn[q])
        BY <2>2, <1>12
      <3>2. turn[q].pc \in Reading => Needed(turn[q].through)' = Needed(turn[q].through)
        BY <3>1, <1>4, <1>10 DEF TurnSound
      <3> QED
        BY <3>1, <3>2, <1>3, <1>7 DEF TurnSound
    <2> QED
      BY <2>1, <2>2
  <1>15. Holders'
    BY <1>1, <1>3, <1>12 DEF Holders
  <1>16. Contiguous'
    BY <1>3 DEF Contiguous
  <1>17. NothingLeftBehind'
    BY <1>3, <1>4, <1>7, <1>8, <1>9 DEF NothingLeftBehind
  <1> QED
    BY <1>11, <1>13, <1>14, <1>15, <1>16, <1>17

\* The only message whose status changes is ahead of the summaries, and whoever changes it
\* has the lease: nobody else has read it for a summary.
LEMMA FinalizeMessageStep ==
    ASSUME IInv, NEW r \in Requests, FinalizeMessage(r)
    PROVE  IInv'
  <1> USE DEF IInv
  <1> DEFINE new == [turn[r] EXCEPT !.pc = "settling"]
             m == turn[r].message
  <1>1. turn[r].pc = "ended" /\ turn[r].pc \in Holding
    BY DEF FinalizeMessage, Holding, Places
  <1>2. new \in TurnRecord /\ new.pc = "settling" /\ TurnSound(new)
    BY <1>1, GoFacts DEF Places, Reading
  <1>3. turn' = [turn EXCEPT ![r] = new] /\ UNCHANGED <<generating, lastEnd, summaries, lease, summaryLock, lapsed, faults>>
    BY DEF FinalizeMessage, Go
  <1>4. CASE UNCHANGED messages
    <2> HIDE DEF new
    <2> QED
      BY <1>1, <1>2, <1>3, <1>4, QuietStep DEF Types
  <1>5. ASSUME NEW status \in {"complete", "failed"},
               messages' = [messages EXCEPT ![m].status = status]
        PROVE  IInv'
    <2>1. TurnSound(turn[r]) /\ m \in DOMAIN messages /\ turn[r] \in TurnRecord
      BY <1>1, TurnIsRecord DEF TurnSound
    <2>2. ~lapsed => m > SummarizedThrough
      BY <1>1, <2>1 DEF TurnSound
    <2> HIDE DEF new, m
    <2>3. /\ messages' \in Seq(MessageRecord) /\ DOMAIN messages' = DOMAIN messages
          /\ \A i \in DOMAIN messages : i # m => messages'[i] = messages[i]
      <3>1. messages[m] \in MessageRecord
        BY <2>1 DEF Types
      <3>2. [messages[m] EXCEPT !.status = status] \in MessageRecord
        BY <3>1 DEF MessageRecord
      <3>3. messages' = [messages EXCEPT ![m] = [messages[m] EXCEPT !.status = status]]
        BY <1>5
      <3> QED
        BY <2>1, <3>2, <3>3 DEF Types
    <2>4. /\ SummarizedThrough \in Nat /\ SummarizedThrough' = SummarizedThrough
          /\ DOMAIN messages \subseteq Nat
      BY <1>3, ThroughType DEF SummarizedThrough, Newest
    <2>5. \A i \in DOMAIN messages : i # m => (i \in ContextMessages' <=> i \in ContextMessages)
      BY <2>3 DEF ContextMessages
    <2>6. ContextMessages' \subseteq DOMAIN messages
      BY <2>3 DEF ContextMessages
    <2>7. turn'[r] = new /\ \A q \in Requests : q # r => turn'[q] = turn[q]
      BY <1>3 DEF Types
    <2>8. Types'
      <3>1. turn' \in [Requests -> {NoTurn, Over} \cup TurnRecord]
        BY <1>2, <1>3 DEF Types
      <3> QED
        BY <1>3, <2>3, <3>1 DEF Types
    <2>9. SummariesOfMessages'
      BY <1>3, <2>3 DEF SummariesOfMessages
    <2>10. ASSUME NEW q \in Requests PROVE TurnSound(turn[q])'
      <3>1. CASE q = r
        BY <3>1, <1>2, <2>3, <2>7 DEF TurnSound, Reading
      <3>2. CASE q # r
        <4>1. turn'[q] = turn[q] /\ TurnSound(turn[q])
          BY <3>2, <2>7
        <4>2. ~lapsed => turn[q].pc \notin Holding
          BY <3>2, <1>1 DEF Holders
        <4>3. ~lapsed => turn[q].pc \notin Reading \cup {"streaming", "ended"}
          BY <4>2 DEF Holding, Places, Reading
        <4> QED
          BY <4>1, <4>3, <1>3, <2>3, <2>4 DEF TurnSound
      <3> QED
        BY <3>1, <3>2
    <2>11. Holders'
      BY <1>1, <1>3, <2>7 DEF Holders
    <2>12. Contiguous'
      BY <1>3 DEF Contiguous
    <2>13. NothingLeftBehind'
      <3> SUFFICES ASSUME ~lapsed, NEW i \in ContextMessages', i <= SummarizedThrough
                   PROVE  \E v \in DOMAIN summaries : i \in summaries[v].transcript
        BY <1>3, <2>4 DEF NothingLeftBehind
      <3>1. i # m /\ i \in DOMAIN messages
        BY <2>1, <2>2, <2>4, <2>6
      <3>2. i \in ContextMessages
        BY <3>1, <2>5
      <3> QED
        BY <3>2 DEF NothingLeftBehind
    <2> QED
      BY <2>8, <2>9, <2>10, <2>11, <2>12, <2>13
  <1> QED
    BY <1>4, <1>5 DEF FinalizeMessage

-----------------------------------------------------------------------------
(* The invariant *)

LEMMA NextIInv == IInv /\ [Next]_vars => IInv'
  <1> SUFFICES ASSUME IInv, [Next]_vars PROVE IInv'
    OBVIOUS
  <1>1. ASSUME NEW r \in Requests,
               \/ \E kind \in {"message", "retry"} : Arrive(r, kind)
               \/ Reserve(r) \/ BuildContext(r) \/ Accept(r) \/ Refuse(r)
               \/ \E end \in {"completed", "failed"} : FinalizeGeneration(r, end)
               \/ FinalizeMessage(r) \/ Settle(r) \/ Crash(r)
        PROVE  IInv'
    BY <1>1, ArriveStep, ReserveStep, ReadMessagesStep, TryLockStep, ReadLatestStep,
       SummarizeStep, AcceptStep, FinalizeGenerationStep, FinalizeMessageStep, EndSteps
       DEF BuildContext
  <1>2. CASE LeaseLapses \/ LockLost
    BY <1>2, FaultStep
  <1>3. CASE UNCHANGED vars
    <2>1. \A q \in Requests : TurnSound(turn[q])'
      BY <1>3, RowsSame DEF IInv, TurnSound, vars
    <2>2. Contiguous' /\ NothingLeftBehind' /\ SummariesOfMessages'
      BY <1>3, RowsSame DEF IInv, vars, Contiguous, NothingLeftBehind, SummariesOfMessages
    <2>3. Types' /\ Holders'
      BY <1>3 DEF IInv, vars, Types, Holders
    <2> QED
      BY <2>1, <2>2, <2>3 DEF IInv
  <1> QED
    BY <1>1, <1>2, <1>3 DEF Next

THEOREM Invariant == Spec => []IInv
  BY InitIInv, NextIInv, PTL DEF Spec

\* Messages, summaries, turns and locks keep their types; a transcript names messages that
\* exist.
THEOREM TypeCorrect == Spec => []TypeOK
  <1>1. IInv => TypeOK
    <2> SUFFICES ASSUME IInv PROVE TypeOK
      OBVIOUS
    <2> DEFINE Rows == [from : Nat \ {0}, through : Nat \ {0}, transcript : SUBSET DOMAIN messages]
    <2>1. \A v \in DOMAIN summaries : summaries[v] \in Rows
      <3> SUFFICES ASSUME NEW v \in DOMAIN summaries PROVE summaries[v] \in Rows
        OBVIOUS
      <3>1. summaries[v] \in SummaryRecord /\ summaries[v].transcript \subseteq DOMAIN messages
        BY DEF IInv, Types, SummariesOfMessages
      <3> QED
        BY <3>1 DEF SummaryRecord
    <2> HIDE DEF Rows
    <2>2. summaries \in Seq(Rows)
      BY <2>1 DEF IInv, Types
    <2>3. ASSUME NEW r \in Requests
          PROVE  turn[r] \in {NoTurn, Over} \/
                 turn[r] \in [pc : Places, kind : {"message", "retry"}, covered : SUBSET DOMAIN messages,
                              through : Nat, from : Nat, version : Nat, message : Nat,
                              end : {"none", "completed", "failed"}]
      <3>1. CASE turn[r] \in {NoTurn, Over}
        BY <3>1
      <3>2. CASE turn[r] \in TurnRecord
        <4>1. turn[r].covered \subseteq DOMAIN messages
          BY <3>2 DEF IInv, TurnSound
        <4> QED
          BY <3>2, <4>1 DEF TurnRecord
      <3> QED
        BY <3>1, <3>2 DEF IInv, Types
    <2> QED
      BY <2>2, <2>3 DEF IInv, Types, TypeOK, MessageRecord, Rows
  <1> QED
    BY <1>1, Invariant, PTL

\* The ranges of summaries join without gap or overlap whatever locks are lost, and leave
\* no message of a context out unless a request went on without its lease (ensureSummary,
\* CreateConversationSummary, FinalizeMessage before Settle).
THEOREM SummariesAlwaysFaithful == Spec => []SummariesFaithful
  <1>1. IInv => SummariesFaithful
    BY DEF IInv, SummariesFaithful
  <1> QED
    BY <1>1, Invariant, PTL
==============================================================================
