--------------------------- MODULE RealtimeProofs ---------------------------
(***************************************************************************)
(* Proofs about Realtime, for every set of pages and emitters and every    *)
(* length of the replay log and of the write queues.                       *)
(***************************************************************************)
EXTENDS Realtime, FiniteSetTheorems, WellFoundedInduction, TLAPS

-----------------------------------------------------------------------------
(* The window of the replay log *)

\* Trimming keeps events only.
LEMMA NewestSubset == \A S : Newest(S) \subseteq S
  BY DEF Newest

\* A set of events behind an event is finite, and smaller than what is behind an
\* earlier one.
LEMMA LaterSmaller ==
    ASSUME NEW S \in SUBSET Nat, IsFiniteSet(S), NEW e \in S, NEW f \in S, f < e
    PROVE  Cardinality({g \in S : g > e}) < Cardinality({g \in S : g > f})
  <1> DEFINE A == {g \in S : g > e}
             B == {g \in S : g > f}
  <1>1. IsFiniteSet(B)
    BY FS_Subset
  <1>0. S \subseteq Nat
    OBVIOUS
  <1>2. A \subseteq B /\ e \in B \ A
    <2>1. A \subseteq B
      <3> SUFFICES ASSUME NEW g \in S, g > e PROVE g > f
        OBVIOUS
      <3> QED
        BY <1>0
    <2>2. e \in B /\ e \notin A
      BY <1>0
    <2> QED
      BY <2>1, <2>2
  <1>3. IsFiniteSet(A)
    BY FS_Subset
  <1>4. IsFiniteSet(B \ {e}) /\ Cardinality(B \ {e}) = Cardinality(B) - 1
    BY <1>1, <1>2, FS_RemoveElement
  <1>5. A \subseteq B \ {e}
    BY <1>2
  <1>6. Cardinality(A) <= Cardinality(B \ {e})
    BY <1>4, <1>5, FS_Subset
  <1>7. Cardinality(A) \in Nat /\ Cardinality(B) \in Nat
    BY <1>1, <1>3, FS_CardinalityType
  <1> QED
    BY <1>4, <1>6, <1>7

\* What trimming keeps is closed: with an event it keeps everything behind it.
LEMMA NewestClosed ==
    ASSUME NEW S \in SUBSET Nat, IsFiniteSet(S), NEW f \in Newest(S), NEW e \in S, f < e
    PROVE  e \in Newest(S)
  <1> DEFINE A == {g \in S : g > e}
             B == {g \in S : g > f}
  <1>1. f \in S /\ Cardinality(B) < ReplayLimit
    BY DEF Newest
  <1>2. Cardinality(A) < Cardinality(B)
    BY <1>1, LaterSmaller
  <1>3. IsFiniteSet(A) /\ IsFiniteSet(B)
    BY FS_Subset
  <1>4. Cardinality(A) \in Nat /\ Cardinality(B) \in Nat
    BY <1>3, FS_CardinalityType
  <1> HIDE DEF B
  <1>5. Cardinality(A) < ReplayLimit
    BY <1>1, <1>2, <1>4, SizeAssumption
  <1> QED
    BY <1>5 DEF Newest

\* One event more than fits: what is trimmed is the first event alone, and the log is full.
LEMMA TrimmedIsFirst ==
    ASSUME NEW S \in SUBSET Nat, IsFiniteSet(S), Cardinality(S) <= ReplayLimit + 1,
           NEW e \in S \ Newest(S)
    PROVE  /\ Newest(S) = S \ {e}
           /\ Cardinality(Newest(S)) = ReplayLimit
           /\ \A f \in Newest(S) : e < f
  <1> DEFINE A == {g \in S : g > e}
  <1>1. IsFiniteSet(A) /\ Cardinality(A) \in Nat
    BY FS_Subset, FS_CardinalityType
  <1>2. Cardinality(A) >= ReplayLimit
    BY <1>1, SizeAssumption DEF Newest
  <1>3. IsFiniteSet(S \ {e}) /\ Cardinality(S \ {e}) = Cardinality(S) - 1
    BY FS_RemoveElement
  <1>4. A \subseteq S \ {e}
    OBVIOUS
  <1>5. Cardinality(A) <= Cardinality(S \ {e})
    BY <1>3, <1>4, FS_Subset
  <1>6. Cardinality(S) \in Nat
    BY FS_CardinalityType
  <1>7. Cardinality(A) = Cardinality(S \ {e}) /\ Cardinality(A) = ReplayLimit
    BY <1>1, <1>2, <1>3, <1>5, <1>6, SizeAssumption
  <1>8. A = S \ {e}
    BY <1>3, <1>4, <1>7, FS_Subset
  <1>9. S \ {e} \subseteq Newest(S)
    <2> SUFFICES ASSUME NEW f \in S \ {e} PROVE Cardinality({g \in S : g > f}) < ReplayLimit
      BY DEF Newest
    <2>1. e < f
      BY <1>8
    <2>2. Cardinality({g \in S : g > f}) < Cardinality(A)
      BY <2>1, LaterSmaller
    <2> QED
      BY <2>2, <1>7
  <1>10. Newest(S) = S \ {e}
    BY <1>9, NewestSubset
  <1> QED
    BY <1>7, <1>8, <1>10

\* A set of events has a first one.
LEMMA SmallestExists ==
    ASSUME NEW S \in SUBSET Nat, S # {}
    PROVE  \E e \in S : \A f \in S : e <= f
  <1>1. \E e \in S : \A f \in S : ~(<<f, e>> \in OpToRel(<, Nat))
    BY NatLessThanWellFounded, WFMin
  <1>2. \A e, f \in Nat : f < e => <<f, e>> \in OpToRel(<, Nat)
    BY DEF OpToRel
  <1>3. PICK e \in S : \A f \in S : ~(<<f, e>> \in OpToRel(<, Nat))
    BY <1>1
  <1>4. \A f \in S : ~(f < e)
    BY <1>2, <1>3
  <1>5. \A f \in S : f \in Nat /\ e \in Nat
    OBVIOUS
  <1> QED
    BY <1>4, <1>5

\* Trimming a set that is one too large at most leaves no more than the limit.
LEMMA NewestBounded ==
    ASSUME NEW S \in SUBSET Nat, IsFiniteSet(S), Cardinality(S) <= ReplayLimit + 1
    PROVE  IsFiniteSet(Newest(S)) /\ Cardinality(Newest(S)) <= ReplayLimit
  <1>1. IsFiniteSet(Newest(S)) /\ Cardinality(Newest(S)) \in Nat
    BY NewestSubset, FS_Subset, FS_CardinalityType
  <1>2. CASE \E e \in S : e \notin Newest(S)
    BY <1>1, <1>2, TrimmedIsFirst, SizeAssumption
  <1>3. CASE S = Newest(S)
    <2>1. CASE S = {}
      <3>1. Cardinality(Newest(S)) = 0
        BY <2>1, <1>3, FS_EmptySet
      <3> QED
        BY <1>1, <3>1, SizeAssumption
    <2>2. CASE S # {}
      <3> SUFFICES ASSUME Cardinality(S) = ReplayLimit + 1 PROVE FALSE
        BY <1>1, <1>3, SizeAssumption
      <3>1. PICK e \in S : \A f \in S : e <= f
        BY <2>2, SmallestExists
      <3>2. {g \in S : g > e} = S \ {e}
        <4>1. \A g \in S : g \in Nat /\ e \in Nat
          OBVIOUS
        <4>2. \A g \in S : g > e <=> g # e
          BY <3>1, <4>1
        <4> QED
          BY <4>2
      <3>3. Cardinality(S \ {e}) = ReplayLimit
        BY FS_RemoveElement, SizeAssumption
      <3> QED
        BY <3>2, <3>3, <1>3, SizeAssumption DEF Newest
    <2> QED
      BY <2>1, <2>2
  <1> QED
    BY <1>2, <1>3, NewestSubset

-----------------------------------------------------------------------------
(* Type correctness *)

\* A connection's record.
Socket == [phase : Connected \cup {"offline"}, after : Nat, current : Nat,
           replay : SUBSET Event, inbox : Seq(Event), queue : Seq(Event), deaf : BOOLEAN]

\* A connection that is closed has nothing under way.
LEMMA OfflineTyped == Offline \in Socket /\ Len(Offline.queue) <= QueueSize
  BY SizeAssumption DEF Offline, Socket, Connected, Event

\* An emission that ends leaves its emitter idle, and closes the connection it was for.
LEMMA AbandonTyped ==
    ASSUME TypeOK, NEW m \in Emitters, Abandon(m)
    PROVE  /\ emitting' \in [Emitters -> [stage : {"idle", "numbered", "stored"}, event : Nat]]
           /\ \A x \in Emitters : emitting'[x].stage = "idle" <=> emitting'[x].event = 0
           /\ socket' \in [Clients -> Socket]
           /\ \A k \in Clients : Len(socket'[k].queue) <= QueueSize
  <1>1. socket \in [Clients -> Socket] /\ \A k \in Clients : Len(socket[k].queue) <= QueueSize
    BY DEF TypeOK, Socket
  <1> QED
    BY <1>1, OfflineTyped DEF TypeOK, Abandon, Quiet

\* Every variable keeps its type, and no write queue exceeds its capacity.
THEOREM TypeCorrect == Spec => []TypeOK
  <1>1. Init => TypeOK
    BY OfflineTyped DEF Init, TypeOK, Socket, Quiet
  <1>2. TypeOK /\ [Next]_vars => TypeOK'
    <2> SUFFICES ASSUME TypeOK, [Next]_vars PROVE TypeOK'
      OBVIOUS
    <2>s. socket \in [Clients -> Socket] /\ \A k \in Clients : Len(socket[k].queue) <= QueueSize
      BY DEF TypeOK, Socket
    <2>o. ASSUME socket' \in [Clients -> Socket],
                 \A k \in Clients : Len(socket'[k].queue) <= QueueSize,
                 UNCHANGED <<sequence, log, emitting, published, resyncs>>,
                 last' \in [Clients -> Nat], seen' \in [Clients -> SUBSET Event],
                 interrupted' \subseteq Clients
          PROVE  TypeOK'
      BY <2>o DEF TypeOK, Socket
    \* A change of one connection.
    <2>c. ASSUME NEW k \in Clients, NEW s \in Socket, Len(s.queue) <= QueueSize,
                 socket' = [socket EXCEPT ![k] = s]
          PROVE  /\ socket' \in [Clients -> Socket]
                 /\ \A x \in Clients : Len(socket'[x].queue) <= QueueSize
      BY <2>c, <2>s
    <2>1. ASSUME NEW m \in Emitters, NextSequence(m) PROVE TypeOK'
      <3>1. CASE Abandon(m)
        BY <2>1, <3>1, AbandonTyped DEF NextSequence, TypeOK, Socket
      <3>2. CASE /\ emitting' = [emitting EXCEPT ![m] = [stage |-> "numbered", event |-> sequence + 1]]
                 /\ UNCHANGED socket
        BY <2>1, <3>2 DEF NextSequence, TypeOK, Event
      <3> QED
        BY <2>1, <3>1, <3>2 DEF NextSequence
    <2>2. ASSUME NEW m \in Emitters, AppendReplay(m) PROVE TypeOK'
      <3>1. emitting[m].event \in Event
        BY <2>2 DEF AppendReplay, TypeOK, Event
      <3>2. log' \subseteq Event /\ resyncs' \subseteq Event
        BY <2>2, <3>1, NewestSubset DEF AppendReplay, TypeOK
      <3>3. CASE Abandon(m)
        BY <2>2, <3>2, <3>3, AbandonTyped DEF AppendReplay, TypeOK, Socket
      <3>4. CASE emitting' = [emitting EXCEPT ![m].stage = "stored"] /\ UNCHANGED socket
        BY <2>2, <3>2, <3>4 DEF AppendReplay, TypeOK
      <3> QED
        BY <2>2, <3>3, <3>4 DEF AppendReplay
    <2>3. ASSUME NEW m \in Emitters, Publish(m) PROVE TypeOK'
      <3>1. emitting[m].event \in Event
        BY <2>3 DEF Publish, TypeOK, Event
      <3>2. \A s \in Socket : Continue(s) \in Socket /\ Continue(s).queue = s.queue
        BY DEF Continue, Socket, Connected
      <3>3. PICK lost \in SUBSET {k \in Clients : Listens(k)} :
              /\ socket' = [k \in Clients |->
                    LET s == IF k = m THEN Continue(socket[k]) ELSE socket[k] IN
                    IF Listens(k) /\ k \notin lost
                    THEN [s EXCEPT !.inbox = Append(@, emitting[m].event)] ELSE s]
              /\ interrupted' = interrupted \cup lost
        BY <2>3 DEF Publish
      <3>4. ASSUME NEW k \in Clients
            PROVE  socket'[k] \in Socket /\ Len(socket'[k].queue) <= QueueSize
        <4> DEFINE s == IF k = m THEN Continue(socket[k]) ELSE socket[k]
        <4>1. s \in Socket /\ Len(s.queue) <= QueueSize
          BY <2>s, <3>2
        <4>2. Append(s.inbox, emitting[m].event) \in Seq(Event)
          BY <3>1, <4>1 DEF Socket
        <4>3. socket'[k] \in {s, [s EXCEPT !.inbox = Append(@, emitting[m].event)]}
          BY <3>3
        <4> HIDE DEF s
        <4> QED
          BY <4>1, <4>2, <4>3 DEF Socket
      <3>5. socket' \in [Clients -> Socket]
        BY <3>3, <3>4
      <3> QED
        BY <2>3, <3>1, <3>3, <3>4, <3>5 DEF Publish, TypeOK, Socket, Quiet
    <2>4. ASSUME NEW m \in Emitters, PublishFails(m) PROVE TypeOK'
      BY <2>4, AbandonTyped DEF PublishFails, TypeOK, Socket
    <2>5. ASSUME NEW k \in Clients, Open(k) PROVE TypeOK'
      <3> DEFINE s == [Offline EXCEPT !.phase = "connecting", !.after = last[k]]
      <3>1. s \in Socket /\ Len(s.queue) <= QueueSize
        BY OfflineTyped DEF Socket, Connected, TypeOK
      <3> QED
        BY <2>5, <2>o, <2>c, <3>1 DEF Open, TypeOK
    <2>6. ASSUME NEW k \in Clients, ReadCurrent(k) PROVE TypeOK'
      <3> DEFINE s == [socket[k] EXCEPT !.phase = "reading", !.current = sequence]
      <3>1. s \in Socket /\ Len(s.queue) <= QueueSize
        BY <2>s DEF Socket, Connected, TypeOK
      <3> QED
        <4>1. socket' = [socket EXCEPT ![k] = s]
          BY <2>6, <2>s DEF ReadCurrent
        <4> HIDE DEF s
        <4> QED
          BY <2>6, <2>o, <2>c, <3>1, <4>1 DEF ReadCurrent, TypeOK
    <2>7. ASSUME NEW k \in Clients, ReadLog(k) PROVE TypeOK'
      <3> DEFINE events == {e \in log : e > socket[k].after}
                 s == IF OutsideWindow(socket[k], events)
                      THEN [socket[k] EXCEPT !.phase = "resyncing", !.current = 0]
                      ELSE [socket[k] EXCEPT !.phase = "replaying", !.current = 0, !.replay = events]
      <3>1. s \in Socket /\ Len(s.queue) <= QueueSize
        BY <2>s DEF Socket, Connected, TypeOK
      <3>2. socket' = [socket EXCEPT ![k] = s]
        BY <2>7 DEF ReadLog
      <3> QED
        BY <2>7, <2>o, <2>c, <3>1, <3>2 DEF ReadLog, TypeOK
    <2>8. ASSUME NEW k \in Clients, EnqueueReplay(k) PROVE TypeOK'
      <3>1. CASE socket' = [socket EXCEPT ![k].phase = "open"]
        <4>1. [socket[k] EXCEPT !.phase = "open"] \in Socket
          BY <2>s DEF Socket, Connected
        <4> QED
          BY <2>8, <2>o, <2>c, <2>s, <3>1, <4>1 DEF EnqueueReplay, TypeOK, Socket
      <3>2. ASSUME NEW e \in socket[k].replay,
                   socket' = [socket EXCEPT ![k] =
                      IF Len(socket[k].queue) < QueueSize
                      THEN [socket[k] EXCEPT !.queue = Append(@, e), !.replay = @ \ {e}]
                      ELSE [socket[k] EXCEPT !.phase = "closing", !.replay = {}]]
            PROVE  TypeOK'
        <4> DEFINE q == Append(socket[k].queue, e)
                   s == IF Len(socket[k].queue) < QueueSize
                        THEN [socket[k] EXCEPT !.queue = q, !.replay = @ \ {e}]
                        ELSE [socket[k] EXCEPT !.phase = "closing", !.replay = {}]
        <4>1. socket[k].queue \in Seq(Event) /\ e \in Event
          BY <2>s, <3>2 DEF Socket
        <4>2. q \in Seq(Event) /\ Len(q) = Len(socket[k].queue) + 1
          BY <4>1
        <4>3. Len(socket[k].queue) < QueueSize => Len(q) <= QueueSize
          BY <4>1, <4>2, SizeAssumption
        <4>4. s \in Socket /\ Len(s.queue) <= QueueSize
          BY <2>s, <4>2, <4>3 DEF Socket, Connected
        <4>5. socket' = [socket EXCEPT ![k] = s]
          BY <3>2
        <4> HIDE DEF s
        <4> QED
          BY <2>8, <2>o, <2>c, <4>4, <4>5 DEF EnqueueReplay, TypeOK
      <3> QED
        BY <2>8, <3>1, <3>2 DEF EnqueueReplay
    <2>9. ASSUME NEW k \in Clients, Forward(k) PROVE TypeOK'
      <3> DEFINE q == Append(socket[k].queue, Head(socket[k].inbox))
                 s == IF Len(socket[k].queue) < QueueSize
                      THEN [socket[k] EXCEPT !.inbox = Tail(@), !.queue = q]
                      ELSE [socket[k] EXCEPT !.inbox = <<>>, !.deaf = TRUE]
      <3>1. socket[k].queue \in Seq(Event) /\ socket[k].inbox \in Seq(Event) /\ socket[k].inbox # <<>>
        BY <2>9, <2>s DEF Forward, Socket
      <3>2. Tail(socket[k].inbox) \in Seq(Event) /\ Head(socket[k].inbox) \in Event
        BY <3>1
      <3>3. q \in Seq(Event) /\ Len(q) = Len(socket[k].queue) + 1
        BY <3>1, <3>2
      <3>4. Len(socket[k].queue) < QueueSize => Len(q) <= QueueSize
        BY <3>1, <3>3, SizeAssumption
      <3>5. s \in Socket /\ Len(s.queue) <= QueueSize
        <4> HIDE DEF q
        <4>1. CASE Len(socket[k].queue) < QueueSize
          BY <2>s, <3>2, <3>3, <3>4, <4>1 DEF Socket
        <4>2. CASE ~(Len(socket[k].queue) < QueueSize)
          <5>1. <<>> \in Seq(Event) /\ s = [socket[k] EXCEPT !.inbox = <<>>, !.deaf = TRUE]
            BY <4>2
          <5> HIDE DEF s
          <5> QED
            BY <2>s, <5>1 DEF Socket
        <4> QED
          BY <4>1, <4>2
      <3>6. socket' = [socket EXCEPT ![k] = s]
        BY <2>9 DEF Forward
      <3> HIDE DEF s
      <3> QED
        BY <2>9, <2>o, <2>c, <3>5, <3>6 DEF Forward, TypeOK
    <2>10. ASSUME NEW k \in Clients, Write(k) PROVE TypeOK'
      <3> DEFINE e == Head(socket[k].queue)
                 s == [socket[k] EXCEPT !.queue = Tail(@)]
      <3>1. socket[k].queue \in Seq(Event) /\ socket[k].queue # <<>>
        BY <2>10, <2>s DEF Write, Socket
      <3>2. e \in Event /\ Tail(socket[k].queue) \in Seq(Event)
            /\ Len(Tail(socket[k].queue)) <= Len(socket[k].queue)
        BY <3>1
      <3>3. s \in Socket /\ Len(s.queue) <= QueueSize
        <4> DEFINE rest == Tail(socket[k].queue)
        <4>1. rest \in Seq(Event) /\ Len(rest) <= QueueSize
          <5>1. Len(rest) \in Nat /\ Len(socket[k].queue) \in Nat
            BY <3>1, <3>2
          <5> QED
            BY <2>s, <3>2, <5>1, SizeAssumption
        <4>2. s = [socket[k] EXCEPT !.queue = rest]
          OBVIOUS
        <4> HIDE DEF s, rest
        <4> QED
          BY <2>s, <4>1, <4>2 DEF Socket
      <3>4. socket' = [socket EXCEPT ![k] = s]
        BY <2>10 DEF Write
      <3>5. last' \in [Clients -> Nat] /\ seen' \in [Clients -> SUBSET Event]
        BY <2>10, <3>2 DEF Write, TypeOK, Event
      <3> HIDE DEF s, e
      <3> QED
        BY <2>10, <2>o, <2>c, <3>3, <3>4, <3>5 DEF Write, TypeOK
    <2>11. ASSUME NEW k \in Clients, Drop(k) PROVE TypeOK'
      BY <2>11, <2>s, OfflineTyped DEF Drop, TypeOK, Socket, Quiet, Emitters
    <2>12. ASSUME KeysExpire PROVE TypeOK'
      BY <2>12, <2>s DEF KeysExpire, TypeOK, Socket
    <2>13. ASSUME UNCHANGED vars PROVE TypeOK'
      BY <2>13 DEF vars, TypeOK
    <2> QED
      BY <2>1, <2>2, <2>3, <2>4, <2>5, <2>6, <2>7, <2>8, <2>9, <2>10, <2>11, <2>12, <2>13
         DEF Next, Emit, Serve
  <1> QED
    BY <1>1, <1>2, PTL DEF Spec

-----------------------------------------------------------------------------
(* The log has no holes *)

\* Events whose AppendReplay was answered: in the log, or trimmed from it.
Appended == published \cup {emitting[m].event : m \in {x \in Emitters : emitting[x].stage = "stored"}}

\* The log is as long as the limit at most.
LogBounded == IsFiniteSet(log) /\ Cardinality(log) <= ReplayLimit

\* An event can leave the log only when the log is full, and takes with it all before it.
NoHoles ==
    \A e \in Appended : e \notin log =>
        /\ Cardinality(log) = ReplayLimit
        /\ \A f \in log : e < f

\* What NoHoles needs to know of types.
NumbersTyped ==
    /\ sequence \in Nat /\ log \subseteq Nat /\ published \subseteq Nat
    /\ emitting \in [Emitters -> [stage : {"idle", "numbered", "stored"}, event : Nat]]

IInv == NumbersTyped /\ LogBounded /\ NoHoles

\* An event is added to the log and the log is trimmed.
LEMMA AddToLog ==
    ASSUME IInv, NEW n \in Nat, log' = Newest(log \cup {n})
    PROVE  /\ log' \subseteq Nat /\ LogBounded'
           /\ \A e \in Appended \cup {n} : e \notin log' =>
                /\ Cardinality(log') = ReplayLimit
                /\ \A f \in log' : e < f
  <1> DEFINE S == log \cup {n}
  <1>1. S \in SUBSET Nat /\ IsFiniteSet(S) /\ Cardinality(log) \in Nat
    BY FS_AddElement, FS_CardinalityType DEF IInv, NumbersTyped, LogBounded
  <1>2. Cardinality(S) <= ReplayLimit + 1
    <2>1. Cardinality(S) = Cardinality(log) \/ Cardinality(S) = Cardinality(log) + 1
      BY FS_AddElement DEF IInv, LogBounded
    <2> QED
      BY <1>1, <2>1, SizeAssumption DEF IInv, LogBounded
  <1>3. log' = Newest(S)
    OBVIOUS
  <1> HIDE DEF S
  <1>4. log' \subseteq Nat /\ LogBounded'
    BY <1>1, <1>2, <1>3, NewestBounded, NewestSubset DEF LogBounded
  <1>5. ASSUME NEW e \in S, e \notin log'
        PROVE  Cardinality(log') = ReplayLimit /\ \A f \in log' : e < f
    <2>1. e \in S \ Newest(S)
      BY <1>3, <1>5
    <2>2. Cardinality(Newest(S)) = ReplayLimit /\ \A f \in Newest(S) : e < f
      BY <1>1, <1>2, <2>1, TrimmedIsFirst
    <2> QED
      BY <1>3, <2>2
  <1>6. ASSUME NEW e \in Appended, e \notin S
        PROVE  Cardinality(log') = ReplayLimit /\ \A f \in log' : e < f
    <2>1. e \notin log /\ Cardinality(log) = ReplayLimit /\ \A f \in log : e < f
      BY <1>6 DEF S, IInv, NoHoles
    <2>2. e \in Nat
      BY DEF Appended, IInv, NumbersTyped
    <2>3. CASE n \in log
      <3>1. S = log
        BY <2>3 DEF S
      <3>2. ASSUME NEW d \in S \ Newest(S)
            PROVE  Cardinality(log') = ReplayLimit /\ \A f \in log' : e < f
        <4>1. Cardinality(Newest(S)) = ReplayLimit
          BY <1>1, <1>2, TrimmedIsFirst
        <4> QED
          BY <1>3, <2>1, <3>1, <4>1, NewestSubset
      <3>3. CASE S = Newest(S)
        BY <1>3, <2>1, <3>1, <3>3
      <3> QED
        BY <3>2, <3>3, NewestSubset
    <2>4. CASE n \notin log
      <3>1. Cardinality(S) = ReplayLimit + 1
        BY <2>1, <2>4, FS_AddElement DEF S, IInv, LogBounded
      <3>2. PICK d \in S : d \notin Newest(S)
        <4>1. Cardinality(Newest(S)) <= ReplayLimit
          BY <1>1, <1>2, NewestBounded
        <4>2. S # Newest(S)
          BY <3>1, <4>1, SizeAssumption
        <4> QED
          BY <4>2, NewestSubset
      <3>3. Cardinality(log') = ReplayLimit /\ \A f \in log' : d < f
        BY <1>1, <1>2, <1>3, <3>2, TrimmedIsFirst
      <3>4. log' = S \ {d}
        BY <1>1, <1>2, <1>3, <3>2, TrimmedIsFirst
      <3>5. log # {}
        BY <2>1, FS_EmptySet, SizeAssumption
      <3>6. ASSUME NEW f \in log' PROVE e < f
        <4>1. CASE f \in log
          BY <2>1, <4>1
        <4>2. CASE f = n
          <5>1. n # d
            BY <3>4, <4>2
          <5>2. d \in log
            BY <3>2, <5>1 DEF S
          <5>3. e < d /\ d < f /\ d \in Nat /\ f \in Nat
            BY <1>1, <2>1, <3>3, <4>2, <5>2
          <5> QED
            BY <2>2, <5>3
        <4> QED
          BY <3>4, <4>1, <4>2 DEF S
      <3> QED
        BY <3>3, <3>6
    <2> QED
      BY <2>3, <2>4
  <1> QED
    BY <1>4, <1>5, <1>6 DEF S

\* Every step keeps the window.
LEMMA WindowInductive == IInv /\ [Next]_vars => IInv'
  <1> SUFFICES ASSUME IInv, [Next]_vars PROVE IInv'
    OBVIOUS
  <1> USE DEF IInv, NumbersTyped
  <1>q. Quiet \in [stage : {"idle", "numbered", "stored"}, event : Nat] /\ Quiet.stage = "idle"
    BY DEF Quiet
  \* Fewer events are under way, and the log stays.
  <1>s. ASSUME sequence' \in Nat, UNCHANGED log, published' \subseteq Nat, NEW m,
               emitting' \in [Emitters -> [stage : {"idle", "numbered", "stored"}, event : Nat]],
               \A x \in Emitters : emitting'[x].stage = "stored" => emitting'[x] = emitting[x],
               published' \subseteq Appended
        PROVE  IInv'
    <2>1. Appended' \subseteq Appended
      BY <1>s DEF Appended
    <2> QED
      BY <1>s, <2>1 DEF LogBounded, NoHoles
  <1>1. ASSUME NEW m \in Emitters, NextSequence(m) PROVE IInv'
    BY <1>1, <1>s, <1>q DEF NextSequence, Abandon, Appended
  <1>2. ASSUME NEW m \in Emitters, AppendReplay(m) PROVE IInv'
    <2>1. emitting[m].event \in Nat /\ emitting[m].stage = "numbered"
      BY <1>2 DEF AppendReplay
    <2>2. CASE UNCHANGED log /\ Abandon(m)
      BY <1>2, <1>s, <1>q, <2>2 DEF AppendReplay, Abandon, Appended
    <2>3. CASE log' = Newest(log \cup {emitting[m].event})
      <3>1. Appended' \subseteq Appended \cup {emitting[m].event}
        BY <1>2, <1>q DEF AppendReplay, Abandon, Appended
      <3>2. /\ log' \subseteq Nat /\ LogBounded'
            /\ \A e \in Appended \cup {emitting[m].event} : e \notin log' =>
                 /\ Cardinality(log') = ReplayLimit
                 /\ \A f \in log' : e < f
        BY <2>1, <2>3, AddToLog
      <3>3. NumbersTyped'
        BY <1>2, <1>q, <3>2 DEF AppendReplay, Abandon
      <3> QED
        BY <3>1, <3>2, <3>3 DEF NoHoles
    <2> QED
      BY <1>2, <2>2, <2>3 DEF AppendReplay
  <1>3. ASSUME NEW m \in Emitters, Publish(m) PROVE IInv'
    BY <1>3, <1>s, <1>q DEF Publish, Appended
  <1>4. ASSUME NEW m \in Emitters, PublishFails(m) PROVE IInv'
    BY <1>4, <1>s, <1>q DEF PublishFails, Abandon, Appended
  <1>5. ASSUME NEW k \in Clients, Drop(k) PROVE IInv'
    BY <1>5, <1>s, <1>q DEF Drop, Appended
  <1>6. ASSUME UNCHANGED <<sequence, log, emitting, published>> PROVE IInv'
    BY <1>6, <1>s DEF Appended
  <1>7. ASSUME NEW k \in Clients, Open(k) \/ Serve(k) \/ Forward(k) \/ Write(k) PROVE IInv'
    BY <1>6, <1>7 DEF Open, Serve, ReadCurrent, ReadLog, EnqueueReplay, Forward, Write
  <1>8. ASSUME KeysExpire PROVE IInv'
    BY <1>8, FS_EmptySet, SizeAssumption, <1>q DEF KeysExpire, LogBounded, NoHoles, Appended
  <1> QED
    BY <1>1, <1>2, <1>3, <1>4, <1>5, <1>6, <1>7, <1>8 DEF Next, Emit, vars

LEMMA WindowInvariant == Spec => []IInv
  <1>1. Init => IInv
    BY FS_EmptySet, SizeAssumption
       DEF Init, IInv, NumbersTyped, LogBounded, NoHoles, Appended, Quiet
  <1> QED
    BY <1>1, WindowInductive, PTL DEF Spec

\* Every published event that a resume may ask for is in the log, or so is nothing
\* before it: Broker.Emit stores before it publishes, and AppendReplay trims from the front.
THEOREM LogHasNoHoles == Spec => []ReplayHasNoHoles
  <1>1. IInv => ReplayHasNoHoles
    BY DEF IInv, NumbersTyped, NoHoles, Appended, ReplayHasNoHoles
  <1> QED
    BY <1>1, WindowInvariant, PTL

-----------------------------------------------------------------------------
(* What a page gets *)

\* Numbers are drawn from the sequence, which starts again only when nothing is under way.
NumbersDrawn ==
    /\ \A e \in published : e <= sequence
    /\ \A m \in Emitters : emitting[m].event <= sequence

HasAfter(k, n) == \A e \in published : e > n => e \in Has(k)

\* A handler that has read the sequence gets what is numbered afterwards through its
\* subscription; one that has answered with a replay has everything after the resume.
Promise(k) ==
    k \notin interrupted /\ ~socket[k].deaf =>
        /\ socket[k].phase = "reading" => HasAfter(k, socket[k].current)
        /\ socket[k].phase \in {"replaying", "open"} /\ socket[k].after > 0 =>
             HasAfter(k, socket[k].after)

\* A connection has events to replay only while it replays them.
Replays(k) == socket[k].replay # {} => socket[k].phase = "replaying"

ResumeInv ==
    /\ NumbersDrawn
    /\ \A k \in Clients : Replays(k) /\ Promise(k)

LEMMA InSeqAppend ==
    ASSUME NEW S, NEW s \in Seq(S), NEW e \in S
    PROVE  InSeq(Append(s, e)) = InSeq(s) \cup {e}
  <1> DEFINE t == Append(s, e)
             n == Len(s)
  <1>1. n \in Nat /\ Len(t) = n + 1 /\ t[n + 1] = e /\ \A i \in 1..n : t[i] = s[i]
    OBVIOUS
  <1>2. InSeq(t) = {t[i] : i \in 1..n + 1} /\ InSeq(s) = {s[i] : i \in 1..n}
    BY <1>1 DEF InSeq
  <1>3. 1..n + 1 = (1..n) \cup {n + 1}
    BY <1>1
  <1> HIDE DEF t, n
  <1>4. InSeq(t) = InSeq(s) \cup {e}
    BY <1>1, <1>2, <1>3
  <1> QED
    BY <1>4 DEF t

LEMMA InSeqTail ==
    ASSUME NEW S, NEW s \in Seq(S), s # <<>>
    PROVE  InSeq(s) \subseteq InSeq(Tail(s)) \cup {Head(s)}
  <1> SUFFICES ASSUME NEW i \in 1..Len(s) PROVE s[i] \in InSeq(Tail(s)) \cup {Head(s)}
    BY DEF InSeq
  <1>1. CASE i = 1
    BY <1>1
  <1>2. CASE i # 1
    <2>1. /\ i - 1 \in 1..Len(Tail(s)) /\ Tail(s)[i - 1] = s[i]
      BY <1>2
    <2> QED
      BY <2>1 DEF InSeq
  <1> QED
    BY <1>1, <1>2

\* A page that keeps its connection, its threshold and what it has keeps the promise.
LEMMA PromiseKept ==
    ASSUME NEW k \in Clients, Promise(k), published' = published, interrupted' = interrupted,
           socket'[k].deaf = socket[k].deaf, socket'[k].after = socket[k].after,
           \/ socket'[k].phase = socket[k].phase /\ socket'[k].current = socket[k].current
           \/ socket[k].phase = "replaying" /\ socket'[k].phase \in {"open", "closing"},
           Has(k) \subseteq Has(k)' \/ socket'[k].phase = "closing"
    PROVE  Promise(k)'
  <1>1. ASSUME NEW n, HasAfter(k, n), Has(k) \subseteq Has(k)'
        PROVE  \A e \in published' : e > n => e \in Has(k)'
    BY <1>1 DEF HasAfter
  <1> QED
    BY <1>1 DEF Promise, HasAfter

LEMMA PromiseSame ==
    ASSUME NEW k \in Clients, Promise(k), published' = published, interrupted' = interrupted,
           socket'[k] = socket[k], seen'[k] = seen[k]
    PROVE  Promise(k)'
  BY DEF Promise, HasAfter, Has

\* Nothing is promised before the answer, nor to a page that loads through REST.
LEMMA NoPromise ==
    ASSUME NEW k \in Clients,
           \/ socket'[k].phase \notin {"reading", "replaying", "open"}
           \/ socket'[k].phase = "open" /\ socket'[k].after = 0
           \/ socket'[k].deaf
    PROVE  Promise(k)'
  BY DEF Promise

LEMMA AbandonPromise ==
    ASSUME NEW m, Abandon(m), NEW k \in Clients, Promise(k),
           UNCHANGED <<published, interrupted, seen>>
    PROVE  Promise(k)'
  <1>1. CASE k = m
    <2>1. socket'[k].phase = "offline"
      BY <1>1 DEF Abandon, Offline
    <2> QED
      BY <2>1, NoPromise
  <1>2. CASE k # m
    BY <1>2, PromiseSame DEF Abandon
  <1> QED
    BY <1>1, <1>2

\* PUBLISH reaches every page that listens, but for those counted as interrupted.
LEMMA PublishPromise ==
    ASSUME TypeOK, NEW m \in Emitters, Publish(m), NEW k \in Clients, Promise(k)
    PROVE  Promise(k)'
  <1>1. PICK e : e = emitting[m].event
    OBVIOUS
  <1>2. e \in Event
    BY <1>1 DEF Publish, TypeOK, Event
  <1>3. PICK lost \in SUBSET {c \in Clients : Listens(c)} :
            /\ socket' = [c \in Clients |->
                  LET s == IF c = m THEN Continue(socket[c]) ELSE socket[c] IN
                  IF Listens(c) /\ c \notin lost THEN [s EXCEPT !.inbox = Append(@, e)] ELSE s]
            /\ interrupted' = interrupted \cup lost
    BY <1>1 DEF Publish
  <1>4. published' = published \cup {e} /\ seen' = seen
    BY <1>1 DEF Publish
  <1>5. PICK s : s = IF k = m THEN Continue(socket[k]) ELSE socket[k]
    OBVIOUS
  <1>6. socket[k] \in Socket
    BY DEF TypeOK, Socket
  <1>7. \/ s = socket[k]
        \/ s.phase = "resuming"
        \/ s.phase = "open" /\ s.after = 0
    BY <1>5, <1>6 DEF Continue, Socket
  <1>8. s.deaf = socket[k].deaf /\ s \in Socket
    BY <1>5, <1>6 DEF Continue, Socket, Connected
  <1>9. socket'[k] = IF Listens(k) /\ k \notin lost THEN [s EXCEPT !.inbox = Append(@, e)] ELSE s
    BY <1>3, <1>5
  <1>10. PICK inbox : inbox = IF Listens(k) /\ k \notin lost THEN Append(s.inbox, e) ELSE s.inbox
    OBVIOUS
  <1>11. /\ socket'[k].phase = s.phase /\ socket'[k].after = s.after /\ socket'[k].deaf = s.deaf
         /\ socket'[k].current = s.current /\ socket'[k].inbox = inbox
         /\ socket'[k].replay = s.replay /\ socket'[k].queue = s.queue
    BY <1>8, <1>9, <1>10 DEF Socket
  <1>12. CASE ~(s = socket[k])
    BY <1>7, <1>11, <1>12, NoPromise
  <1>13. CASE s = socket[k]
    <2>1. CASE k \in lost \/ socket[k].deaf \/ socket[k].phase = "offline"
      BY <1>3, <1>11, <1>13, <2>1 DEF Promise
    <2>2. CASE ~(k \in lost \/ socket[k].deaf \/ socket[k].phase = "offline")
      <3>1. Listens(k)
        BY <1>6, <2>2 DEF Listens, Socket
      <3>2. InSeq(inbox) = InSeq(socket[k].inbox) \cup {e}
        BY <1>2, <1>6, <1>10, <1>13, <2>2, <3>1, InSeqAppend DEF Socket
      <3>3. Has(k)' = Has(k) \cup {e}
        BY <1>4, <1>11, <1>13, <3>2 DEF Has
      <3>4. k \notin interrupted' => k \notin interrupted
        BY <1>3
      <3>5. ASSUME NEW n, HasAfter(k, n) PROVE \A f \in published' : f > n => f \in Has(k)'
        BY <1>4, <3>3, <3>5 DEF HasAfter
      <3> QED
        BY <1>11, <1>13, <3>4, <3>5 DEF Promise, HasAfter
    <2> QED
      BY <2>1, <2>2
  <1> QED
    BY <1>12, <1>13

\* A replay leaves nothing out: what the log lost is older than all it has, and then
\* the answer is to resynchronize, unless it was numbered after the sequence was read.
LEMMA ReadLogPromise ==
    ASSUME TypeOK, IInv, NEW k \in Clients, ReadLog(k), Promise(k), Replays(k)
    PROVE  Promise(k)'
  <1>1. PICK s : s = socket[k]
    OBVIOUS
  <1>2. PICK events : events = {e \in log : e > s.after}
    OBVIOUS
  <1>3. s \in Socket /\ s.phase = "reading" /\ s.after \in Nat /\ s.current \in Nat
    BY <1>1 DEF ReadLog, TypeOK, Socket
  <1>4. UNCHANGED <<published, interrupted, seen>>
    BY DEF ReadLog
  <1>5. CASE OutsideWindow(s, events)
    <2>1. socket' = [socket EXCEPT ![k] = [s EXCEPT !.phase = "resyncing", !.current = 0]]
      BY <1>1, <1>2, <1>5 DEF ReadLog
    <2>2. socket'[k].phase = "resyncing"
      BY <1>1, <1>3, <2>1 DEF TypeOK, Socket
    <2> QED
      BY <2>2, NoPromise
  <1>6. CASE ~OutsideWindow(s, events)
    <2>1. PICK new : new = [s EXCEPT !.phase = "replaying", !.current = 0, !.replay = events]
      OBVIOUS
    <2>2. socket' = [socket EXCEPT ![k] = new]
      BY <1>1, <1>2, <1>6, <2>1 DEF ReadLog
    <2>3. socket'[k] = new
      BY <2>2 DEF TypeOK
    <2>4. /\ new.phase = "replaying" /\ new.after = s.after /\ new.deaf = s.deaf
          /\ new.replay = events /\ new.inbox = s.inbox /\ new.queue = s.queue
      BY <1>3, <2>1 DEF Socket
    <2>5. Has(k)' = seen[k] \cup events \cup InSeq(s.inbox) \cup InSeq(s.queue)
      BY <1>4, <2>3, <2>4 DEF Has
    <2>6. ASSUME k \notin interrupted, ~s.deaf, NEW e \in published, e > s.after
          PROVE  e \in Has(k)'
      <3>1. e \in Nat
        BY DEF TypeOK, Event
      <3>2. CASE e \in log
        BY <1>2, <2>5, <2>6, <3>2
      <3>3. CASE e \notin log
        <4>1. \A f \in log : e < f /\ f \in Nat
          BY <3>3 DEF IInv, NoHoles, Appended, NumbersTyped
        <4>2. \A f \in events : f > s.after + 1
          BY <1>2, <1>3, <2>6, <3>1, <4>1
        <4>3. ~(s.current > s.after)
          BY <1>6, <4>2 DEF OutsideWindow
        <4>4. e > s.current
          BY <1>3, <2>6, <3>1, <4>3
        <4>5. e \in Has(k)
          BY <1>1, <1>3, <2>6, <4>4 DEF Promise, HasAfter
        <4>6. s.replay \subseteq events
          <5>1. s.replay = {}
            BY <1>1, <1>3 DEF Replays
          <5> QED
            BY <5>1
        <4> QED
          BY <1>1, <2>5, <4>5, <4>6 DEF Has
      <3> QED
        BY <3>2, <3>3
    <2> QED
      BY <1>1, <1>4, <2>3, <2>4, <2>6 DEF Promise, HasAfter
  <1> QED
    BY <1>5, <1>6

\* The steps of one connection, as that connection sees them.
LEMMA ConnectionPromise ==
    ASSUME TypeOK, IInv, NumbersDrawn, NEW k \in Clients, Promise(k), Replays(k),
           \/ Open(k) \/ ReadCurrent(k) \/ ReadLog(k) \/ EnqueueReplay(k)
           \/ Forward(k) \/ Write(k) \/ Drop(k)
    PROVE  Promise(k)'
  <1>1. socket[k] \in Socket /\ socket \in [Clients -> Socket] /\ seen \in [Clients -> SUBSET Event]
    BY DEF TypeOK, Socket
  <1> DEFINE s == socket[k]
  <1>2. CASE Open(k)
    <2>1. socket'[k].phase = "connecting"
      BY <1>1, <1>2 DEF Open, Offline
    <2> QED
      BY <2>1, NoPromise
  <1>3. CASE ReadCurrent(k)
    <2>1. socket' = [socket EXCEPT ![k] = [s EXCEPT !.phase = "reading", !.current = sequence]]
      BY <1>3 DEF ReadCurrent
    <2>2. socket'[k].phase = "reading" /\ socket'[k].current = sequence
      BY <1>1, <2>1 DEF Socket
    <2>3. \A e \in published' : ~(e > socket'[k].current)
      BY <1>3, <2>2 DEF ReadCurrent, NumbersDrawn, TypeOK, Event
    <2> QED
      BY <2>2, <2>3 DEF Promise, HasAfter
  <1>4. CASE ReadLog(k)
    BY <1>4, ReadLogPromise
  <1>5. CASE EnqueueReplay(k)
    <2>1. UNCHANGED <<published, interrupted, seen>> /\ s.phase = "replaying"
      BY <1>5 DEF EnqueueReplay
    <2>2. CASE s.replay = {} /\ socket' = [socket EXCEPT ![k].phase = "open"]
      <3>1. /\ socket'[k].phase = "open" /\ socket'[k].after = s.after /\ socket'[k].deaf = s.deaf
            /\ socket'[k].replay = s.replay /\ socket'[k].inbox = s.inbox
            /\ socket'[k].queue = s.queue
        BY <1>1, <2>2 DEF Socket
      <3>2. Has(k)' = Has(k)
        BY <2>1, <3>1 DEF Has
      <3> QED
        BY <2>1, <3>1, <3>2, PromiseKept
    <2>3. ASSUME NEW e \in s.replay, Len(s.queue) < QueueSize,
                 socket' = [socket EXCEPT ![k] =
                     [s EXCEPT !.queue = Append(@, e), !.replay = @ \ {e}]]
          PROVE  Promise(k)'
      <3>1. /\ socket'[k].phase = s.phase /\ socket'[k].after = s.after /\ socket'[k].deaf = s.deaf
            /\ socket'[k].current = s.current
            /\ socket'[k].replay = s.replay \ {e} /\ socket'[k].inbox = s.inbox
            /\ socket'[k].queue = Append(s.queue, e)
        BY <1>1, <2>3 DEF Socket
      <3>2. InSeq(Append(s.queue, e)) = InSeq(s.queue) \cup {e}
        BY <1>1, <2>3, InSeqAppend DEF Socket
      <3>3. Has(k) \subseteq Has(k)'
        BY <2>1, <3>1, <3>2 DEF Has
      <3> QED
        BY <2>1, <3>1, <3>3, PromiseKept
    <2>4. CASE socket' = [socket EXCEPT ![k] = [s EXCEPT !.phase = "closing", !.replay = {}]]
      <3>1. socket'[k].phase = "closing"
        BY <1>1, <2>4 DEF Socket
      <3> QED
        BY <3>1, NoPromise
    <2> QED
      BY <1>5, <2>2, <2>3, <2>4 DEF EnqueueReplay
  <1>6. CASE Forward(k)
    <2>1. UNCHANGED <<published, interrupted, seen>> /\ s.inbox # <<>>
      BY <1>6 DEF Forward
    <2>2. CASE Len(s.queue) < QueueSize
      <3>1. socket' = [socket EXCEPT ![k] =
                [s EXCEPT !.inbox = Tail(@), !.queue = Append(@, Head(s.inbox))]]
        BY <1>6, <2>2 DEF Forward
      <3>2. /\ socket'[k].phase = s.phase /\ socket'[k].after = s.after /\ socket'[k].deaf = s.deaf
            /\ socket'[k].current = s.current /\ socket'[k].replay = s.replay
            /\ socket'[k].inbox = Tail(s.inbox)
            /\ socket'[k].queue = Append(s.queue, Head(s.inbox))
        BY <1>1, <3>1 DEF Socket
      <3>3. s.inbox \in Seq(Event) /\ s.queue \in Seq(Event) /\ Head(s.inbox) \in Event
        BY <1>1, <2>1 DEF Socket
      <3>4. /\ InSeq(Append(s.queue, Head(s.inbox))) = InSeq(s.queue) \cup {Head(s.inbox)}
            /\ InSeq(s.inbox) \subseteq InSeq(Tail(s.inbox)) \cup {Head(s.inbox)}
        BY <2>1, <3>3, InSeqAppend, InSeqTail
      <3>5. Has(k) \subseteq Has(k)'
        BY <2>1, <3>2, <3>4 DEF Has
      <3> QED
        BY <2>1, <3>2, <3>5, PromiseKept
    <2>3. CASE ~(Len(s.queue) < QueueSize)
      <3>1. socket' = [socket EXCEPT ![k] = [s EXCEPT !.inbox = <<>>, !.deaf = TRUE]]
        BY <1>6, <2>3 DEF Forward
      <3>2. socket'[k].deaf = TRUE
        BY <1>1, <3>1 DEF Socket
      <3> QED
        BY <3>2, NoPromise
    <2> QED
      BY <2>2, <2>3
  <1>7. CASE Write(k)
    <2>1. /\ UNCHANGED <<published, interrupted>> /\ s.queue # <<>>
          /\ socket' = [socket EXCEPT ![k].queue = Tail(@)]
          /\ seen[k] \cup {Head(s.queue)} \subseteq seen'[k]
      BY <1>1, <1>7 DEF Write
    <2>2. /\ socket'[k].phase = s.phase /\ socket'[k].after = s.after /\ socket'[k].deaf = s.deaf
          /\ socket'[k].current = s.current /\ socket'[k].replay = s.replay
          /\ socket'[k].inbox = s.inbox /\ socket'[k].queue = Tail(s.queue)
      BY <1>1, <2>1 DEF Socket
    <2>3. InSeq(s.queue) \subseteq InSeq(Tail(s.queue)) \cup {Head(s.queue)}
      BY <1>1, <2>1, InSeqTail DEF Socket
    <2>4. Has(k) \subseteq Has(k)'
      BY <2>1, <2>2, <2>3 DEF Has
    <2> QED
      BY <2>1, <2>2, <2>4, PromiseKept
  <1>8. CASE Drop(k)
    <2>1. socket'[k].phase = "offline"
      BY <1>1, <1>8 DEF Drop, Offline
    <2> QED
      BY <2>1, NoPromise
  <1> QED
    BY <1>2, <1>3, <1>4, <1>5, <1>6, <1>7, <1>8

\* What a connection does leaves the others alone.
LEMMA OtherPromise ==
    ASSUME TypeOK, NEW c \in Clients, NEW k \in Clients \ {c}, Promise(k),
           \/ Open(c) \/ ReadCurrent(c) \/ ReadLog(c) \/ EnqueueReplay(c)
           \/ Forward(c) \/ Write(c) \/ Drop(c)
    PROVE  Promise(k)'
  <1>1. socket'[k] = socket[k] /\ seen'[k] = seen[k] /\ UNCHANGED published
    BY DEF TypeOK, Open, ReadCurrent, ReadLog, EnqueueReplay, Forward, Write, Drop
  <1>2. k \in interrupted' <=> k \in interrupted
    BY DEF Open, ReadCurrent, ReadLog, EnqueueReplay, Forward, Write, Drop
  <1> QED
    BY <1>1, <1>2 DEF Promise, HasAfter, Has

LEMMA DrawnStep == TypeOK /\ NumbersDrawn /\ [Next]_vars => NumbersDrawn'
  <1> SUFFICES ASSUME TypeOK, NumbersDrawn, [Next]_vars PROVE NumbersDrawn'
    OBVIOUS
  <1> USE DEF NumbersDrawn
  <1>1. /\ sequence \in Nat /\ published \subseteq Nat
        /\ emitting \in [Emitters -> [stage : {"idle", "numbered", "stored"}, event : Nat]]
    BY DEF TypeOK, Event
  <1>2. ASSUME NEW m \in Emitters, Emit(m) PROVE NumbersDrawn'
    <2>1. CASE NextSequence(m)
      BY <1>1, <2>1 DEF NextSequence, Abandon, Quiet
    <2>2. CASE AppendReplay(m)
      BY <1>1, <2>2 DEF AppendReplay, Abandon, Quiet
    <2>3. CASE Publish(m)
      BY <1>1, <2>3 DEF Publish, Quiet
    <2>4. CASE PublishFails(m)
      BY <1>1, <2>4 DEF PublishFails, Abandon, Quiet
    <2> QED
      BY <1>2, <2>1, <2>2, <2>3, <2>4 DEF Emit
  <1>3. ASSUME NEW k \in Clients, Drop(k) PROVE NumbersDrawn'
    BY <1>1, <1>3 DEF Drop, Quiet
  <1>4. CASE KeysExpire
    BY <1>1, <1>4 DEF KeysExpire, Quiet
  <1>5. CASE UNCHANGED <<sequence, published, emitting>>
    BY <1>5
  <1>6. ASSUME NEW k \in Clients, Open(k) \/ Serve(k) \/ Forward(k) \/ Write(k)
        PROVE  UNCHANGED <<sequence, published, emitting>>
    BY <1>6 DEF Open, Serve, ReadCurrent, ReadLog, EnqueueReplay, Forward, Write
  <1> QED
    BY <1>2, <1>3, <1>4, <1>5, <1>6 DEF Next, vars

LEMMA ReplaysStep ==
    ASSUME TypeOK, [Next]_vars, NEW k \in Clients, Replays(k)
    PROVE  Replays(k)'
  <1>1. socket[k] \in Socket /\ socket \in [Clients -> Socket]
    BY DEF TypeOK, Socket
  <1> USE DEF Replays
  <1>2. CASE socket'[k] = socket[k] \/ socket'[k].replay = {}
    BY <1>2
  <1>3. ASSUME NEW m \in Emitters, Emit(m) PROVE Replays(k)'
    <2>1. CASE UNCHANGED socket
      BY <1>2, <2>1
    <2>2. CASE Abandon(m)
      BY <1>2, <2>2 DEF Abandon, Offline
    <2>3. CASE Publish(m)
      <3>1. PICK e : e = emitting[m].event
        OBVIOUS
      <3>2. PICK s : s = IF k = m THEN Continue(socket[k]) ELSE socket[k]
        OBVIOUS
      <3>3. /\ s \in Socket
            /\ s = socket[k] \/ (s.replay = socket[k].replay /\ socket[k].phase # "replaying")
        BY <1>1, <3>2 DEF Continue, Socket, Connected
      <3>4. socket'[k] = s \/ socket'[k] = [s EXCEPT !.inbox = Append(@, e)]
        BY <2>3, <3>1, <3>2 DEF Publish
      <3>5. socket'[k].replay = s.replay /\ socket'[k].phase = s.phase
        BY <3>3, <3>4 DEF Socket
      <3> QED
        BY <3>3, <3>5
    <2> QED
      BY <1>3, <2>1, <2>2, <2>3 DEF Emit, NextSequence, AppendReplay, PublishFails
  <1>4. ASSUME NEW c \in Clients, Open(c) \/ Serve(c) \/ Forward(c) \/ Write(c) \/ Drop(c)
        PROVE  Replays(k)'
    <2>1. CASE c # k
      <3>1. socket'[k] = socket[k]
        BY <1>1, <1>4, <2>1
           DEF Open, Serve, ReadCurrent, ReadLog, EnqueueReplay, Forward, Write, Drop
      <3> QED
        BY <1>2, <3>1
    <2>2. CASE Open(k) \/ Drop(k)
      <3>1. Open(k) => socket'[k] = [Offline EXCEPT !.phase = "connecting", !.after = last[k]]
        BY <1>1 DEF Open
      <3>2. Drop(k) => socket'[k] = Offline
        BY <1>1 DEF Drop
      <3>3. Offline.replay = {} /\ [Offline EXCEPT !.phase = "connecting", !.after = last[k]].replay = {}
        BY DEF Offline
      <3>4. socket'[k].replay = {}
        BY <2>2, <3>1, <3>2, <3>3
      <3> QED
        BY <1>2, <3>4
    <2>3. CASE ReadCurrent(k)
      <3>1. socket'[k] = [socket[k] EXCEPT !.phase = "reading", !.current = sequence]
        BY <1>1, <2>3 DEF ReadCurrent
      <3>2. socket'[k].replay = socket[k].replay
        BY <1>1, <3>1 DEF Socket
      <3> QED
        BY <1>2, <2>3, <3>2 DEF ReadCurrent
    <2>4. CASE ReadLog(k)
      <3> DEFINE events == {e \in log : e > socket[k].after}
      <3>1. \/ socket'[k] = [socket[k] EXCEPT !.phase = "resyncing", !.current = 0]
            \/ socket'[k] = [socket[k] EXCEPT !.phase = "replaying", !.current = 0, !.replay = events]
        BY <1>1, <2>4 DEF ReadLog
      <3> HIDE DEF events
      <3>2. socket'[k].replay = socket[k].replay \/ socket'[k].phase = "replaying"
        BY <1>1, <3>1 DEF Socket
      <3> QED
        BY <1>2, <2>4, <3>2 DEF ReadLog
    <2>5. CASE EnqueueReplay(k)
      <3>1. \/ socket[k].replay = {} /\ socket'[k] = [socket[k] EXCEPT !.phase = "open"]
            \/ socket'[k] = [socket[k] EXCEPT !.phase = "closing", !.replay = {}]
            \/ \E e : socket'[k] = [socket[k] EXCEPT !.queue = Append(@, e), !.replay = @ \ {e}]
        BY <1>1, <2>5 DEF EnqueueReplay
      <3>2. socket'[k].replay = {} \/ socket'[k].phase = socket[k].phase
        BY <1>1, <3>1 DEF Socket
      <3> QED
        BY <2>5, <3>2 DEF EnqueueReplay
    <2>6. CASE Forward(k) \/ Write(k)
      <3> DEFINE e == Head(socket[k].inbox)
                 moved == [socket[k] EXCEPT !.inbox = Tail(@), !.queue = Append(@, e)]
                 full == [socket[k] EXCEPT !.inbox = <<>>, !.deaf = TRUE]
                 written == [socket[k] EXCEPT !.queue = Tail(@)]
      <3>1. socket'[k] \in {moved, full, written}
        BY <1>1, <2>6 DEF Forward, Write
      <3>2. \A s \in {moved, full, written} :
                s.replay = socket[k].replay /\ s.phase = socket[k].phase
        BY <1>1 DEF Socket
      <3> QED
        BY <3>1, <3>2
    <2> QED
      BY <1>4, <2>1, <2>2, <2>3, <2>4, <2>5, <2>6 DEF Serve
  <1>5. CASE KeysExpire \/ UNCHANGED vars
    BY <1>2, <1>5 DEF KeysExpire, vars
  <1> QED
    BY <1>3, <1>4, <1>5 DEF Next

LEMMA PromiseStep ==
    ASSUME TypeOK, IInv, ResumeInv, [Next]_vars, NEW k \in Clients
    PROVE  Promise(k)'
  <1>1. NumbersDrawn /\ Promise(k) /\ Replays(k)
    BY DEF ResumeInv
  <1>2. ASSUME NEW m \in Emitters, Emit(m) PROVE Promise(k)'
    <2>1. CASE Publish(m)
      BY <1>1, <2>1, PublishPromise
    <2>2. CASE UNCHANGED <<socket, seen, published, interrupted>>
      BY <1>1, <2>2, PromiseSame
    <2>3. CASE Abandon(m) /\ UNCHANGED <<published, interrupted, seen>>
      BY <1>1, <2>3, AbandonPromise
    <2> QED
      BY <1>2, <2>1, <2>2, <2>3 DEF Emit, NextSequence, AppendReplay, PublishFails
  <1>3. ASSUME NEW c \in Clients, Open(c) \/ Serve(c) \/ Forward(c) \/ Write(c) \/ Drop(c)
        PROVE  Promise(k)'
    <2>1. \/ Open(c) \/ ReadCurrent(c) \/ ReadLog(c) \/ EnqueueReplay(c)
          \/ Forward(c) \/ Write(c) \/ Drop(c)
      BY <1>3 DEF Serve
    <2>2. CASE c = k
      BY <1>1, <2>1, <2>2, ConnectionPromise
    <2>3. CASE c # k
      BY <1>1, <2>1, <2>3, OtherPromise
    <2> QED
      BY <2>2, <2>3
  <1>4. CASE KeysExpire
    <2>1. socket'[k].phase = "offline"
      BY <1>4 DEF KeysExpire
    <2> QED
      BY <2>1, NoPromise
  <1>5. CASE UNCHANGED vars
    BY <1>1, <1>5, PromiseSame DEF vars
  <1> QED
    BY <1>2, <1>3, <1>4, <1>5 DEF Next

\* A resume that was answered by a replay delivers every event with a higher number, for
\* any length of log and queues and any number of emitters: Serve subscribes before it
\* reads, Replay reads the sequence before the log, and the log has no holes.
THEOREM ReplayAlwaysComplete == Spec => []ReplayIsComplete
  <1>1. Init => ResumeInv
    BY DEF Init, ResumeInv, NumbersDrawn, Replays, Promise, Offline, Quiet
  <1>2. TypeOK /\ IInv /\ ResumeInv /\ [Next]_vars => ResumeInv'
    BY DrawnStep, ReplaysStep, PromiseStep DEF ResumeInv
  <1>3. ResumeInv => ReplayIsComplete
    BY DEF ResumeInv, Promise, HasAfter, ReplayIsComplete
  <1> QED
    BY <1>1, <1>2, <1>3, TypeCorrect, WindowInvariant, PTL DEF Spec
=============================================================================
