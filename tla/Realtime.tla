------------------------------ MODULE Realtime ------------------------------
(***************************************************************************)
(* The events of one actor: the broker (internal/realtime/broker.go), its  *)
(* sequence, replay log and topic in Redis, the WebSocket handler          *)
(* (handler.go) and the page that reconnects and resumes.                  *)
(*                                                                         *)
(* Every goroutine that emits does so in three Redis commands, each an     *)
(* action here, and so are the two reads of a resume: other emitters and   *)
(* other connections of the actor act in between.                          *)
(***************************************************************************)
EXTENDS Naturals, FiniteSets, Sequences

CONSTANTS
    Clients,        \* pages of the actor, each with one WebSocket at a time
    Sources,        \* goroutines that emit: generations and heartbeat loops
    ReplayLimit,    \* events the replay log keeps
    QueueSize,      \* capacity of a connection's write queue
    MaxSequence     \* bound: numbers drawn, but by connections that are open

ASSUME EmitterAssumption == Clients \cap Sources = {}
ASSUME SizeAssumption == {ReplayLimit, QueueSize, MaxSequence} \subseteq Nat \ {0}

Emitters == Clients \cup Sources

VARIABLES
    sequence,       \* the sequence key, 0 when it is absent
    log,            \* the replay log
    emitting,       \* emitting[m]: how far m's Emit got, and its event
    socket,         \* socket[k]: the handler's side of the connection of k
    last,           \* last[k]: the highest number k has seen
    seen,           \* seen[k]: events, since the keys expired, whose effect k shows
    published,      \* history: events that were published since the keys expired
    resyncs,        \* events of type connection.resync_required
    interrupted     \* history: pages with a subscription that lost a message

vars == <<sequence, log, emitting, socket, last, seen, published, resyncs, interrupted>>

\* An event is known by its number; there is no event 0.
Event == Nat \ {0}

Quiet == [stage |-> "idle", event |-> 0]
Offline == [phase |-> "offline", after |-> 0, current |-> 0, replay |-> {},
            inbox |-> <<>>, queue |-> <<>>, deaf |-> FALSE]

\* Phases of Serve and readLoop: connection.ready, then a resume if the page sent one;
\* "closing" after readLoop failed.  A socket is deaf once its subscriptionLoop failed.
Connected == {"connecting", "resuming", "reading", "replaying", "resyncing", "open", "closing"}
Listens(k) == socket[k].phase \in Connected /\ ~socket[k].deaf

InSeq(s) == {s[i] : i \in 1..Len(s)}

TypeOK ==
    /\ sequence \in Nat
    /\ log \subseteq Event
    /\ emitting \in [Emitters -> [stage : {"idle", "numbered", "stored"}, event : Nat]]
    /\ \A m \in Emitters : emitting[m].stage = "idle" <=> emitting[m].event = 0
    /\ socket \in [Clients -> [phase : Connected \cup {"offline"}, after : Nat, current : Nat,
                               replay : SUBSET Event, inbox : Seq(Event), queue : Seq(Event),
                               deaf : BOOLEAN]]
    /\ \A k \in Clients : Len(socket[k].queue) <= QueueSize
    /\ last \in [Clients -> Nat]
    /\ seen \in [Clients -> SUBSET Event]
    /\ resyncs \subseteq Event /\ published \subseteq Event
    /\ interrupted \subseteq Clients

Init ==
    /\ sequence = 0
    /\ log = {}
    /\ emitting = [m \in Emitters |-> Quiet]
    /\ socket = [k \in Clients |-> Offline]
    /\ last = [k \in Clients |-> 0]
    /\ seen = [k \in Clients |-> {}]
    /\ published = {}
    /\ resyncs = {}
    /\ interrupted = {}

-----------------------------------------------------------------------------
(* Broker.Emit *)

\* The ZREMRANGEBYRANK of AppendReplay.  Variant: it trims from the other end.
Oldest(events) == {e \in events : Cardinality({f \in events : f < e}) < ReplayLimit}
Newest(events) == {e \in events : Cardinality({f \in events : f > e}) < ReplayLimit}

\* A handler emits connection.ready first, and connection.resync_required for a resume
\* it cannot serve.
WantsToEmit(m) ==
    /\ emitting[m].stage = "idle"
    /\ \/ m \in Sources /\ sequence < MaxSequence
       \/ m \in Clients /\ socket[m].phase \in {"connecting", "resyncing"}

\* Emit returns an error: a handler closes the connection, a generation goes on.
Abandon(m) ==
    /\ emitting' = [emitting EXCEPT ![m] = Quiet]
    /\ socket' = [k \in Clients |-> IF k = m THEN Offline ELSE socket[k]]

\* INCR, then EXPIRE; when either fails the number may be spent without an event.
NextSequence(m) ==
    /\ WantsToEmit(m)
    /\ sequence' = sequence + 1
    /\ \/ /\ emitting' = [emitting EXCEPT ![m] = [stage |-> "numbered", event |-> sequence + 1]]
          /\ UNCHANGED socket
       \/ Abandon(m)
    /\ UNCHANGED <<log, last, seen, published, resyncs, interrupted>>

\* ZADD and ZREMRANGEBYRANK, in one transaction of Redis; its reply may be lost.
AppendReplay(m) ==
    /\ emitting[m].stage = "numbered"
    /\ \/ /\ log' = Newest(log \cup {emitting[m].event})
          /\ emitting' = [emitting EXCEPT ![m].stage = "stored"]
          /\ UNCHANGED socket
       \/ log' \in {log, Newest(log \cup {emitting[m].event})} /\ Abandon(m)
    /\ resyncs' = IF m \in Clients /\ socket[m].phase = "resyncing"
                  THEN resyncs \cup {emitting[m].event} ELSE resyncs
    /\ UNCHANGED <<sequence, last, seen, published, interrupted>>

\* The phase of a handler after its event went out.
Continue(s) ==
    CASE s.phase = "connecting" /\ s.after > 0 -> [s EXCEPT !.phase = "resuming"]
      [] s.phase = "connecting" /\ s.after = 0 -> [s EXCEPT !.phase = "open"]
      [] s.phase = "resyncing" -> [s EXCEPT !.phase = "open", !.after = 0]
      [] OTHER -> s

\* PUBLISH reaches every subscription, but for those that Redis or the client library
\* has just lost.
Publish(m) ==
    LET e == emitting[m].event IN
    /\ emitting[m].stage = "stored"
    /\ \E lost \in SUBSET {k \in Clients : Listens(k)} :
          /\ socket' = [k \in Clients |->
                LET s == IF k = m THEN Continue(socket[k]) ELSE socket[k] IN
                IF Listens(k) /\ k \notin lost THEN [s EXCEPT !.inbox = Append(@, e)] ELSE s]
          /\ interrupted' = interrupted \cup lost
    /\ published' = published \cup {e}
    /\ emitting' = [emitting EXCEPT ![m] = Quiet]
    /\ UNCHANGED <<sequence, log, last, seen, resyncs>>

\* PUBLISH fails: the event is in the log only.
PublishFails(m) ==
    /\ emitting[m].stage = "stored"
    /\ Abandon(m)
    /\ UNCHANGED <<sequence, log, last, seen, published, resyncs, interrupted>>

-----------------------------------------------------------------------------
(* A connection *)

\* Serve: ticket, upgrade and subscription.  On open the page asks to resume after the
\* last event it has seen; one that has seen none has loaded everything through REST.
Open(k) ==
    /\ socket[k].phase = "offline"
    /\ sequence < MaxSequence
    /\ socket' = [socket EXCEPT ![k] = [Offline EXCEPT !.phase = "connecting", !.after = last[k]]]
    /\ seen' = IF last[k] = 0 THEN [seen EXCEPT ![k] = published] ELSE seen
    /\ interrupted' = interrupted \ {k}
    /\ UNCHANGED <<sequence, log, emitting, last, published, resyncs>>

\* Replay, first read: CurrentSequence.
ReadCurrent(k) ==
    /\ socket[k].phase = "resuming"
    /\ socket' = [socket EXCEPT ![k].phase = "reading", ![k].current = sequence]
    /\ UNCHANGED <<sequence, log, emitting, last, seen, published, resyncs, interrupted>>

\* Variant: one event may be missing in front of the first.
OutsideWindowByTwo(s, events) ==
    /\ s.current > s.after
    /\ \A e \in events : e > s.after + 2

\* The events that follow after are not all in the log any more.
OutsideWindow(s, events) ==
    /\ s.current > s.after
    /\ \A e \in events : e > s.after + 1

\* Replay, second read: ReplayAfter, and the answer.
ReadLog(k) ==
    LET s == socket[k]
        events == {e \in log : e > s.after}
    IN
    /\ s.phase = "reading"
    /\ socket' = [socket EXCEPT ![k] =
          IF OutsideWindow(s, events) THEN [s EXCEPT !.phase = "resyncing", !.current = 0]
          ELSE [s EXCEPT !.phase = "replaying", !.current = 0, !.replay = events]]
    /\ UNCHANGED <<sequence, log, emitting, last, seen, published, resyncs, interrupted>>

\* readLoop enqueues the events in order, and fails when the queue is full.
EnqueueReplay(k) ==
    LET s == socket[k] IN
    /\ s.phase = "replaying"
    /\ \/ /\ s.replay = {}
          /\ socket' = [socket EXCEPT ![k].phase = "open"]
       \/ \E e \in s.replay :
          /\ \A f \in s.replay : e <= f
          /\ socket' = [socket EXCEPT ![k] =
                IF Len(s.queue) < QueueSize
                THEN [s EXCEPT !.queue = Append(@, e), !.replay = @ \ {e}]
                ELSE [s EXCEPT !.phase = "closing", !.replay = {}]]
    /\ UNCHANGED <<sequence, log, emitting, last, seen, published, resyncs, interrupted>>

\* Variant: the queue of a connection has no limit.
ForwardUnbounded(k) ==
    /\ socket[k].inbox # <<>>
    /\ socket' = [socket EXCEPT ![k].inbox = Tail(@), ![k].queue = Append(@, Head(socket[k].inbox))]
    /\ UNCHANGED <<sequence, log, emitting, last, seen, published, resyncs, interrupted>>

\* Variant: an event that finds the queue full is discarded.
ForwardOrDiscard(k) ==
    LET s == socket[k] IN
    /\ s.inbox # <<>>
    /\ socket' = [socket EXCEPT ![k].inbox = Tail(@),
                                ![k].queue = IF Len(@) < QueueSize THEN Append(@, Head(s.inbox)) ELSE @]
    /\ UNCHANGED <<sequence, log, emitting, last, seen, published, resyncs, interrupted>>

\* subscriptionLoop, which returns when the queue is full.
Forward(k) ==
    LET s == socket[k] IN
    /\ s.inbox # <<>>
    /\ socket' = [socket EXCEPT ![k] =
          IF Len(s.queue) < QueueSize
          THEN [s EXCEPT !.inbox = Tail(@), !.queue = Append(@, Head(s.inbox))]
          ELSE [s EXCEPT !.inbox = <<>>, !.deaf = TRUE]]
    /\ UNCHANGED <<sequence, log, emitting, last, seen, published, resyncs, interrupted>>

\* writeLoop, and handleEvent of the page: it notes the number and shows the event; a
\* resynchronization makes it load through REST what happened so far.
Write(k) ==
    LET s == socket[k]
        e == Head(s.queue)
    IN
    /\ s.queue # <<>>
    /\ socket' = [socket EXCEPT ![k].queue = Tail(@)]
    /\ last' = [last EXCEPT ![k] = IF e > @ THEN e ELSE @]
    /\ seen' = [seen EXCEPT ![k] = @ \cup {e} \cup IF e \in resyncs THEN published ELSE {}]
    /\ UNCHANGED <<sequence, log, emitting, published, resyncs, interrupted>>

\* The connection ends: a loop failed, the network, a heartbeat or a write that timed out,
\* the page or the server going away.  The context of its emission is cancelled.
Drop(k) ==
    /\ socket[k].phase # "offline"
    /\ socket' = [socket EXCEPT ![k] = Offline]
    /\ emitting' = [emitting EXCEPT ![k] = Quiet]
    /\ UNCHANGED <<sequence, log, last, seen, published, resyncs, interrupted>>

\* Ten minutes without an event: no heartbeat, so no connection, and no generation.
KeysExpire ==
    /\ sequence > 0
    /\ \A k \in Clients : socket[k].phase = "offline"
    /\ \A m \in Emitters : emitting[m] = Quiet
    /\ sequence' = 0
    /\ log' = {}
    /\ published' = {}
    /\ resyncs' = {}
    /\ seen' = [k \in Clients |-> {}]
    /\ interrupted' = {}
    /\ UNCHANGED <<emitting, socket, last>>

-----------------------------------------------------------------------------

Emit(m) == NextSequence(m) \/ AppendReplay(m) \/ Publish(m) \/ PublishFails(m)
Serve(k) == ReadCurrent(k) \/ ReadLog(k) \/ EnqueueReplay(k)

Next ==
    \/ \E m \in Emitters : Emit(m)
    \/ \E k \in Clients : Open(k) \/ Serve(k) \/ Forward(k) \/ Write(k) \/ Drop(k)
    \/ KeysExpire

Spec == Init /\ [][Next]_vars

\* Serve closes the connection when one of its loops failed.
Close(k) == (socket[k].deaf \/ socket[k].phase = "closing") /\ Drop(k)

\* The goroutines of a connection run: Redis calls end, and writes have a timeout.
FairSpec ==
    /\ Spec
    /\ \A k \in Clients : /\ WF_vars(Serve(k)) /\ WF_vars(Forward(k))
                          /\ WF_vars(Write(k)) /\ WF_vars(Close(k))

-----------------------------------------------------------------------------
(* Properties *)

\* The log has no holes behind its first event, although emitters append out of order:
\* a published event is missing only if everything before it is missing too.
ReplayHasNoHoles == \A e \in published, f \in log : f < e => e \in log

\* What a page has, or is on its way to it.
Has(k) == seen[k] \cup socket[k].replay \cup InSeq(socket[k].inbox) \cup InSeq(socket[k].queue)

\* A resume that was answered by a replay delivers every event with a higher number:
\* the handler subscribes before it reads the log, and Replay reads the log after the
\* sequence.
ReplayIsComplete ==
    \A k \in Clients \ interrupted :
        socket[k].phase \in {"replaying", "open"} /\ ~socket[k].deaf /\ socket[k].after > 0 =>
            \A e \in published : e > socket[k].after => e \in Has(k)

\* An event that is on its way to a page arrives, or the connection is closed: no full
\* queue and no slow page keeps the handler waiting, and nothing is dropped in between.
EventuallyShown ==
    \A k \in Clients, e \in 1..MaxSequence :
        e \in Has(k) ~> e \in seen[k] \/ socket[k].phase = "offline"

=============================================================================
