---------------------------- MODULE GatewayProofs ----------------------------
(***************************************************************************)
(* Proofs about Gateway, for any numbers of callers, probes and slots, any *)
(* limit of failures and any number of retries.                            *)
(***************************************************************************)
EXTENDS Gateway, FiniteSetTheorems, TLAPS

-----------------------------------------------------------------------------
(* The inductive invariant *)

Everybody == Callers \cup Probes

\* Those whose stream or request may still be observed as a failure: once each.
Reporters == {c \in Callers : call[c] \in {"waiting", "calling", "failed", "streaming"}} \cup probing

\* Those who keep a token in the channel.
Holding == {c \in Callers : call[c] = "calling"} \cup holds

Types ==
    /\ slots \in Nat /\ slots <= MaxConcurrent
    /\ failures \in Nat
    /\ circuit \in {"closed", "open", "lapsed"}
    /\ call \in [Callers -> Places]
    /\ attempt \in [Callers -> 0..PreStreamRetry]
    /\ result \in [Callers -> {"none", "retryable", "final", "eof"}]
    /\ holds \in SUBSET Callers
    /\ probing \in SUBSET Probes

\* A stream keeps its slot from the connection to the release.
HoldersStream == \A c \in holds : call[c] \in {"streaming", "ending", "ended"}

\* A closed circuit has counted fewer failures than open it; one that is open counts at most
\* one more for each of those who were inside.
FailuresBounded ==
    IF circuit = "closed" THEN failures < FailureLimit
    ELSE failures + Cardinality(Reporters) < FailureLimit + Cardinality(Everybody)

IInv == Types /\ HoldersStream /\ SlotsAreHeld /\ FailuresBounded

-----------------------------------------------------------------------------
(* Lemmas *)

LEMMA EverybodyFinite == IsFiniteSet(Everybody) /\ Cardinality(Everybody) \in Nat
  BY OptionsAssumption, FS_Union, FS_CardinalityType DEF Everybody

\* Who is no reporter any more leaves one fewer, among everybody too.
LEMMA FewerReporters ==
    ASSUME Types, Types', NEW x \in Reporters, Reporters' \subseteq Reporters \ {x}
    PROVE  /\ Cardinality(Reporters) \in Nat /\ Cardinality(Reporters') \in Nat
           /\ Cardinality(Reporters') < Cardinality(Reporters)
           /\ Cardinality(Reporters') < Cardinality(Everybody)
  <1>1. Reporters \subseteq Everybody
    BY DEF Reporters, Everybody, Types
  <1>2. /\ IsFiniteSet(Reporters) /\ Cardinality(Reporters) \in Nat
        /\ Cardinality(Reporters) <= Cardinality(Everybody)
    BY <1>1, EverybodyFinite, FS_Subset, FS_CardinalityType
  <1>3. /\ IsFiniteSet(Reporters \ {x})
        /\ Cardinality(Reporters \ {x}) = Cardinality(Reporters) - 1
    BY <1>2, FS_RemoveElement
  <1>4. Cardinality(Reporters') \in Nat /\ Cardinality(Reporters') <= Cardinality(Reporters \ {x})
    BY <1>3, FS_Subset, FS_CardinalityType
  <1> QED
    BY <1>2, <1>3, <1>4, EverybodyFinite

\* No new reporter: the bound stays.
LEMMA SameBound ==
    ASSUME Types, Types', FailuresBounded, UNCHANGED <<failures, circuit>>,
           Reporters' \subseteq Reporters
    PROVE  FailuresBounded'
  <1>1. Reporters \subseteq Everybody
    BY DEF Reporters, Everybody, Types
  <1>2. IsFiniteSet(Reporters) /\ Cardinality(Reporters) \in Nat
    BY <1>1, EverybodyFinite, FS_Subset, FS_CardinalityType
  <1>3. Cardinality(Reporters') \in Nat /\ Cardinality(Reporters') <= Cardinality(Reporters)
    BY <1>2, FS_Subset, FS_CardinalityType
  <1>4. Everybody' = Everybody
    BY DEF Everybody
  <1> QED
    BY <1>2, <1>3, <1>4, EverybodyFinite, OptionsAssumption DEF FailuresBounded, Types

\* A request passes the circuit, which is closed then.
LEMMA PassBound ==
    ASSUME Types, FailuresBounded, PassCircuit
    PROVE  FailuresBounded' /\ failures' \in Nat /\ circuit' = "closed"
  BY OptionsAssumption DEF FailuresBounded, PassCircuit, Types

\* An outcome that x reports.
LEMMA ObserveBound ==
    ASSUME Types, Types', FailuresBounded, NEW outcome, Observe(outcome),
           NEW x \in Reporters, Reporters' \subseteq Reporters \ {x}
    PROVE  FailuresBounded'
  <1> DEFINE n == Cardinality(Reporters)
             m == Cardinality(Reporters')
             all == Cardinality(Everybody)
  <1>1. n \in Nat /\ m \in Nat /\ m < n /\ m < all /\ all \in Nat
    BY FewerReporters, EverybodyFinite
  <1>2. Everybody' = Everybody
    BY DEF Everybody
  <1>3. SUFFICES IF circuit' = "closed" THEN failures' < FailureLimit
                 ELSE failures' + m < FailureLimit + all
    BY <1>2 DEF FailuresBounded
  <1>4. IF circuit = "closed" THEN failures < FailureLimit ELSE failures + n < FailureLimit + all
    BY DEF FailuresBounded
  <1>5. CASE outcome \in {"connected", "eof"}
    BY <1>5, OptionsAssumption DEF Observe
  <1>6. CASE outcome \notin {"connected", "eof"} /\ outcome = "final"
    BY <1>1, <1>4, <1>6, OptionsAssumption DEF Observe, Types
  <1>7. CASE outcome \notin {"connected", "eof", "final"}
    BY <1>1, <1>4, <1>7, OptionsAssumption DEF Observe, Types
  <1> QED
    BY <1>5, <1>6, <1>7

\* observe keeps the types of what it writes.
LEMMA ObserveTyped ==
    ASSUME Types, NEW outcome, Observe(outcome)
    PROVE  failures' \in Nat /\ circuit' \in {"closed", "open", "lapsed"}
  BY DEF Observe, Types

\* The slots of those who hold are finitely many.
LEMMA HoldingFinite ==
    ASSUME Types
    PROVE  IsFiniteSet(Holding) /\ Cardinality(Holding) \in Nat
  <1>1. Holding \subseteq Callers
    BY DEF Holding, Types
  <1> QED
    BY <1>1, OptionsAssumption, FS_Subset, FS_CardinalityType

LEMMA InitIInv == Init => IInv
  <1> SUFFICES ASSUME Init PROVE IInv
    OBVIOUS
  <1>1. Holding = {}
    BY DEF Init, Holding
  <1>2. SlotsAreHeld
    BY <1>1, FS_EmptySet DEF Init, SlotsAreHeld, Holding
  <1> QED
    BY <1>2, OptionsAssumption DEF Init, IInv, Types, HoldersStream, FailuresBounded, Places

\* Tokens that nobody touches.
LEMMA SameSlots ==
    ASSUME SlotsAreHeld, slots' = slots, Holding' = Holding
    PROVE  SlotsAreHeld'
  BY DEF SlotsAreHeld, Holding

\* A caller that held none puts its token into the channel.
LEMMA OneMoreSlot ==
    ASSUME Types, SlotsAreHeld, NEW c, c \notin Holding,
           slots' = slots + 1, Holding' = Holding \cup {c}
    PROVE  SlotsAreHeld'
  <1>1. Cardinality(Holding \cup {c}) = Cardinality(Holding) + 1
    BY HoldingFinite, FS_AddElement
  <1> QED
    BY <1>1 DEF SlotsAreHeld, Holding

\* A caller that held one takes a token out; there is one to take.
LEMMA OneSlotLess ==
    ASSUME Types, SlotsAreHeld, NEW c \in Holding
    PROVE  /\ slots - 1 \in Nat /\ slots - 1 <= MaxConcurrent
           /\ slots' = slots - 1 /\ Holding' = Holding \ {c} => SlotsAreHeld'
  <1>1. /\ IsFiniteSet(Holding) /\ Cardinality(Holding) \in Nat
        /\ Cardinality(Holding \ {c}) = Cardinality(Holding) - 1
        /\ Cardinality(Holding \ {c}) \in Nat
    BY HoldingFinite, FS_RemoveElement, FS_CardinalityType
  <1>2. slots = Cardinality(Holding)
    BY DEF SlotsAreHeld, Holding
  <1>3. slots' = slots - 1 /\ Holding' = Holding \ {c} => SlotsAreHeld'
    BY <1>1, <1>2 DEF SlotsAreHeld, Holding
  <1> QED
    BY <1>1, <1>2, <1>3, OptionsAssumption DEF Types

-----------------------------------------------------------------------------
(* The steps *)

\* A caller in Stream, up to the connection.
LEMMA StreamInvariant ==
    ASSUME IInv, NEW c \in Callers,
           Look(c) \/ Acquire(c) \/ GiveUp(c) \/ Retry(c) \/ Fail(c)
    PROVE  IInv'
  <1> USE DEF Goto
  <1>0. Types /\ HoldersStream /\ SlotsAreHeld /\ FailuresBounded /\ PreStreamRetry \in Nat
    BY OptionsAssumption DEF IInv
  <1>1. CASE Look(c)
    <2>1. FailuresBounded' /\ failures' \in Nat /\ circuit' = "closed"
      BY <1>0, <1>1, PassBound DEF Look
    <2>2. Types' /\ HoldersStream'
      BY <1>0, <1>1, <2>1 DEF Look, Types, Places, HoldersStream
    <2>3. Holding' = Holding
      BY <1>0, <1>1 DEF Look, Holding, Types
    <2> QED
      BY <1>0, <1>1, <2>1, <2>2, <2>3, SameSlots DEF IInv, Look
  <1>2. CASE Acquire(c)
    <2>1. Types' /\ HoldersStream'
      BY <1>0, <1>2, OptionsAssumption DEF Acquire, Types, Places, HoldersStream
    <2>2. c \notin Holding /\ Holding' = Holding \cup {c}
      BY <1>0, <1>2 DEF Acquire, Holding, Types, HoldersStream
    <2>3. SlotsAreHeld'
      BY <1>0, <1>2, <2>2, OneMoreSlot DEF Acquire
    <2>4. Reporters' \subseteq Reporters
      BY <1>0, <1>2 DEF Acquire, Reporters, Types
    <2> QED
      BY <1>0, <1>2, <2>1, <2>3, <2>4, SameBound DEF IInv, Acquire
  <1>3. CASE GiveUp(c)
    <2>1. Types' /\ HoldersStream'
      BY <1>0, <1>3 DEF GiveUp, Types, Places, HoldersStream
    <2>2. Holding' = Holding /\ Reporters' \subseteq Reporters
      BY <1>0, <1>3 DEF GiveUp, Holding, Reporters, Types
    <2> QED
      BY <1>0, <1>3, <2>1, <2>2, SameSlots, SameBound DEF IInv, GiveUp
  <1>4. CASE Retry(c)
    <2>1. Types' /\ HoldersStream'
      BY <1>0, <1>4 DEF Retry, Types, HoldersStream
    <2>2. Holding' = Holding /\ Reporters' \subseteq Reporters
      BY <1>0, <1>4 DEF Retry, Holding, Reporters
    <2> QED
      BY <1>0, <1>4, <2>1, <2>2, SameSlots, SameBound DEF IInv, Retry
  <1>5. CASE Fail(c)
    <2>1. c \in Holding /\ Holding' = Holding \ {c} /\ Reporters' \subseteq Reporters
      BY <1>0, <1>5 DEF Fail, Holding, Reporters, Types, HoldersStream
    <2>2. slots' \in Nat /\ slots' <= MaxConcurrent /\ SlotsAreHeld'
      BY <1>0, <1>5, <2>1, OneSlotLess DEF Fail
    <2>3. result' \in [Callers -> {"none", "retryable", "final", "eof"}]
      BY <1>0, <1>5 DEF Fail, Types, StreamAnswers, Classes
    <2>4. Types' /\ HoldersStream'
      BY <1>0, <1>5, <2>2, <2>3 DEF Fail, Types, Places, HoldersStream
    <2> QED
      BY <1>0, <1>5, <2>1, <2>2, <2>4, SameBound DEF IInv, Fail
  <1> QED
    BY <1>1, <1>2, <1>3, <1>4, <1>5

\* A caller or a probe that reports what the provider answered.
LEMMA ReportInvariant ==
    ASSUME IInv,
           \/ \E c \in Callers : ReportFailure(c) \/ Connect(c) \/ NextEnds(c)
           \/ \E p \in Probes : ProbeAnswered(p)
    PROVE  IInv'
  <1> USE DEF Goto
  <1>0. Types /\ HoldersStream /\ SlotsAreHeld /\ FailuresBounded /\ PreStreamRetry \in Nat
    BY OptionsAssumption DEF IInv
  <1>1. ASSUME NEW c \in Callers, ReportFailure(c) PROVE IInv'
    <2>1. failures' \in Nat /\ circuit' \in {"closed", "open", "lapsed"}
      BY <1>0, <1>1, ObserveTyped DEF ReportFailure
    <2>2. Types' /\ HoldersStream'
      BY <1>0, <1>1, <2>1 DEF ReportFailure, Types, Places, HoldersStream
    <2>3. Holding' = Holding /\ c \in Reporters /\ Reporters' \subseteq Reporters \ {c}
      BY <1>0, <1>1, OptionsAssumption DEF ReportFailure, Holding, Reporters, Types
    <2>4. FailuresBounded'
      BY <1>0, <1>1, <2>2, <2>3, ObserveBound DEF ReportFailure
    <2> QED
      BY <1>0, <1>1, <2>2, <2>3, <2>4, SameSlots DEF IInv, ReportFailure
  <1>2. ASSUME NEW c \in Callers, Connect(c) PROVE IInv'
    <2>1. failures' = 0 /\ circuit' = "closed"
      BY <1>2 DEF Connect, Observe
    <2>2. Types' /\ HoldersStream'
      BY <1>0, <1>2, <2>1 DEF Connect, Types, Places, HoldersStream
    <2>3. Holding' = Holding
      BY <1>0, <1>2 DEF Connect, Holding, Types
    <2>4. FailuresBounded'
      BY <2>1, OptionsAssumption DEF FailuresBounded
    <2> QED
      BY <1>0, <1>2, <2>2, <2>3, <2>4, SameSlots DEF IInv, Connect
  <1>3. ASSUME NEW c \in Callers, NextEnds(c) PROVE IInv'
    <2>1. PICK end \in StreamEnds : Observe(end) /\ result' = [result EXCEPT ![c] = end]
      BY <1>3 DEF NextEnds
    <2>2. failures' \in Nat /\ circuit' \in {"closed", "open", "lapsed"}
      BY <1>0, <2>1, ObserveTyped
    <2>3. end \in {"none", "retryable", "final", "eof"}
      BY DEF StreamEnds, Classes
    <2>4. Types' /\ HoldersStream'
      BY <1>0, <1>3, <2>1, <2>2, <2>3 DEF NextEnds, Types, Places, HoldersStream
    <2>5. Holding' = Holding /\ c \in Reporters /\ Reporters' \subseteq Reporters \ {c}
      BY <1>0, <1>3, OptionsAssumption DEF NextEnds, Holding, Reporters, Types
    <2>6. FailuresBounded'
      BY <1>0, <2>1, <2>4, <2>5, ObserveBound
    <2> QED
      BY <1>0, <1>3, <2>4, <2>5, <2>6, SameSlots DEF IInv, NextEnds
  <1>4. ASSUME NEW p \in Probes, ProbeAnswered(p) PROVE IInv'
    <2>1. PICK answer \in CatalogAnswers : Observe(answer)
      BY <1>4 DEF ProbeAnswered
    <2>2. failures' \in Nat /\ circuit' \in {"closed", "open", "lapsed"}
      BY <1>0, <2>1, ObserveTyped
    <2>3. Types' /\ HoldersStream'
      BY <1>0, <1>4, <2>2 DEF ProbeAnswered, Types, HoldersStream
    <2>4. Holding' = Holding /\ p \in Reporters /\ Reporters' \subseteq Reporters \ {p}
      BY <1>0, <1>4, OptionsAssumption DEF ProbeAnswered, Holding, Reporters, Types
    <2>5. FailuresBounded'
      BY <1>0, <2>1, <2>3, <2>4, ObserveBound
    <2> QED
      BY <1>0, <1>4, <2>3, <2>4, <2>5, SameSlots DEF IInv, ProbeAnswered
  <1> QED
    BY <1>1, <1>2, <1>3, <1>4

\* The release of a stream, the beginning of a probe, the end of openUntil.
LEMMA OtherInvariant ==
    ASSUME IInv,
           \/ \E c \in Callers : ReleaseOnce(c)
           \/ \E p \in Probes : Probe(p)
           \/ CircuitLapses
           \/ UNCHANGED vars
    PROVE  IInv'
  <1> USE DEF Goto
  <1>0. Types /\ HoldersStream /\ SlotsAreHeld /\ FailuresBounded
    BY DEF IInv
  <1>1. ASSUME NEW c \in Callers, ReleaseOnce(c) PROVE IInv'
    <2>1. Reporters' \subseteq Reporters
      BY <1>0, <1>1 DEF ReleaseOnce, Reporters, Types
    <2>2. CASE c \in holds
      <3>1. c \in Holding /\ Holding' = Holding \ {c}
        BY <1>0, <1>1, <2>2 DEF ReleaseOnce, Holding, Types
      <3>2. slots' \in Nat /\ slots' <= MaxConcurrent /\ SlotsAreHeld'
        BY <1>0, <1>1, <2>2, <3>1, OneSlotLess DEF ReleaseOnce
      <3>3. Types' /\ HoldersStream'
        BY <1>0, <1>1, <3>2 DEF ReleaseOnce, Types, Places, HoldersStream
      <3> QED
        BY <1>0, <1>1, <2>1, <3>2, <3>3, SameBound DEF IInv, ReleaseOnce
    <2>3. CASE c \notin holds
      <3>1. Types' /\ HoldersStream' /\ slots' = slots
        BY <1>0, <1>1, <2>3 DEF ReleaseOnce, Types, Places, HoldersStream
      <3>2. Holding' = Holding
        BY <1>0, <1>1, <2>3 DEF ReleaseOnce, Holding, Types
      <3> QED
        BY <1>0, <1>1, <2>1, <3>1, <3>2, SameSlots, SameBound DEF IInv, ReleaseOnce
    <2> QED
      BY <2>2, <2>3
  <1>2. ASSUME NEW p \in Probes, Probe(p) PROVE IInv'
    <2>1. FailuresBounded' /\ failures' \in Nat /\ circuit' = "closed"
      BY <1>0, <1>2, PassBound DEF Probe
    <2>2. Types' /\ HoldersStream'
      BY <1>0, <1>2, <2>1 DEF Probe, Types, HoldersStream
    <2>3. Holding' = Holding
      BY <1>2 DEF Probe, Holding
    <2> QED
      BY <1>0, <1>2, <2>1, <2>2, <2>3, SameSlots DEF IInv, Probe
  <1>3. CASE CircuitLapses
    <2>1. Types' /\ HoldersStream' /\ Holding' = Holding /\ Reporters' = Reporters
      BY <1>0, <1>3 DEF CircuitLapses, Types, HoldersStream, Holding, Reporters
    <2>2. FailuresBounded'
      BY <1>0, <1>3, <2>1 DEF CircuitLapses, FailuresBounded, Everybody
    <2> QED
      BY <1>0, <1>3, <2>1, <2>2, SameSlots DEF IInv, CircuitLapses
  <1>4. CASE UNCHANGED vars
    <2>1. Types' /\ HoldersStream' /\ Holding' = Holding /\ Reporters' = Reporters
      BY <1>0, <1>4 DEF vars, Types, HoldersStream, Holding, Reporters
    <2> QED
      BY <1>0, <1>4, <2>1, SameSlots, SameBound DEF IInv, vars
  <1> QED
    BY <1>1, <1>2, <1>3, <1>4

\* The invariant is inductive.
LEMMA Invariant == Spec => []IInv
  <1>1. IInv /\ [Next]_vars => IInv'
    BY StreamInvariant, ReportInvariant, OtherInvariant DEF Next, Step
  <1> QED
    BY <1>1, InitIInv, PTL DEF Spec

-----------------------------------------------------------------------------
(* Theorems *)

\* Every variable of resilient.go keeps its type; in particular the count of failures stays
\* below the limit and one more for each goroutine, although answers of old streams are
\* counted while the circuit is open.
THEOREM TypeCorrect == Spec => []TypeOK
  <1>1. IInv => TypeOK
    <2> SUFFICES ASSUME IInv PROVE TypeOK
      OBVIOUS
    <2>1. IsFiniteSet(Reporters) /\ Cardinality(Reporters) \in Nat
      <3>1. Reporters \subseteq Everybody
        BY DEF IInv, Types, Reporters, Everybody
      <3> QED
        BY <3>1, EverybodyFinite, FS_Subset, FS_CardinalityType
    <2>2. failures <= FailureLimit + Cardinality(Everybody) - 1
      BY <2>1, EverybodyFinite, OptionsAssumption DEF IInv, Types, FailuresBounded
    <2>3. failures \in 0..(FailureLimit + Cardinality(Callers \cup Probes) - 1)
      BY <2>2, EverybodyFinite, OptionsAssumption DEF IInv, Types, Everybody
    <2> QED
      BY <2>3, OptionsAssumption DEF IInv, Types, TypeOK, Everybody
  <1> QED
    BY <1>1, Invariant, PTL

\* The channel holds a token for each caller between its send and its release: whatever
\* order Next, Close and the failures of Stream come in, no slot is lost or given back twice.
THEOREM SlotsAlwaysHeld == Spec => []SlotsAreHeld
  <1>1. IInv => SlotsAreHeld
    BY DEF IInv
  <1> QED
    BY <1>1, Invariant, PTL

\* The count of failures is below its limit exactly while the circuit is closed, whatever
\* late answers of old streams are observed: a circuit closes with a fresh count only.
THEOREM CircuitAlwaysMatches == Spec => []CircuitMatchesCount
  <1>1. Init => CircuitMatchesCount
    BY OptionsAssumption DEF Init, CircuitMatchesCount
  <1>2. IInv /\ CircuitMatchesCount /\ [Next]_vars => CircuitMatchesCount'
    <2> SUFFICES ASSUME IInv, CircuitMatchesCount, [Next]_vars PROVE CircuitMatchesCount'
      OBVIOUS
    <2> USE OptionsAssumption DEF CircuitMatchesCount
    <2>0. failures \in Nat /\ circuit \in {"closed", "open", "lapsed"}
      BY DEF IInv, Types
    <2>1. ASSUME PassCircuit PROVE CircuitMatchesCount'
      BY <2>0, <2>1 DEF PassCircuit
    <2>2. ASSUME NEW outcome, Observe(outcome) PROVE CircuitMatchesCount'
      BY <2>0, <2>2 DEF Observe
    <2>3. ASSUME NEW c \in Callers, Step(c) PROVE CircuitMatchesCount'
      <3>1. CASE Look(c)
        BY <2>1, <3>1 DEF Look
      <3>2. CASE ReportFailure(c) \/ Connect(c) \/ NextEnds(c)
        BY <2>2, <3>2 DEF ReportFailure, Connect, NextEnds
      <3>3. CASE Acquire(c) \/ GiveUp(c) \/ Retry(c) \/ Fail(c) \/ ReleaseOnce(c)
        BY <3>3 DEF Acquire, GiveUp, Retry, Fail, ReleaseOnce
      <3> QED
        BY <2>3, <3>1, <3>2, <3>3 DEF Step
    <2>4. ASSUME NEW p \in Probes, Probe(p) \/ ProbeAnswered(p) PROVE CircuitMatchesCount'
      BY <2>1, <2>2, <2>4 DEF Probe, ProbeAnswered
    <2>5. CASE CircuitLapses
      BY <2>5 DEF CircuitLapses
    <2>6. CASE UNCHANGED vars
      BY <2>6 DEF vars
    <2> QED
      BY <2>3, <2>4, <2>5, <2>6 DEF Next
  <1> QED
    BY <1>1, <1>2, Invariant, PTL DEF Spec

=============================================================================
