------------------------ MODULE GenerationLifecycle ------------------------
(***************************************************************************)
(* What the chat service promises about generations, whatever happens to   *)
(* the processes that run them: a generation goes through the states of    *)
(* the column generations.status, in the order the queries allow, at most  *)
(* one per conversation is active, one idempotency key starts at most one, *)
(* and a retry continues a generation that ended cancelled or failed.      *)
(***************************************************************************)
CONSTANTS
    Requests,           \* commands that may start a generation
    Retries,            \* those that retry an earlier generation
    ConversationOf,     \* the conversation of a request
    KeyOf               \* its idempotency key

VARIABLES phase         \* phase[q]: generations.status, "none" without a row

Active == {"accepted", "streaming"}
Terminal == {"completed", "cancelled", "failed"}

Init == phase = [q \in Requests |-> "none"]

\* CreateGeneration: the two unique indexes of the table, and for Retry an earlier
\* generation of the conversation that can be continued.
Start(q) ==
    /\ phase[q] = "none"
    /\ \A r \in Requests : ConversationOf[r] = ConversationOf[q] =>
          /\ phase[r] \notin Active
          /\ KeyOf[r] = KeyOf[q] => phase[r] = "none"
    /\ q \in Retries => \E r \in Requests :
          ConversationOf[r] = ConversationOf[q] /\ phase[r] \in {"cancelled", "failed"}
    /\ phase' = [phase EXCEPT ![q] = "accepted"]

\* MarkGenerationStreaming
Stream(q) ==
    /\ phase[q] = "accepted"
    /\ phase' = [phase EXCEPT ![q] = "streaming"]

\* FinalizeGeneration; only a streaming generation can complete or be cancelled.
End(q) ==
    \/ /\ phase[q] \in Active
       /\ phase' = [phase EXCEPT ![q] = "failed"]
    \/ /\ phase[q] = "streaming"
       /\ \E s \in {"completed", "cancelled"} : phase' = [phase EXCEPT ![q] = s]

Next == \E q \in Requests : Start(q) \/ Stream(q) \/ End(q)

Spec == Init /\ [][Next]_phase

=============================================================================
