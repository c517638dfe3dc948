------------------------------- MODULE MCChat -------------------------------
(* Small instances of Chat: one conversation, whose commands race over two   *)
(* API replicas.  q1 and q2 are generates, r1 and r2 retries with keys of    *)
(* their own; q3 is q1 sent again on the other replica.                      *)
EXTENDS Chat, TLC

CONSTANTS c1, q1, q2, q3, r1, r2, east, west

MCConversationOf == [q \in Requests |-> c1]
MCReplicaOf == [q \in Requests |-> IF q \in {r1, q3} /\ east \in Replicas THEN east ELSE west]
MCKeyOf == [q \in Requests |-> IF q = q3 THEN q1 ELSE q]

\* What disturbs the requests at a time: writes lost, leases lapsed, a guest that
\* signed in, cancels under way or left in memory, replicas that stop.
Disturbances ==
    LET size(S) == Cardinality(S) IN
    size(faulty) + size(lapsed) + size(commands) + size(cancelled)
    + size({<<r, q>> \in Replicas \X Requests : q \in pendingCancel[r]})
    + size({c \in Conversations : conversation[c].owner = User})
    + size({r \in Replicas : mode[r] # "up"})

\* On one replica q1 and q3 are interchangeable: keys are only compared.
Symmetry == Permutations({q1, q3})

CONSTANT MaxDisturbances
Bounded == Disturbances <= MaxDisturbances

=============================================================================
