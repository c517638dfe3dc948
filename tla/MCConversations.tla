--------------------------- MODULE MCConversations ---------------------------
(* Small instance of Conversations: two keys, two requests, pages of one.  *)
EXTENDS Conversations, TLC

CONSTANTS k1, k2, e1, q1, q2

Symmetric == Permutations({k1, k2}) \cup Permutations({q1, q2})

=============================================================================
