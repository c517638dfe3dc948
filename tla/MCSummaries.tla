----------------------------- MODULE MCSummaries -----------------------------
(* Small instance of Summaries: four requests of one conversation.           *)
EXTENDS Summaries, TLC

CONSTANTS r1, r2, r3, r4

Symmetric == Permutations({r1, r2, r3, r4})

=============================================================================
