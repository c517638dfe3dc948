------------------------------ MODULE MCQuota ------------------------------
(* A small instance of Quota: two commands of one user racing with one of a *)
(* guest, over two UTC days.                                                *)
EXTENDS Quota, TLC

CONSTANTS u1, g1, q1, q2, q3

MCActorOf == (q1 :> u1) @@ (q2 :> u1) @@ (q3 :> g1)

\* q1 and q2 are interchangeable: the same actor issues both.
Symmetry == Permutations({q1, q2})

=============================================================================
