----------------------------- MODULE MCAccounts -----------------------------
(* Small instances of Accounts. *)
EXTENDS Accounts

CONSTANTS u1, u2, l1, l2, f1, f2, f3, w1, w2

=============================================================================
