------------------------------ MODULE MCOutbox ------------------------------
(* Small instances of Outbox: two worker processes and two events.           *)
EXTENDS Outbox

CONSTANTS e1, e2, w1, w2

=============================================================================
