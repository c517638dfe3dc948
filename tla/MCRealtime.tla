----------------------------- MODULE MCRealtime -----------------------------
(* Small instances of Realtime: one page of an actor, two goroutines that    *)
(* emit.                                                                     *)
EXTENDS Realtime

CONSTANTS page, g1, g2

=============================================================================
