----------------------------- MODULE Requesters ------------------------------
(* The people whose requests run transactions: Catalogue and Roles name them *)
(* as the holders of row locks.                                              *)
EXTENDS Naturals, FiniteSets

CONSTANTS People, NoOne

ASSUME PeopleAssumption == NoOne \notin People /\ IsFiniteSet(People)

=============================================================================
