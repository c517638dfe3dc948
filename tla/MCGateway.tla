------------------------------ MODULE MCGateway ------------------------------
(* Small instance of Gateway: three callers compete for two slots while one  *)
(* probe asks for the catalogue.                                             *)
EXTENDS Gateway

CONSTANTS c1, c2, c3, p1

=============================================================================
