------------------------------- MODULE MCAuth -------------------------------
(* Instances of Auth for TLC: clients and blacklist structures are model   *)
(* values.                                                                 *)
EXTENDS Auth

CONSTANTS c1, c2, r1, r2, r3

=============================================================================
