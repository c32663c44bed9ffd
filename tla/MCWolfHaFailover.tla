--------------------------- MODULE MCWolfHaFailover ---------------------------
(* Bounded instances of WolfHaFailover for TLC.                            *)
EXTENDS WolfHaFailover, TLC

CONSTANTS p, r1, r2
Succession3 == <<r1, r2>>
=============================================================================
