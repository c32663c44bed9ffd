--------------------------- MODULE MCWolfHaVmChain ---------------------------
(* Bounded instances of WolfHaVmChain for TLC.                             *)
EXTENDS WolfHaVmChain, TLC

(* Blocks are interchangeable: nothing in the model orders them.           *)
BlockSymmetry == Permutations(Blocks)
=============================================================================
