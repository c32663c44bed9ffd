------------------------------ MODULE MCMcpOAuth ------------------------------
(* Bounded instances of McpOAuth for TLC.                                  *)
EXTENDS McpOAuth, TLC

(* Grants and requests are interchangeable.                                *)
Symmetry == Permutations(Grants) \cup Permutations(Reqs) \cup Permutations(Auths) \cup Permutations(Clients)
=============================================================================
