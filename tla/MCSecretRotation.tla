--------------------------- MODULE MCSecretRotation ---------------------------
(* SecretRotation for TLC: the nodes are interchangeable.                  *)
EXTENDS SecretRotation, TLC

NodeSymmetry == Permutations(Nodes)
=============================================================================
