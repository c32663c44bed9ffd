CONSTANTS
  Nodes = {a, b, c}
  Start = 1
  MaxSecrets = 3
  Concurrent = FALSE
SYMMETRY NodeSymmetry
SPECIFICATION Spec
INVARIANTS TypeOK SuccessIsTotal NotHalfRotated VaultFollows
