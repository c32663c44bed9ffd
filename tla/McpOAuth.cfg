CONSTANTS
  Clients = {c1, c2}
  Auths = {a1}
  Grants = {g1, g2}
  Users = {u1}
  Reqs = {q1, q2}
  NoGrant = NoGrant
  MaxClients = 1
  Keep = 1
  CodeTtl = 1
  UsedMemory = 2
  AccessTtl = 1
  RefreshTtl = 2
  GrantMax = 2
  Grace = 0
  PendingTtl = 1
  ClientTtl = 1
  MaxTokens = 3
  MaxNames = 5
  MaxFp = 2
  MaxClock = 2
SYMMETRY Symmetry
SPECIFICATION Spec
INVARIANTS TypeOK IndexesAgree RestartIsInvisible OneGrantPerApproval
PROPERTIES ImplementsLedger
