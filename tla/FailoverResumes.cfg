CONSTANTS
  p = p
  r1 = r1
  r2 = r2
  Nodes = {p, r1, r2}
  Order <- Succession3
  Home = p
  FailoverAfter = 6
  Fence = 3
  Window = 4
  PassTicks = 2
  MaxFaults = 1
  MaxPromotes = 1
  MaxEvents = 1
  Env = {"crash", "restart", "isolation", "partial", "stuck", "byhand"}
SPECIFICATION LiveSpec
PROPERTIES ServiceResumes
