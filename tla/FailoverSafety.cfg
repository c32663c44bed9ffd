CONSTANTS
  p = p
  r1 = r1
  r2 = r2
  Nodes = {p, r1, r2}
  Order <- Succession3
  Home = p
  FailoverAfter = 6
  Fence = 3
  Window = 4
  PassTicks = 1
  MaxFaults = 2
  MaxPromotes = 2
  MaxEvents = 2
  Env = {"crash", "restart", "isolation", "byhand"}
SPECIFICATION LiveSpec
INVARIANTS TypeOK IncumbentStopsFirst StandbyIdle
PROPERTIES HealsToOne
