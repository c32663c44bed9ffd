CONSTANTS
  Nodes = {p, r1, r2}
  Home = p
  Blocks = {b1}
  MaxToken = 2
  MaxWrites = 0
  MaxNet = 4
  MaxFaults = 1
SPECIFICATION LiveSpec
PROPERTIES PendingResolves
