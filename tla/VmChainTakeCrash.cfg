CONSTANTS
  Nodes = {p, r1}
  Home = p
  Blocks = {b1, b2}
  MaxToken = 3
  MaxWrites = 2
  MaxNet = 2
SPECIFICATION SpecTakeCrash
INVARIANTS StandbyFits
