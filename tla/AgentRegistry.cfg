SPECIFICATION FairSpec
CONSTANTS
  N = 3
  Desk = {1}
  Known = {2}
  Slow = {1}
  MaxLate = 1
  MaxRenames = 1
  MaxEvents = 2
INVARIANTS TypeOK
PROPERTIES TombstonesBar SelfUnlisted MeshForms RenameApplies
CHECK_DEADLOCK FALSE
