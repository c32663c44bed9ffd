SPECIFICATION FairSpec
CONSTANTS
  N = 2
  Names = {1, 2, 3, 4, 5, 6, 7, 8}
  Replicas = {1, 2}
  Entry = {1}
  PerPass = 2
  MaxAttempts = 1
  MaxEdits = 1
  MaxFaults = 1
INVARIANTS TypeOK BooksLocate
PROPERTIES ReachesDesired
CHECK_DEADLOCK FALSE
