SPECIFICATION FairSpec
CONSTANTS
  N = 2
  Services = {s1}
  Inbox = 2
  MaxCasts = 2
  TombMax = 1
  MaxEdits = 1
  MaxCrashes = 1
INVARIANTS TypeOK OnlyDeletedBuried
PROPERTIES Agreement DeletionReachesLeader
CHECK_DEADLOCK FALSE
