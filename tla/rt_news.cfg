SPECIFICATION FairSpec
CONSTANTS
  MaxSockets = 3
  MaxVersion = 2
  MaxFetches = 2
  MaxPolls = 2
INVARIANTS PageIsSound
PROPERTIES NewsArrives EndIsNoticed
CHECK_DEADLOCK FALSE
