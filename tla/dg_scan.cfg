SPECIFICATION FairSpec
CONSTANTS
  Tenders = {t1}
  OffsetLists = {{1}}
  Defaults = {2}
  Grace = 1
  NoDeadline = NoDeadline
  Scans = {s1, s2}
  MaxTime = 2
  MaxPursuits = 1
  MaxFaults = 1
INVARIANTS RemindersAreSound
PROPERTIES DueIsReminded PastGraceIsClosed
