SPECIFICATION FairSpec
CONSTANTS
  Accounts = {a1}
  Tenders = {t1}
  Regions = {r1, r2}
  Unknown = Unknown
  Polls = {p1, p2}
  MaxBatch = 1
  MaxTime = 1
  MaxFaults = 1
INVARIANTS MatchesAreFounded
PROPERTIES NoMatchForClosed ExpiredIsPruned MatchIsAnnounced
