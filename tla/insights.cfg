SPECIFICATION BidSpec
CONSTANTS
  Tiers = {"basic", "premium"}
  Entitled = {"premium"}
  Groups <- MCGroups
  Prices = {0, 1, 4}
  Asks = {p1, p2}
  MinRecords = 2
  FullSample = 3
  NoResult = NoResult
  MaxRecords = 5
  Day = 2
  Absent = Absent
  Regions = {"gaya", "arrah"}
  Categories = {"pipes"}
  Tenders <- MCTenders
  Filters <- MCFilters
  Caps <- MCCaps
  Times <- MCDays
SYMMETRY Alike
INVARIANTS PredictionsAreSound ScoringIsSound
PROPERTIES EntitledOnce
CHECK_DEADLOCK FALSE
