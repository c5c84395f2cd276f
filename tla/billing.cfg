SPECIFICATION FairSpec
CONSTANTS
  basic = basic
  premium = premium
  r1 = r1
  Tiers = {basic, premium}
  Basic = basic
  NoTier = NoTier
  MaxRegions <- MCMaxRegions
  Period = 1
  MaxRetries = 2
  Runs = {r1, r2}
  Counts = {2}
  Ops = {"pay", "change", "select", "filter"}
  MaxTime = 1
  MaxPeriods = 1
  MaxRetryCount = 3
  MaxInflight = 1
  MaxMishaps = 1
  MaxAnew = 1
INVARIANTS  MoneyIsRight OneKeyPerFailure
PROPERTIES ListFitsATier EarlyOnlyAfterRenewal DueIsSettled ChargesAsPromised
CHECK_DEADLOCK FALSE
