SPECIFICATION FairSpec
CONSTANTS
  Accounts = {a1}
  Keys = {k1, k2, k3}
  Channels = {in_app}
  InApp = in_app
  None = None
  Passes = {p1}
  MaxRetries = 3
  Limit = 2
  MaxAttempts = 4
  MaxAborts = 1
PROPERTIES EventuallySettled DeliversAsPromised
