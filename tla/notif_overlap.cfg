SPECIFICATION Spec
CONSTANTS
  Accounts = {a1}
  Keys = {k1}
  Channels = {in_app, email}
  InApp = in_app
  None = None
  Passes = {p1, p2}
  MaxRetries = 3
  Limit = 2
  MaxAttempts = 4
  MaxAborts = 1
SYMMETRY PassSymmetry
INVARIANTS LogIsEarned
