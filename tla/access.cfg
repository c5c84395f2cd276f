SPECIFICATION LayersSpec
CONSTANTS
  Tokens = {t1}
  Requests = {q1, q2}
  NoToken = NoToken
  Inactivity = 1
  MaxTime = 3
  MaxFaults = 1
  Accounts = {a1, a2}
  Emails = {e1, e2}
  Nobody = Nobody
  Tenants = {a1, a2}
  NoTenant = NoTenant
  Calls = {k1, k2, k3}
  Clients = {c1, c2}
  NoClient = NoClient
  MaxBreaks = 1
SYMMETRY Alike
INVARIANTS AccessInv TenancyInv OwnRowsOnly
PROPERTIES OnlyLivePass RestrictionHolds ResolvedIsCommitted
CHECK_DEADLOCK FALSE
