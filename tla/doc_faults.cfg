SPECIFICATION MCSpec
CONSTANTS
  a1 = a1
  d1 = d1
  Accounts = {a1, a2}
  Docs = {d1, d2}
  Requests = {q1, q2}
  NoDoc = NoDoc
  MaxFaults = 2
INVARIANTS StoresAgree OwnBytesOnly
PROPERTIES ExpiringIsReminded
