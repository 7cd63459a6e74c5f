CONSTANTS
  s1 = s1
  s2 = s2
  a1 = a1
  a2 = a2
  h1 = h1
  h2 = h2
  None = None
  Sites = {s1, s2}
  Addrs = {a1, a2}
  Hosts = {h1, h2}
  Scope <- MCScope
  Resolved = {s1}
  Leases <- MCLeases
  Number <- MCNumber
  DeleteOnExpiry = TRUE
  MaxChanges = 2
  MaxFaults = 1
SPECIFICATION MCSpec
INVARIANT TypeOK
PROPERTIES LeasedKept OthersUntouched EventuallyMirrored EventuallyLinked
CHECK_DEADLOCK FALSE
