CONSTANTS
  g1 = g1
  g2 = g2
  n1 = n1
  n2 = n2
  web = web
  None = None
  Guests = {g1, g2}
  Nodes = {n1, n2}
  Labels = {web}
  Containers = {g2}
  Nics = {g1, g2}
  Twins = {g2}
  SiteKnown = TRUE
  MaxChanges = 2
  MaxFaults = 1
SPECIFICATION MCSpec
INVARIANTS TypeOK
PROPERTIES StaleWasAbsent OthersKept ShownInTheEnd PrimaryInTheEnd GoneInTheEnd
