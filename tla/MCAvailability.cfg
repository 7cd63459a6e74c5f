CONSTANTS
  nas = nas
  None = None
  Devices = {nas}
  Scanned = {nas}
  StaleAfter = 2
  GraceAfter = 3
  MaxLag = 1
  MaxFaults = 1
  Tls = {nas}
  After <- MCAfter
SPECIFICATION FairSpec
INVARIANTS TypeOK TagMatchesStatus
PROPERTIES SilenceBeforeStale StaleInTheEnd UntaggedInTheEnd
CHECK_DEADLOCK FALSE
