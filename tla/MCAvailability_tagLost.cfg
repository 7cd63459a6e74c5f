CONSTANTS
  nas = nas
  None = None
  Devices = {nas}
  Scanned = {nas}
  StaleAfter = 1
  GraceAfter = 2
  MaxLag = 1
  MaxFaults = 0
  Tls = {nas}
  After <- MCAfter
SPECIFICATION FairSpec
PROPERTY BroughtBack
CHECK_DEADLOCK FALSE
