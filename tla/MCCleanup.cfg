SPECIFICATION MCSpec
CONSTANTS
  d1 = d1
  d2 = d2
  v1 = v1
  a1 = a1
  a2 = a2
  home = home
  lab = lab
  Devices = {d1, d2}
  Vms = {v1}
  Ips = {a1, a2}
  Cables = {c1}
  Sites = {home, lab}
  None = None
  Any = Any
  Num <- MCNum
  Site <- MCSite
  Requests <- MCRequests
  MaxChanges = 1
INVARIANTS TypeOK DoesWhatItShows
PROPERTIES HumansKept
CHECK_DEADLOCK FALSE
