CONSTANTS
  core = core
  x = x
  a0 = a0
  a1 = a1
  a2 = a2
  a3 = a3
  r = r
  mc = mc
  mx = mx
  my = my
  d1 = d1
  None = None
  Bare = Bare
  Boxes = {core, x, r}
  Addrs = {a0, a1, a2, a3}
  Macs = {mc, mx, my}
  Devs = {d1, d2, d3, d4, d5, d6}
  BoxOf <- MCBoxOf
  MacsOf <- MCMacsOf
  Sees <- MCSees
  Tells = {core, x, r}
  Excluded = {a3}
  DefaultTag = TRUE
  MaxSwitches = 3
  MaxDepth = 2
  GraceDelete = FALSE
  MaxChanges = 2
  MaxFaults = 0
SPECIFICATION MCSpecX
PROPERTY MergeFailureIsContained
CHECK_DEADLOCK FALSE
