CONSTANTS
  dhcp = dhcp
  lldp = lldp
  Modules = {dhcp, lldp}
  Configs <- MCConfigs
  MaxGen = 2
SPECIFICATION FairSpec
INVARIANTS TypeOK LoopsOfOneIteration RequestKept
PROPERTIES StopsWhenAsked RequestAnswered ImplementsHotReload
CHECK_DEADLOCK FALSE
