CONSTANTS
  netbox = netbox
  sites = sites
  Fields = {netbox, sites}
  Vals = {0, 1}
  EmptyData <- MCEmpty
  RestoredData <- MCRestored
  YamlData <- MCYaml
  MaxSaves = 2
  MaxSetUps = 2
  None = None
  Torn = Torn
SPECIFICATION Spec
INVARIANTS TypeOK DurableSave ImportRecoverable ServesSeeded
PROPERTIES LiveConfigKept
CHECK_DEADLOCK FALSE
