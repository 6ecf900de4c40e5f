SPECIFICATION FairSpec
CONSTANTS
  HostSeqs = 3
  MAX_TRIES = 4
  MAX_COMMANDS = 5
  MAX_FAULTS = 2
  MAX_GIVEUPS = 1
  MAX_REBOOTS = 1
CHECK_DEADLOCK FALSE
PROPERTIES
  DeliveryHolds
  WaitsEnd
