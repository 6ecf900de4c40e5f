SPECIFICATION Spec
CONSTANTS
  Nvs = 1
  Zb = 2
  MemoryMayFail = TRUE
  ReadMayFail = TRUE
  MAX_WRITES = 2
  MAX_RESTARTS = 2
  MAX_PULLS = 2
  MAX_LOST = 1
CHECK_DEADLOCK FALSE
INVARIANTS
  OnePointInTime
  MemoryGoesBack
  NoPoisonedBackup
