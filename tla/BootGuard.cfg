SPECIFICATION FairSpec
CONSTANTS
  BOOT_FAIL_LIMIT = 3
  ResetTask = {k1, k2}
  EraseInterrupted = FALSE
  MAX_OUTSIDE = 5
  MAX_POWER_CYCLES = 1
  MAX_FAULTS = 2
INVARIANTS
  TypeOK
  SafeModeEarned
  EraseBeforeStack
PROPERTIES
  NeverMute
  ParkedEraseRecovers
