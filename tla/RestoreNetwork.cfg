SPECIFICATION Spec
CONSTANTS
  Nvs = 1
  Zb = 2
  MaxChunk = 2
  Image = {"good", "junk"}
  GoodImages = {"good"}
  BufferMayFail = TRUE
  TasksMayFail = FALSE
  FlashMayFail = TRUE
  MAX_POWER_CUTS = 1
  MAX_BOOTS = 2
CHECK_DEADLOCK FALSE
INVARIANTS
  RejectedIsHarmless
  DirtyEndsInRestart
  CompletedIsWhole
  GateProtects
