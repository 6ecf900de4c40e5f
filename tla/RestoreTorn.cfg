\* Nothing fails and the power stays on: only the restart task interferes.
SPECIFICATION Spec
CONSTANTS
  Nvs = 1
  Zb = 2
  MaxChunk = 2
  Image = {"good", "better", "junk"}
  GoodImages = {"good", "better"}
  BufferMayFail = FALSE
  TasksMayFail = FALSE
  FlashMayFail = FALSE
  MAX_POWER_CUTS = 0
  MAX_BOOTS = 2
CHECK_DEADLOCK FALSE
INVARIANT BootsWhole
