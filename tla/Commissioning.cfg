SPECIFICATION FairSpec
CONSTANTS
  Image = {"home", "bad"}
  Poison = {"bad"}
  Request = {"r1", "r2"}
  EraseMayFail = TRUE
  MAX_RESETS = 1
  MAX_SAFE = 1
  MAX_FAULTS = 1
  MAX_RESTORES = 2
CHECK_DEADLOCK FALSE
INVARIANTS
  AppliedOnBlank
PROPERTIES
  AnsweredOnce
  OkMeansFormed
  FormationSettles
  NoCrashLoop
  RestoreTakesEffect
