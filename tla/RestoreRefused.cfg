\* The erase of zb_storage fails.
SPECIFICATION Spec
CONSTANTS
  Image = {"home"}
  Poison = {}
  Request = {"r1"}
  EraseMayFail = TRUE
  MAX_RESETS = 1
  MAX_SAFE = 0
  MAX_FAULTS = 1
  MAX_RESTORES = 1
CHECK_DEADLOCK FALSE
INVARIANT FailedIsNotApplied
