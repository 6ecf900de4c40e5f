SPECIFICATION FairSpec
CONSTANTS
  EVENT_QUEUE_LEN = 3
  INPUT_BUF = 4
  WAIT_STEPS = 2
  Sizes = {1, 2}
  AtBoot = TRUE
  MAX_SENDS = 5
  MAX_HOST_FRAMES = 2
CHECK_DEADLOCK FALSE
INVARIANTS
  NumbersInOrder
  RoomIsReserved
  WholeWhileInStep
PROPERTY SendsReturn
