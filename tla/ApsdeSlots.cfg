\* Two slots, three requests: the third finds the table full and displaces the
\* older one.  ZBOSS copies buffers and keeps those whose confirm it loses.
SPECIFICATION FairSpec
CONSTANTS
  r1 = r1  r2 = r2  r3 = r3
  b1 = b1  b2 = b2  b3 = b3
  NoReq = NoReq
  NoBuf = NoBuf
  MAX_PARALLEL_REQUESTS = 2
  Req <- MCReq3
  Buf <- MCBuf2
  WATCHDOG_TIMEOUT = 2
  LostBuffersReturn = FALSE
  CopiesMade = TRUE
INVARIANTS
  TypeOK
  ReservationPending
  ConfirmFidelity
  AtMostOneAnswer
  NoAnswerAfterGivingUp
  OneHome
  NoBufferLeak
PROPERTY NoSlotLeak
