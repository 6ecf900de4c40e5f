\* Two slots, three tsns, four requests: the table overflows (a displaced request
\* leaves its transaction open), the tsn wraps under live transactions, and answers
\* to the first request still arrive when its number is another's.
SPECIFICATION MCFairSpec
CONSTANTS
  r1 = r1  r2 = r2  r3 = r3  r4 = r4
  NoReq = NoReq
  MAX_PARALLEL_REQUESTS = 2
  Req <- MCReq4
  Tsn = 3
  Intercepting = TRUE
CHECK_DEADLOCK FALSE
INVARIANTS
  TypeOK
  ReplyFidelity
  AtMostOneAnswer
PROPERTY EventuallySettled
