SPECIFICATION RxFairSpec
CONSTANTS
  Frame <- MCFrame
  Sender <- MCSender
  Payload <- MCPayload
  Lines <- MCLines
  RX_BUFFER_SIZE = 19
  OUTPUT_BUF = 6
  EVENT_QUEUE_LEN = 2
  RETRIES = 1
INVARIANTS EventsBacked HostIsAnswered
PROPERTIES StreamHolds SessionDelivered
CHECK_DEADLOCK FALSE
