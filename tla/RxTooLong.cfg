SPECIFICATION RxFairSpec
CONSTANTS
  Frame <- LongFrame
  Sender <- LongSender
  Payload <- LongPayload
  Lines <- LongLines
  RX_BUFFER_SIZE = 12
  OUTPUT_BUF = 12
  EVENT_QUEUE_LEN = 2
  RETRIES = 1
PROPERTY EveryFrameDelivered
CHECK_DEADLOCK FALSE
