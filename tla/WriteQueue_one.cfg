\* One producer: the ring is a first-in first-out buffer.
CONSTANTS
  mqtt = mqtt
  httpd = httpd
  stove_state = stove_state
  power_set = power_set
  v1 = v1
  v2 = v2
  Addrs = {stove_state, power_set}
  Values = {v1, v2}
  Producers = {mqtt}
  WRITE_Q_SIZE = 3
  MaxCalls = 5
SPECIFICATION FairSpec
INVARIANTS
  TypeOK
  SentInOrder
  IndicesCount
  QueueInv
PROPERTIES
  FifoSpec
  EventuallyTaken
CHECK_DEADLOCK FALSE
