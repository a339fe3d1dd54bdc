CONSTANTS
  s1 = s1
  b1 = b1
  b2 = b2
  b3 = b3
  qwen = qwen
  gemma = gemma
  other = other
  Unset = Unset
  Requests <- FourRequests
  Streaming <- OneStream
  Model <- MostlyQwen
  Groups <- Rig1
  QueueCapacity = 1
  MaxConnections = 2
  Replies <- UpOrDown
SPECIFICATION Spec
INVARIANT InFlightBounded
CHECK_DEADLOCK FALSE
