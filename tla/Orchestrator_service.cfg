CONSTANTS
  s1 = s1
  b1 = b1
  b2 = b2
  b3 = b3
  qwen = qwen
  gemma = gemma
  other = other
  Unset = Unset
  Requests <- ThreeRequests
  Streaming <- OneStream
  Model <- SomeServed
  Groups <- Gapped
  QueueCapacity = 1
  MaxConnections = 1
  Replies <- ThreeReplies
SPECIFICATION LoopSpec
PROPERTIES
  ChangeIsNoticed
  PoolWaitEnds
  GoneStreamCloses
  AcceptedEnds
CHECK_DEADLOCK FALSE
