CONSTANTS
  s1 = s1
  s2 = s2
  b1 = b1
  b2 = b2
  b3 = b3
  Requests <- ThreeRequests
  Streaming <- OneStream
  InflightLimit = 1
  MaxWaiters = 1
SPECIFICATION Spec
PROPERTY FirstComeFirstServed
CHECK_DEADLOCK FALSE
