CONSTANTS
  s1 = s1
  s2 = s2
  b1 = b1
  b2 = b2
  b3 = b3
  Requests <- FourRequests
  Streaming <- OneStream
  InflightLimit = 1
  MaxWaiters = 2
SPECIFICATION GatewaySpec
PROPERTIES
  GoneIsNoticed
  ImplementsLine
  ImplementsFairLine
CHECK_DEADLOCK FALSE
