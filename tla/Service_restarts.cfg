CONSTANTS
  s1 = s1 b1 = b1 late = late gemma = gemma Unset = Unset
  Requests <- Mixed
  Streaming <- OneStream
  Model <- AllGemma
  Groups <- OneGroup
  QueueCapacity = 1
  MaxConnections = 2
  Replies <- UpOrDown
  Slots <- OneSlot
  MaxWaiters = 1
  MaxRestarts = 1
  MaxBreaks = 1
SPECIFICATION LateSpec
INVARIANT RigBounded
PROPERTIES RefusedAfterFaults AdmittedSettles
CHECK_DEADLOCK FALSE
