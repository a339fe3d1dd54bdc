CONSTANTS
  s1 = s1
  s2 = s2
  b1 = b1
  b2 = b2
  b3 = b3
  Requests <- FiveRequests
  Streaming <- TwoStreams
  InflightLimit = 2
  MaxWaiters = 1
SPECIFICATION Spec
SYMMETRY FiveSymmetry
INVARIANTS
  TypeOK
  SlotsConserved
  CountsExact
  NoLostWakeup
  ConnectedWorkBounded
PROPERTY KeepsPlace
CHECK_DEADLOCK FALSE
