CONSTANTS
  a1 = a1 a2 = a2 a3 = a3 g1 = g1 u1 = u1 x1 = x1 l1 = l1
  qwen = qwen gemma = gemma student = student forged = forged
  NoKey = NoKey Unset = Unset
  Completions <- Mixed
  Lists = {l1}
  Streaming = {a1}
  Model <- MixedModels
  Key <- MixedKeys
  PublicKeys = {student}
  Groups <- TwoLanes
  MaxWaiters = 1
  MaxConnections = 2
  Silent = {gemma}
SPECIFICATION FairSpec
INVARIANT LanesBounded
PROPERTIES ImplementsLines StarvedByOthers OthersGoOn
CHECK_DEADLOCK FALSE
