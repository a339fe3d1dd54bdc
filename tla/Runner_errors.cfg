CONSTANTS
  Repeats = 3
  MaxTime = 2
  MaxTexts = 3
  Tokens = {1, 2}
  Scale = 2
  None = None
SPECIFICATION Spec
INVARIANT UsedDidNotErr
CHECK_DEADLOCK FALSE
