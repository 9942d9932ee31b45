SPECIFICATION Spec
CONSTANTS
  Jobs = {j1, j2}
  Limit = 1
  MaxTries = 3
CHECK_DEADLOCK FALSE
INVARIANT AtMostOnce
INVARIANT OutcomeTruthful
INVARIANT FileKept
PROPERTY SlotsReturn
