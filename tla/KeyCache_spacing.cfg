SPECIFICATION Spec
CONSTANTS
  Keys = {k1, k2}
  Calls = {c1, c2}
  CacheTTL = 1
  RetryAfter = 1
  MaxKeyAge = 3
  FetchTimeout = 1
  MaxTime = 5
  Never = Never
SYMMETRY Symmetry
CHECK_DEADLOCK FALSE
PROPERTY FetchesSpaced
