SPECIFICATION Spec
CONSTANTS
  Uploads = {u1, u2, u3}
  Transfers = {t1, t2}
  Authorizers = {a1}
  MaxOutstanding = 2
  Slots = 1
  TTL = 2
  MaxTime = 4
  Nobody = Nobody
  NoUpload = NoUpload
  Never = Never
SYMMETRY Symmetry
CHECK_DEADLOCK FALSE
INVARIANT Capacity
INVARIANT SingleUse
INVARIANT WipedOnTime
PROPERTY WithinWindow
PROPERTY LiveKept
