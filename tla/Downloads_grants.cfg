SPECIFICATION Spec
CONSTANTS
  Owners = {o1, o2, o3}
  Stores = {s1, s2, s3}
  Payloads = {p1}
  Grants = {g1}
  Calls = {c1, c2}
  Downloads = {d1, d2}
  Uploads = {u1}
  Chunks <- Lengths
  MaxOwners = 2
  MaxEntries = 1
  MaxOutstanding = 1
  Slots = 2
  PayloadTTL = 1
  GrantTTL = 1
  BodyTimeout = 1
  MaxTime = 2
  NoStore = NoStore
  NoOne = NoOne
SYMMETRY Symmetry
CHECK_DEADLOCK FALSE
INVARIANT WholeOrFailed
PROPERTY GrantExtendsNothing
 
