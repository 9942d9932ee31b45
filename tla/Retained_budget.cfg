SPECIFICATION Spec
CONSTANTS
  Owners = {o1, o2, o3}
  Stores = {s1, s2, s3}
  Calls = {c1, c2}
  Bodies = {0, 1}
  MaxId = 3
  MaxTime = 2
  MaxOwners = 2
  Overhead = 1
  ObjectMax = 1
  StoreMax = 4
  BudgetMax = 3
  TTL = 2
  MaxCharge = 2
  NoStore = NoStore
  NoCall = NoCall
  NoOwner = NoOwner
SYMMETRY Symmetry
INVARIANT BudgetExact
INVARIANT NoOrphanStore
PROPERTY OnlyOwnEviction
PROPERTY NoExpiredServed
