SPECIFICATION FairSpec
CONSTANTS
  Owners = {o1, o2}
  Stores = {s1, s2}
  Calls = {c1, c2}
  Bodies = {1}
  MaxId = 3
  MaxTime = 2
  MaxOwners = 2
  Overhead = 1
  ObjectMax = 2
  StoreMax = 4
  BudgetMax = 2
  TTL = 1
  MaxCharge = 2
  NoStore = NoStore
  NoCall = NoCall
  NoOwner = NoOwner
PROPERTY ImplementsLedger
PROPERTY LockReleased
