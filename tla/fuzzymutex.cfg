SPECIFICATION LiveSpec
CONSTANTS
  Clients = {c1, c2, c3}
  Keys = {k1, k2}
  Timeout = 1
INVARIANTS
  TypeOK
  MutualExclusion
  DirectoryExact
  BlockedIsKnown
PROPERTIES
  LockAsyncReturns
  ImplementsLock
