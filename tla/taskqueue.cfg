SPECIFICATION LiveSpec
CONSTANTS
  Requests = {r1, r2, r3, r4}
  MaxRunningTasks = 2
  MinIdle = 10
  MaxIdle = 20
INVARIANTS
  TypeOK
  SlotsCounted
  WithinLimit
  NoRequestLost
PROPERTIES
  EveryRequestServed
  ImplementsExecutor
CHECK_DEADLOCK FALSE
