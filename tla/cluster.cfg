SPECIFICATION LiveSpec
CONSTANTS
  Nodes = {n1, n2}
  Ops = {"publish", "reload", "remove"}
  Failures = {"save", "delete", "load", "warnings", "unsent", "expired", "crash"}
  MaxOps = 2
INVARIANTS
  TypeOK
PROPERTIES
  SafeAfterRemoval
  CatchesUp
CHECK_DEADLOCK FALSE
