SPECIFICATION Spec
CONSTANTS
  Nodes = {n1, n2}
  Ops = {"publish", "remove"}
  Failures = {}
  MaxOps = 3
INVARIANT PublishedStays
CHECK_DEADLOCK FALSE
