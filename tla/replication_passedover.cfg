\* One session is enough: a delete in the child and an update in the parent.
SPECIFICATION Spec
CONSTANTS
  Sessions = {s1}
  Procs = {s1}
  SessionOf <- Own
  Terms <- SomeTerms
  Objects = 1
  MaxObjects = 3
  MaxEdits = 2
  MaxRuns = 1
  MaxWork = 5
CONSTRAINT Small
INVARIANT NeverPassedOver
CHECK_DEADLOCK FALSE
