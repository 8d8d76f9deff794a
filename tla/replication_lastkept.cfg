\* A delete in one child overrules an update of the parent for another child.
SPECIFICATION Spec
CONSTANTS
  Sessions = {s1, s2}
  Procs = {s1, s2}
  SessionOf <- Own
  Terms <- ChildWins
  Objects = 1
  MaxObjects = 1
  MaxEdits = 2
  MaxRuns = 2
  MaxWork = 7
SYMMETRY Symmetry
CONSTRAINT Small
PROPERTY LastKept
CHECK_DEADLOCK FALSE
