SPECIFICATION Spec
CONSTANTS
  Sessions = {s1, s2}
  Procs = {s1, s2}
  SessionOf <- Own
  Terms <- SomeTerms
  Objects = 1
  MaxObjects = 3
  MaxEdits = 2
  MaxRuns = 2
  MaxWork = 5
SYMMETRY Symmetry
CONSTRAINT Small
INVARIANTS TypeOK OneAtATime NoLockLeft DifferencesKnown
PROPERTIES CarriedUndisturbed NothingDiscarded
CHECK_DEADLOCK FALSE
