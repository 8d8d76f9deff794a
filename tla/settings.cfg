SPECIFICATION Spec
CONSTANTS
  Nodes = {n1, n2}
  Threads = {t1, t2}
  MaxAge = 0
  MaxChanges = 2
  MaxTime = 1
INVARIANTS
  TypeOK
PROPERTIES
  NoChangeUndone
  CalmAnswers
CHECK_DEADLOCK FALSE
