SPECIFICATION Spec
CONSTANTS
  Nodes = {n1, n2}
  Threads = {t1, t2}
  MaxAge = 1
  MaxChanges = 1
  MaxTime = 2
INVARIANT AnswersAreRecent
CHECK_DEADLOCK FALSE
