SPECIFICATION Spec
CONSTANTS
  Threads = {t1, t2, t3}
  Services = {s1, s2}
  Ops = {"map", "publish", "reload", "refresh"}
  Failures = {}

  
PROPERTIES
  FreshWithoutOverlap
CHECK_DEADLOCK FALSE
