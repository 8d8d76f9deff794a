SPECIFICATION LiveSpec
CONSTANTS
  Threads = {t1, t2}
  Services = {s1, s2}
  Ops = {"map", "publish", "reload", "remove", "preload", "refresh", "start", "stop"}
  Failures = {"load", "save", "delete", "warnings", "timeout"}
INVARIANTS
  TypeOK
  LoadsExclusive
PROPERTIES
  OperationsReturn
CHECK_DEADLOCK FALSE
