\* A Stop and the automation flag are persisted at the same time.
SPECIFICATION Spec
CONSTANTS
  Threads = {t1, t2}
  Ops = {"stop", "arm", "enable"}
  MaxCalls = 3
  MaxCrashes = 0
INVARIANTS StopIsDurable
CHECK_DEADLOCK FALSE
