\* Three threads call every operation at once; the process dies once.
SPECIFICATION Spec
CONSTANTS
  Threads = {t1, t2, t3}
  Ops = {"stop", "arm", "enable", "disable", "pause"}
  MaxCalls = 4
  MaxCrashes = 1
SYMMETRY Symmetry
INVARIANTS TypeOK DurableWhenAlone
PROPERTIES StaleArmIsPowerless StopLatches
CHECK_DEADLOCK FALSE
