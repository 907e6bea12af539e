\* Two sessions; connections fail, close late and are retried; jobs change seeds.
SPECIFICATION FairSpec
CONSTANTS
  MaxAttempts = 3
  MaxStarts = 2
  Seeds = {seedA, seedB}
  NoSeed = NoSeed
  Threads = 2
INVARIANTS TypeOK ServedOrWaiting OneConnection ReadyCounted
PROPERTIES PromiseSpec SessionSettles KeptJobIsGiven
CHECK_DEADLOCK FALSE
