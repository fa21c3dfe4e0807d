SPECIFICATION FairSpec
CONSTANTS
  Callers = {t1, t2, t3}
  Functions = {"sub", "recv", "pub5", "bare"}
  MaxLeaks = 1
INVARIANTS TypeOK OnlyCaught
PROPERTIES StaysDoomed Drains DeinitReturns
CHECK_DEADLOCK FALSE
