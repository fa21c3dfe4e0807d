SPECIFICATION Spec
CONSTANTS
  Callers = {t1}
  Functions = {"plain"}
  MaxLeaks = 0
INVARIANT NoUseAfterFree
CHECK_DEADLOCK FALSE
