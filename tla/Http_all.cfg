SPECIFICATION FairSpec
CONSTANTS
  MaxReqs = 2
  MaxLeaks = 1
  MaxFaults = 1
  MaxBody = 2
  BufferMax = 2
INVARIANTS TypeOK GateExact TokenWhole ResponseBelongs OwnConnection OnlyStrays
PROPERTIES CallsReturn DeinitReturns
CHECK_DEADLOCK FALSE
