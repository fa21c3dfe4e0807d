SPECIFICATION FairSpec
CONSTANTS
  Clients = {c1, c2}
  None = None
  MaxFds = 2
  MaxThreads = 2
  MaxReqs = 2
  MaxFaults = 1
  Lengths = {2}
  RecvMax = 1
INVARIANTS TypeOK AcceptNeverBlocks AnswersFresh
PROPERTY Served
CHECK_DEADLOCK FALSE
