SPECIFICATION FairSpec
CONSTANTS
  Users = {u1}
  AppFilters <- MCAppFilters
  Handlers = {h1}
  Userdata = {d1}
  Shapes <- MCShapes
  Filters <- MCFilters
  Names <- MCNames
  RecvHandler = TRUE
  CleanSession = FALSE
  NULL = NULL
  MaxOps = 2
  MaxMsgs = 2
  MaxFaults = 1
INVARIANTS TypeOK FramesExact CompareExact  NothingSwallowed SubscribedHasNode
PROPERTY EventuallyHandled
