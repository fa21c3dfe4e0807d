SPECIFICATION RunsOnSpec
CONSTANTS
  Users = {u1}
  Writers = {}
  Recv = recv
  Process = process
  Handles = {h1}
  NULL = NULL
  UserOps = {"connect", "disconnect", "disconnect_with_prop"}
  ReconnectEnabled = TRUE
  MaxLost = 0
  MaxCalls = 1
  MaxFaults = 1
INVARIANTS TypeOK NoUseAfterClose NoWaitingCircle
PROPERTY CallsReturn
