SPECIFICATION Spec
CONSTANTS
  Users = {u1}
  Writers = {}
  Recv = recv
  Process = process
  Handles = {h1, h2}
  NULL = NULL
  UserOps = {"connect", "disconnect"}
  ReconnectEnabled = TRUE
  MaxLost = 1
  MaxCalls = 2
  MaxFaults = 0
INVARIANTS StaysDisconnected
