SPECIFICATION FairSpec
CONSTANTS
  Users = {}
  Writers = {}
  Recv = recv
  Process = process
  Handles = {h1}
  NULL = NULL
  UserOps = {}
  ReconnectEnabled = TRUE
  MaxLost = 1
  MaxCalls = 0
  MaxFaults = 2
INVARIANTS DisconnectEventTrue
PROPERTY Recovers
