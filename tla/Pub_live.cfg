SPECIFICATION FairSpec
CONSTANTS
  Publishers = {p1}
  MaxPacketId = 2
  FlowControl = FALSE
  FlowMax = 1
  QuotaModulus = 3
  MaxAllocs = 2
  MaxFaults = 1
  MaxClockBacks = 1
  MaxInFlight = 2
PROPERTY EventuallyAcked
PROPERTY AtLeastOnce
INVARIANT NotLost
