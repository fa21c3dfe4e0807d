SPECIFICATION Spec
CONSTANTS
  Publishers = {p1}
  MaxPacketId = 2
  FlowControl = TRUE
  FlowMax = 1
  QuotaModulus = 8
  MaxAllocs = 2
  MaxFaults = 0
  MaxClockBacks = 0
  MaxInFlight = 2
INVARIANT ExceededMeansOutstanding
