SPECIFICATION Spec
CONSTANTS
  Publishers = {p1}
  MaxPacketId = 2
  FlowControl = TRUE
  FlowMax = 2
  QuotaModulus = 8
  MaxAllocs = 4
  MaxFaults = 0
  MaxClockBacks = 0
  MaxInFlight = 2
INVARIANTS TypeOK UniqueIds RepubSafe QuotaInRange
