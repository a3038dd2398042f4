SPECIFICATION FairSpec
INVARIANTS RunningIsSmallest ServedWithoutRestart ResponseIsTrue OdcpiTimerWillFire
PROPERTY OdcpiAsked
CONSTANTS
  NoClient = NoClient
  Clients = {c1, c2}
  Trackers = {c1, c2}
  Intervals = {1, 2}
  MaxSessions = 2
  MaxCalls = 1
  MaxRestarts = 1
  MaxOdcpi = 2
  MaxQueue = 2
CHECK_DEADLOCK FALSE
