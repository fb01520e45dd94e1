SPECIFICATION Spec
CONSTANTS
  Starts = {0, 13, 15, 17}
  Deadline = 15
  GraceUntil = 17
  LegacyTimeout = 18
  CompleteTimeout = 1
  MonitorPeriod = 2
  StatusTimeout = 2
  RetryInterval = 5
  FirstDelay = 2
INVARIANTS TypeOK LostLeaseStopsInference ControlReallyLost StopReasonTrue PausesFitBudget
PROPERTIES RefusalIsFinal TaskSettles
CHECK_DEADLOCK FALSE
