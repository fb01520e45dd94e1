SPECIFICATION Spec
CONSTANTS
  Session = {s1, s2}
  NoSession = NoSession
  Lease = {l1}
  MaxConcurrent = 1
  MaxReregisters = 2
  MaxRetries = 0
  MaxRestarts = 0
PROPERTY GracefulShutdown
CHECK_DEADLOCK FALSE
