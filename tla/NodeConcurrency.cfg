SPECIFICATION Spec
CONSTANTS
  Session = {s1, s2}
  NoSession = NoSession
  Lease = {l1, l2}
  MaxConcurrent = 1
  MaxReregisters = 2
  MaxRetries = 0
  MaxRestarts = 0
INVARIANT ConcurrencyLimit
CHECK_DEADLOCK FALSE
