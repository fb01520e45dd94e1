\* Two generations with a session each, two leases and one permit, for which the poll
\* loop waits while main stops it and a task of the first generation still runs.
SPECIFICATION RunningSpec
CONSTANTS
  Session = {1, 2}
  NoSession = 0
  Lease = {1, 2}
  MaxConcurrent = 1
  MaxReregisters = 2
  MaxRetries = 0
  MaxRestarts = 0
PROPERTIES
  LostSessionRecovers
  ReceivedLeaseSettles
  ShutdownEnds
\* The model stops with the process.
CHECK_DEADLOCK FALSE
