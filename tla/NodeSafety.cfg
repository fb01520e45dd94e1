\* Sessions across re-registration, refresh and restart: a session registered, one
\* that replaces it, one registered after a 401, and one lease that outlives them; or
\* two leases and one permit over two sessions.
SPECIFICATION BoundedSpec
CONSTANTS
  Session = {s1, s2, s3}
  NoSession = NoSession
  Lease = {l1, l2}
  MaxConcurrent = 1
  MaxReregisters = 2
  MaxRetries = 1
  MaxRestarts = 1
SYMMETRY Symmetry
INVARIANTS
  TypeOK
  CredentialsPaired
  LostSessionIsDead
  SetupRunsAlone
  RunningSessionOnDisk
  ResultUnderLeaseSession
  PermitsBalanced
PROPERTIES
  OnlyDeadSessionForgotten
  ImplementsLedger
\* A process that has ended and is not started again stops.
CHECK_DEADLOCK FALSE
