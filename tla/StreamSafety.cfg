SPECIFICATION FairSpec
CONSTANTS
  MaxAttempts = 3
  MaxChunk = 2
  MaxFrames = 3
  MaxHeartbeats = 1
INVARIANTS TypeOK LogInStep CopiesAgree
PROPERTIES Implements StreamSettles
CHECK_DEADLOCK FALSE
