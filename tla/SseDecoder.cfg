SPECIFICATION Spec
CONSTANTS
  CR = CR  LF = LF  Text = Text  Bad = Bad
  MaxFrame = 6
  MaxEvents = 2
  MaxTotal = 7
  Piece = 3
  MaxLen = 8
  BadAt = {1}
INVARIANTS TypeOK FramesOfBody EndsWellIfWellFormed NothingOverlooked BufferBounded
CHECK_DEADLOCK FALSE
