SPECIFICATION Spec
CONSTANTS
  Id = {a, b}
  None = None
  Garbage = Garbage
  Choice = {0, 1}
  Tokens = {0, 1}
  Delta = {0, 5}
  MaxBytes = 10
INVARIANTS TypeOK OneResponse ExactMeansAccounted WholeWhenComplete
PROPERTIES ChargeNeverFalls
CHECK_DEADLOCK FALSE
