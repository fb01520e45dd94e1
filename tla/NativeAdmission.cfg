SPECIFICATION Spec
CONSTANTS
  None = None
  MaxBody = 2
  MaxTokens = 2
  ShortName = {1}
  Model = {1, 2}
  Version <- MCVersion
  Ability <- MCAbility
  Request <- MCRequest
  Response <- MCResponse
  ScanInterval = 3
  MaxScans = 2
  MaxChanges = 1
  MaxSessions = 2
INVARIANTS TypeOK CapabilitiesAgree SelectedIsAdmitted AdmittedWithinProfile AcceptedIsCurrent
CHECK_DEADLOCK FALSE
