SPECIFICATION Spec
CONSTANTS
  Applicants = {ada}
  ConsentFields = {photo}
  None = None
  Received = Received
  Outcomes = {accepted}
  OpensAt = 0
  ClosingTimes = {1, 2}
  VerificationTtl = 2
  SessionTtl = 2
  MaxTime = 2
  MaxIssues = 2
  MaxForms = 2
  MaxRevisions = 2
  MaxMoves = 2
INVARIANTS CreateFindsTheSubmission
CHECK_DEADLOCK FALSE
