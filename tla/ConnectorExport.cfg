\* Two requests with one key in one process, two people in batches of one and three HTTP requests a batch; claims of dead processes are resolved.
SPECIFICATION LiveSpec
CONSTANTS
  c1 = c1
  c2 = c2
  c3 = c3
  p1 = p1
  p2 = p2
  None = None
  Caller = {c1, c2}
  Process = {p1}
  ProcessOf <- OneProcess
  Operation = "EXPORT"
  MaxAttempts = 2
  MaxVersion = 2
  PersonCount = 2
  BatchSize = 1
  MaxEvidence = 2
  MaxTries = 3
INVARIANTS HandedOverOnce DoubtIsOnRecord
PROPERTIES SentOnCurrentEvidence ClaimsAreResolved
\* A revoked connection refuses every further request: the system may stop.
CHECK_DEADLOCK FALSE
