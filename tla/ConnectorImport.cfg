\* Two requests with one key in one process, pages of two out of three contacts.
SPECIFICATION Spec
CONSTANTS
  c1 = c1
  c2 = c2
  p1 = p1
  None = None
  Caller = {c1, c2}
  Process = {p1}
  ProcessOf <- OneProcess
  Operation = "IMPORT"
  MaxAttempts = 3
  MaxVersion = 2
  Contact = {a, b, d}
  MaxCursor = 2
  PageLimit = 2
  ItemLimit = 2
  PageSize = 2
  MaxToken = 2
  a = a
  b = b
  d = d
INVARIANTS PagesFollowTheCursor PreviewIsFrozenOnceShown
\* A revoked connection refuses every further request: the system may stop.
CHECK_DEADLOCK FALSE
