SPECIFICATION Spec
CONSTANTS
  slides = slides
  None = None
  j1 = j1
  j2 = j2
  DueDay <- MCDueDay
  WindowDays = 1
  Tasks = {slides}
  DayLength = 1
  Jobs = {j1, j2}
  MaxAttempts = 2
  MaxDeliveries = 1
  Lease = 1
  RetryBase = 1
  LastDay = 1
  MaxTime = 2
  MaxCrashes = 1
PROPERTIES OnlyTheClaimantSettles PromiseKept
