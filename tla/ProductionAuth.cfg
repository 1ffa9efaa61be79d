\* Two logins and a bootstrap race for leases, guard rows and the one
\* challenge that two openers may install.  The limits are small enough for
\* every block, eviction and lapse to happen; no symmetry, because one
\* property is temporal.
SPECIFICATION Spec
CONSTANTS
  LoginCaller = {l1, l2}
  BootstrapCaller = {b1}
  Opener = {o1, o2}
  Identity = {owner, other}
  Owner = owner
  ActiveLimit = 2
  BootstrapLimit = 1
  RowLimit = 3
  GuardLimit = 1
  CleanupBatch = 1
  IdentityFailureLimit = 1
  LoginFailureLimit = 2
  BootstrapFailureLimit = 1
  LeaseTtl = 1
  Window = 2
  Retention = 3
  ChallengeTtl = 1
INVARIANTS AttemptsBounded SpentBudgetBlocks SingleOwner
PROPERTIES FailuresKeptForWindow IdentityBlockHolds ChallengeNeverReissued QuietReopensAdmission
CHECK_DEADLOCK TRUE
