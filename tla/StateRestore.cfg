\* Two commands at a time, two restores, one generation of data, one rebuild, two lost processes.
SPECIFICATION Spec
CONSTANTS
  Procs = {k1, k2}
  NoProc = NoProc
  Absent = Absent
  MaxRestores = 2
  MaxWrites = 1
  MaxBuilds = 1
  MaxBackups = 2
  MaxGone = 2
\* The lock of a process that was killed stops the kit for good.
CHECK_DEADLOCK FALSE
INVARIANTS SettledEitherWay BackupsAreConsistent
PROPERTIES NothingIsLost RestoresAreSettled
