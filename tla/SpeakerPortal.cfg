SPECIFICATION PortalSpec
CONSTANTS
  p1 = p1
  p2 = p2
  u1 = u1
  first = first
  second = second
  broken = broken
  moderator = moderator
  SpeakerRole = speaker
  NoUnit = NoUnit
  People = {p1, p2}
  Units = {u1}
  Roles = {speaker, moderator}
  Inputs = {first, second, broken}
  Output <- MCOutput
  RoleIn <- MCRoleIn
  MaxVersions = 3
  EventStart = 0
  EventEnd = 1
  UnitStart <- MCUnitStart
  UnitEnd <- MCUnitEnd
  MaxTime = 1
  LinkTtl = 1
  MaxLinks = 2
INVARIANTS PointerIsNewestApproval AttendanceIsBacked LinksAgreeWithRoster
PROPERTIES ReplacedPlansAreClosed DeadLinksStayDead
