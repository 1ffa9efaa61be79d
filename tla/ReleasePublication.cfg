SPECIFICATION SpecAll
CONSTANTS
  p1 = p1
  p2 = p2
  panel = panel
  talk = talk
  NoUnit = NoUnit
  NoText = NoText
  People = {p1, p2}
  Units = {panel, talk}
  UnitOrder <- MCUnitOrder
  Seat <- MCSeat
  CfpUnits <- MCCfpUnits
  CfpSpeakers <- MCCfpSpeakers
  Window <- MCWindow
  EventWindow <- MCEventWindow
  Rooms = {1, 2}
  DefaultRoom = 1
  MaxRevision = 2
  MaxApprovals = 2
  Texts = {1}
  MaxVersions = 2
  MaxReleases = 3
INVARIANTS DraftIsDurable ApprovalHolds PublicIsAgreed SealingSettles
\* The bounds on revisions, approvals, versions and releases are not in the code.
CHECK_DEADLOCK FALSE
