SPECIFICATION ReviewSpec
CONSTANTS
    s1 = s1
    r1 = r1
    r2 = r2
    r3 = r3
    d1 = d1
    Nothing = Nothing
    Submissions = {s1}
    Reviewers = {r1, r2, r3}
    Legacy <- LegacyOne
    Decisions = {d1}
    MaxRevision = 2
    MaxRubrics = 2
    MaxAssignments = 3
    Requests <- AllRequests
    MaxReviews = 2
    MaxDispositions = 2
INVARIANTS
    AssignedWorkIsReadable
    ReviewsBuildOnTheirPage
PROPERTIES
    ConflictStopsWork
    RetiredStaysRetired
SYMMETRY ReviewerSymmetry
CHECK_DEADLOCK FALSE
