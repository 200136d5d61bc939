SPECIFICATION Spec
CONSTANTS
    Job = {1, 2}
    Profile = {p}
    Run = {r, s}
    Created <- CreatedAtOnce
    Rating <- RatedAlike
    Batch = 1
    MissingLimit = 1
    MaxChanges = 1
    MaxTroubles = 1
    NoMatch = NoMatch
INVARIANTS
    TypeOK
    ScoreOfItsTexts
    PagesPartition
PROPERTIES
    CalmRunCovers
    EventuallyScored
CHECK_DEADLOCK FALSE
