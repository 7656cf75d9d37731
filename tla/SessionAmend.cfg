SPECIFICATION Spec
CONSTANTS
    p1 = p1
    p2 = p2
    None = None
    Procs = {p1, p2}
    Commands <- CostAndAmend
    Harnesses = {h1, h2}
    Bulk = {b1}
    Grades <- SameBuildGrades
    SameBuild = TRUE
    MaxAttempts <- RetryCost
    MaxKills = 0
INVARIANTS
    PinnedHarness
    IdenticalBuilds
CHECK_DEADLOCK FALSE
