SPECIFICATION FairSpec
CONSTANTS
    p1 = p1
    p2 = p2
    None = None
    Procs = {p1, p2}
    Commands <- TwoDeciders
    Harnesses = {h1}
    Bulk = {b1}
    Grades <- PassingGrades
    SameBuild = FALSE
    MaxAttempts <- RetryQuality
    MaxKills = 0
PROPERTIES
    InvocationEnds
CHECK_DEADLOCK FALSE
