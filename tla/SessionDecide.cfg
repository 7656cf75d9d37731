SPECIFICATION Spec
CONSTANTS
    p1 = p1
    p2 = p2
    None = None
    Procs = {p1, p2}
    Commands <- StagesAndDecide
    Harnesses = {h1}
    Bulk = {b1, b2}
    Grades <- PassingGrades
    SameBuild = FALSE
    MaxAttempts <- RetryCost
    MaxKills = 1
INVARIANTS
    TypeOK
    DecisionIsASnapshot
    PassIsEarned
    CleanedIsDecided
    AttemptKeepsBulk
PROPERTIES
    VerdictRepeats
CHECK_DEADLOCK FALSE
