SPECIFICATION Spec
CONSTANTS
    p1 = p1
    p2 = p2
    None = None
    Procs = {p1, p2}
    Commands <- TwoChains
    Harnesses = {h1}
    Bulk = {b1}
    Grades <- StageGrades
    SameBuild = FALSE
    MaxAttempts <- RetryQuality
    MaxKills = 1
SYMMETRY Symmetry
INVARIANTS
    CommittedIsWhole
    StagesInOrder
PROPERTIES
    FinalIsForever
    ImplementsContract
CHECK_DEADLOCK FALSE
