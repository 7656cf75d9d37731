SPECIFICATION Spec
CONSTANTS
    s1 = s1
    s2 = s2
    Sessions = {s1, s2}
    N = 2
    Outputs = {"x", "y"}
    Sound = {"x"}
    InFlight = 2
    MaxOdd = 1
    MaxKills = 1
SYMMETRY Symmetry
INVARIANTS
    TypeOK
    ObservedOnce
    FailureIsRecorded
    FlaggedIsInvalid
PROPERTIES
    InvalidStays
CHECK_DEADLOCK FALSE
