SPECIFICATION Spec
CONSTANTS
    s1 = s1
    s2 = s2
    None = None
    Sessions = {s1, s2}
    MaxFaults = 1
SYMMETRY Symmetry
INVARIANTS
    ReplayedIsTrue
    VerdictIsTrue
PROPERTIES
    ReadyStays
CHECK_DEADLOCK FALSE
