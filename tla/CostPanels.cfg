SPECIFICATION Spec
CONSTANTS
    v1 = v1
    v2 = v2
    Panels <- ThreePanels
    Guarded = {"timing", "memory"}
    Screened = {"timing"}
    Contracts = {v1, v2}
    None = None
    MaxFaults = 2
    MaxAmendments = 1
SYMMETRY Symmetry
INVARIANTS
    ReplayAgrees
    EvidenceIsCurrent
PROPERTIES
    NoSecondChance
CHECK_DEADLOCK FALSE
