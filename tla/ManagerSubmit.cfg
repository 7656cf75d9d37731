SPECIFICATION Spec
CONSTANTS
    UnitTests = FALSE
    MaxCostAttempts = 2
    MaxRejections = 2
    NameLookups = 1
    Ends <- CompileFails
    Answers = {"accepted"}
    Honest = FALSE
    MaxJobs = 4
    MaxEpochs = 1
    MaxKills = 1
    MaxFaults = 1
    MaxByHand = 0
INVARIANTS TypeOK LedgerCovers OneJobPerStage DecideAlone
PROPERTIES SettledStays
