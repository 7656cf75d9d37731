SPECIFICATION FairSpec
CONSTANTS
    UnitTests = FALSE
    MaxCostAttempts = 1
    MaxRejections = 2
    NameLookups = 1
    Ends <- CostMayBeSkipped
    Answers = {"accepted", "ambiguous", "rejected"}
    Honest = FALSE
    MaxJobs = 6
    MaxEpochs = 0
    MaxKills = 0
    MaxFaults = 0
    MaxByHand = 0
PROPERTIES PipelineEnds
