SPECIFICATION Spec
CONSTANTS
    UnitTests = TRUE
    MaxCostAttempts = 2
    MaxRejections = 2
    NameLookups = 1
    Ends <- CostIsNoisyOrRaises
    Answers = {"accepted"}
    Honest = TRUE
    MaxJobs = 7
    MaxEpochs = 0
    MaxKills = 1
    MaxFaults = 0
    MaxByHand = 1
INVARIANTS JobsInOrder OutcomeIsTrue OnlyNoiseIsRetried
