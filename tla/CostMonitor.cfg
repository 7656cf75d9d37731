SPECIFICATION MonitorSpec
CONSTANTS
    N = 2
    baseline = baseline
    evolved = evolved
    Arms = {baseline, evolved}
    MaxEvents = 1
SYMMETRY Symmetry
INVARIANTS
    AdmittedIsQuiet
    AdmittedIsBalanced
    ContaminationIsMeasured
    FailureIsReal
CHECK_DEADLOCK FALSE
