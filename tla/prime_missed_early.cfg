SPECIFICATION Spec
CHECK_DEADLOCK FALSE
CONSTANTS
    Orchestrators <- OneOrchestrator
    o1 = o1
    Deadlines <- TickWindows
    HelperDefined = FALSE
    MaxTime = 6
    MaxDrafts = 1
    MaxTrials = 1
    MaxCrashes = 0
PROPERTY MissedMeansTooLate
