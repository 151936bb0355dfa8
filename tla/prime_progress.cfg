SPECIFICATION FairSpec
CHECK_DEADLOCK FALSE
CONSTANTS
    Orchestrators <- OneOrchestrator
    o1 = o1
    Deadlines <- TickWindows
    HelperDefined = TRUE
    MaxTime = 6
    MaxDrafts = 1
    MaxTrials = 1
    MaxCrashes = 0
PROPERTY NoLimbo
PROPERTY RevealIsPrepared
