SPECIFICATION Spec
CHECK_DEADLOCK FALSE
CONSTANTS
    Orchestrators <- OneOrchestrator
    o1 = o1
    Deadlines <- TickWindows
    HelperDefined = TRUE
    MaxTime = 6
    MaxDrafts = 2
    MaxTrials = 1
    MaxCrashes = 1
INVARIANT MaterialBindsCommit
INVARIANT RevealWillOpen
INVARIANT ReadyHasTx
PROPERTY MissedNotEarly
PROPERTY FollowsGraph
