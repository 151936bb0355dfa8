SPECIFICATION FairMonitor
CONSTANTS
    CycleIds = {c1}
    Confirmations = 1
    Span = 1
    FailureLimit = 2
    FirstBlock = 1
    FirstChains <- QuietChains
    Unknown = Unknown
    MaxHead = 6
    MaxReorgs = 1
    MaxTroubles = 0
PROPERTY RefreshGoesOn
CHECK_DEADLOCK FALSE
