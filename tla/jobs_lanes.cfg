SPECIFICATION Spec
CONSTANTS
    j1 = j1
    None = None
    Jobs <- OneJob
    Seeded <- OneJob
    Viable <- OneJob
    Defects <- NoDefects
    MaxActive = 1
    MaxCrashes = 2
    MaxCalls = 2
INVARIANTS OneCallPerJob ArtifactFirst PackageIsBacked FromReceipts
PROPERTIES TerminalIsFinal
CHECK_DEADLOCK FALSE
