SPECIFICATION Spec
CONSTANTS
    j1 = j1
    None = None
    Jobs <- OneJob
    Seeded <- OneJob
    Viable <- OneJob
    Defects <- NoDefects
    MaxActive = 1
    MaxCrashes = 0
    MaxCalls = 1
INVARIANTS PackagedJobPasses
CHECK_DEADLOCK FALSE
