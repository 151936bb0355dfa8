SPECIFICATION Spec
CONSTANTS
    j1 = j1
    None = None
    Jobs <- OneJob
    Seeded <- OneJob
    Viable <- OneJob
    Defects <- AsCommitted
    MaxActive = 1
    MaxCrashes = 2
    MaxCalls = 2
INVARIANTS RecoverSurvives
CHECK_DEADLOCK FALSE
