SPECIFICATION MCSpec
CHECK_DEADLOCK FALSE
CONSTANTS
    NoRecord = NoRecord
    Requests = {r1, r2}
    AgentMoves <- Moves
    DetailsDefined = FALSE
    MaxPrepares = 3
    MaxMarks = 1
    MaxReads = 1
    None = None
    Scores <- WholeScores
    Asked <- OtherScores
    AskedSalts <- OtherSalts
    ScoreCalls = {q1, q2}
    MaxSalts = 2
    MaxDeaths = 1
    HelperDefined = FALSE
    Missing = Missing
    MaxValidators = 2
    MaxFailedCalls = 2
    Absent = Absent
    Requesters = {c1, c2}
    Packets <- TwoPackets
    Results <- Answers
    AgentStatuses <- SaidOfRuns
    MaxRuns = 1
    MaxCalls = 5
    CycleIds = {cycle1}
    Confirmations = 1
    Span = 1
    FailureLimit = 2
    FirstBlock = 1
    FirstChains <- OneOrNoEvent
    Unknown = Unknown
    MaxHead = 6
    MaxReorgs = 1
    MaxTroubles = 1
    Unset = Unset
    Makers = {m1}
    Providers <- CloudAndLocal
    PromptIsList = TRUE
    MaxItems = 2
    MaxDrafts = 3
    MaxMishaps = 1
    JobKinds <- ThreeJobs
    Nobody = Nobody
    Accounts = {x, y}
    Ids = {i1, i2}
    UrgentIds = {i1}
    MaxSelections = 2
    MaxClicks = 2
    MaxAsks = 1
    MaxPolls = 3
INVARIANT MarkHitsChosen
INVARIANT AssignedIsOurs
INVARIANT RevealOpens
INVARIANT RevealOfCommitted
INVARIANT RowWasTrue
INVARIANT NoEventSkipped
INVARIANT RecordIsIndexed
INVARIANT BudgetHolds
INVARIANT SettledIsSelected
INVARIANT DismissedStaysGone
PROPERTY MarksKept
PROPERTY ReportKept
