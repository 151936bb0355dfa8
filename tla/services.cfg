SPECIFICATION MCSpec
CHECK_DEADLOCK FALSE
CONSTANTS
    Procs <- ThreeProcs
    p1 = p1
    p2 = p2
    p3 = p3
    NoProc = NoProc
    Overlapping = FALSE
    Cli = Cli
    Deadlines <- TickDeadlines
    Times <- EarlyLateTimes
    InitialStatuses <- Starts
    Nothing = Nothing
    Scans = {s1, s2}
    Entities = {e1}
    EntityStatuses = {1, 2, 3}
    Attention = {1, 2}
    MaxFeed = 2
    MaxBrokenScans = 1
    MaxTokens = 120
    CallTokens = {9, 60}
    Empty = Empty
    Validators = {v1, v2, v3}
    ScoreValues = {40, 70}
    NoFile = NoFile
    MaxScriptDeaths = 1
    MaxOverwrites = 1
    Applicants = {v1, x}
    Trials <- TwoTrials
INVARIANT OneLoop
INVARIANT BundleBehindSubmission
INVARIANT SpendingBounded
INVARIANT DisputedIffApart
INVARIANT OneRunUnlessTorn
PROPERTY RefusedForCause
PROPERTY StatusFollowsTable
PROPERTY Settles
PROPERTY SettledIsTold
PROPERTY Repairable
