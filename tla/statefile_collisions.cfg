SPECIFICATION Spec
CHECK_DEADLOCK FALSE
CONSTANTS
    Writers = {"orchestrator", "monitor"}
    Stamps <- SameMillisecond
    Ops <- OverrideOps
    Fields = {"sync", "material"}
    Torn = Torn
    Absent = Absent
    MaxHistory = 3
    EditedTo = {"FIT_APPROVED"}
    MaxTamper = 1
INVARIANT HistoryIsLegal
INVARIANT TaintIsFlagged
PROPERTY OnlyLateOverwrites
