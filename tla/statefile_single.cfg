SPECIFICATION Spec
CONSTANTS
    Writers = {"orchestrator"}
    Stamps <- OwnMillisecond
    Ops <- CallerOps
    Fields = {"sync", "material"}
    Torn = Torn
    Absent = Absent
    MaxHistory = 6
    EditedTo = {}
    MaxTamper = 0
INVARIANT NeverTorn
PROPERTY FieldsAccumulate
PROPERTY FollowsGraph
