CONSTANTS
    Supervisors = {"hpa", "policies"}
    Deployments = {}
    StatefulSets = {"s"}
    HPAs = {"h"}
    HPATarget <- MCHPATarget
    Labels <- MCLabels
    Payload <- MCPayload
    Texts <- MCInvalidBetween
    WorkloadChanges = 0
    HPAChanges = 1
    MaxRev <- MCMaxRev
    None = None
    MinutesPerDay = 4
    Unset = Unset
    Malformed = Malformed
    Rejected = Rejected
    DefaultMaxAge = 72
    TimeZones = {"UTC"}
    LabelKeys = {"tier"}
    LabelValues = {"dev"}
    Regexps = {"d"}
    FullMatch <- MCFullMatch
SPECIFICATION ShutdownSpec
INVARIANTS
    TypeOK
    SnapshotIsSound
PROPERTIES
    PolicyOnlyAdvances
    OnlyAskedFor
    RunReturns
CHECK_DEADLOCK FALSE
