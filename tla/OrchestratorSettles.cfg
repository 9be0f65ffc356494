CONSTANTS
    Supervisors = {"workloads", "policies"}
    Deployments = {"d"}
    StatefulSets = {}
    HPAs = {}
    HPATarget <- MCHPATarget
    Labels <- MCLabels
    Payload <- MCPayload
    Texts <- MCTieThenHigher
    WorkloadChanges = 1
    HPAChanges = 0
    MaxRev <- MCMaxRev
    None = None
    MinutesPerDay = 4
    Unset = Unset
    Malformed = Malformed
    Rejected = Rejected
    DefaultMaxAge = 72
    TimeZones = {"UTC"}
    LabelKeys = {"tier"}
    LabelValues = {"dev"}
    Regexps = {"d"}
    FullMatch <- MCFullMatch
SPECIFICATION FairSpec
PROPERTY
    Converges
CHECK_DEADLOCK FALSE
