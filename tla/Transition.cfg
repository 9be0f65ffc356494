SPECIFICATION Spec
CONSTANTS
    None = None
    AllContainers = AllContainers
    Keys = {"v", "w"}
    Templates <- MCTemplates
    Policies <- MCPolicies
    Instances <- MCInstances
    MaxReplicas = 1
    MaxTime = 2
    MaxUID = 2
    MaxAge = 2
    ExpiredTarget = 0
    ScheduledTarget = 0
    Actions = {"scale", "delete"}
    Tracking = {AllContainers, {"sidecar"}}
    MonTicks = {1}
    TueTicks = {}
    Busy = {"w"}
    Guarded = TRUE
CONSTRAINT OthersAreQuiet
INVARIANT
    IntentRecorded
PROPERTIES
    KeyIsolation
    ForgetsOnlyDeleted
CHECK_DEADLOCK FALSE
