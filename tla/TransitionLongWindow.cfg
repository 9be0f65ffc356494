SPECIFICATION Spec
CONSTANTS
    None = None
    AllContainers = AllContainers
    Keys = {"w"}
    Templates <- MCTemplates
    Policies <- MCPolicies
    Instances <- MCInstances
    MaxReplicas = 2
    MaxTime = 4
    MaxUID = 1
    MaxAge = 2
    ExpiredTarget = 0
    ScheduledTarget = 0
    Actions = {"scale"}
    Tracking = {AllContainers}
    MonTicks = {1, 2, 3, 4}
    TueTicks = {}
    Busy = {"w"}
    Guarded = FALSE
INVARIANT
    IntentRecorded
CHECK_DEADLOCK FALSE
