SPECIFICATION HSpec
CONSTANTS
    None = None
    AllContainers = AllContainers
    Keys = {"w"}
    Templates <- MCTemplates
    Policies <- MCPolicies
    Instances <- MCInstances
    MaxReplicas = 1
    MaxTime = 3
    MaxUID = 2
    MaxAge = 2
    Actions = {"scale"}
    Tracking = {{"sidecar"}, AllContainers}
    MonTicks = {0, 1}
    TueTicks = {3}
INVARIANT
    IntentRecorded
    ExpiryNeverEarly
    ExemptionHolds
CHECK_DEADLOCK FALSE
