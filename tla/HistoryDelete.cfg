SPECIFICATION HSpec
CONSTANTS
    None = None
    AllContainers = AllContainers
    Keys = {"w"}
    Templates <- MCTemplates
    Policies <- MCPolicies
    Instances <- MCInstances
    MaxReplicas = 1
    MaxTime = 2
    MaxUID = 1
    MaxAge = 2
    Actions = {"delete"}
    Tracking = {{"app"}}
    MonTicks = {}
    TueTicks = {}
PROPERTY
    DeletesOnlyExpired
CHECK_DEADLOCK FALSE
