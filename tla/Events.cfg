SPECIFICATION EFairSpec
CONSTANTS
    None = None
    AllContainers = AllContainers
    Keys = {"w"}
    Templates <- MCTemplates
    Policies <- MCPolicies
    Instances <- MCInstances
    MaxReplicas = 2
    MaxTime = 3
    MaxUID = 1
    MaxEvents = 1
    ScheduledTarget = 1
    MaxAge = 2
    MonTicks = {1}
    TueTicks = {2}
INVARIANTS
    TypeOK
    IntentRecorded
PROPERTIES
    IntentReturned
    DownEnforced
CHECK_DEADLOCK FALSE
