CONSTANTS
    MinutesPerDay = 5
    Schedules <- MCSchedules
    StartDays = {{0, 3}, {1, 2, 6}}
    FirstDays = {0, 3}
    SecondDays = {1, 2, 6}
    MaxDate = 7
    Shift = 2
SPECIFICATION Spec
INVARIANTS
    MatchIsInstance
    InstancesInOrder
PROPERTY InstanceIsStable
CHECK_DEADLOCK FALSE
