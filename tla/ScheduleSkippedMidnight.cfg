CONSTANTS
    MinutesPerDay = 5
    Schedules <- MCSchedules
    StartDays = {{5, 6}}
    FirstDays = {5, 6}
    SecondDays = {5, 6}
    MaxDate = 7
    Shift = 1
SPECIFICATION Spec
INVARIANT OneIDPerInstance
CHECK_DEADLOCK FALSE
