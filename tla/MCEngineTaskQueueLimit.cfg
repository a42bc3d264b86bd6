SPECIFICATION Spec
CONSTANTS
    MaxConcurrent = 1
    MaxHistory = 3
    MaxTasks = 4
    MaxAwaits = 1
INVARIANT MaxConcurrentRuns
CHECK_DEADLOCK FALSE
