\* One engine run at a time, as in the service; of three tasks the history holds
\* two, so that one may be pushed out before it is served.
SPECIFICATION FairSpec
CONSTANTS
    MaxConcurrent = 1
    MaxHistory = 2
    MaxTasks = 3
    MaxAwaits = 2
INVARIANTS TypeOK RunningTracked WorkConserving ExcessBoundedByCancels ServedInOrder
PROPERTIES SettledIsFinal EveryTaskSettles
CHECK_DEADLOCK FALSE
