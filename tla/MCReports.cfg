\* Two jobs, two schedules and one restart; a week is two steps of the clock.
SPECIFICATION Spec

CONSTANTS
    Null = Null
    Parts = {"cards", "trends"}
    Formats = {"docx", "xlsx"}
    Bases = {"BUDGET", "budget"}
    TableBases = {"BUDGET"}
    Frequencies <- ApiFrequencies
    Intervals <- SchedulerIntervals
    Week = 2
    Configured = {"teams", "email"}
    MaxClock = 5
    MaxJobs = 2
    MaxSchedules = 2
    MaxLists = 1
    MaxRestarts = 1

CONSTRAINT OneHalf

INVARIANT ReadyReportsStay

PROPERTIES
    OncePerInterval
    DueThingsHappen

CHECK_DEADLOCK FALSE
