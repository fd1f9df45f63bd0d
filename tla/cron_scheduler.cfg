SPECIFICATION FairCron
CONSTANTS
    NoRow = NoRow
    Keep = Keep
    MaxJobs = 2
    Schedules <- Mixed
    MaxBatches = 2
    MaxTasks = 1
    MaxConcurrent = 1
    MaxAge = 1
    Horizon = 3
    MaxEdits = 2
    MaxManual = 1
    MaxCrashes = 1
    WritesFail = TRUE
CHECK_DEADLOCK FALSE
INVARIANTS
    TypeOK
    OneRunAtATime
    FiredOneShotsStayDown
PROPERTY DueJobsAreServed
