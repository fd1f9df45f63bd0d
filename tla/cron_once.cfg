SPECIFICATION CronSpec
CONSTANTS
    NoRow = NoRow
    Keep = Keep
    MaxJobs = 2
    Schedules <- OneShots
    MaxBatches = 2
    MaxTasks = 2
    MaxConcurrent = 1
    MaxAge = 0
    Horizon = 3
    MaxEdits = 2
    MaxManual = 1
    MaxCrashes = 1
    WritesFail = FALSE
CHECK_DEADLOCK FALSE
INVARIANT FiresOnce
