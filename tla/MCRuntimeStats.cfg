CONSTANTS
    NumMessages = 4
    StartTimes <- MCStartTimes
    MaxTime = 4
    MaxReconnects = 1
    QueueCapacity = 2
    DrainBatch = 2
    HealthLogInterval = 1
    DropWarningInterval = 2
SPECIFICATION Spec
INVARIANTS
    TypeOK
    HighWaterTrue
    WindowsAddUp
    DropsReportedOnce
PROPERTIES
    WarningsPaced
\* The run ends with the clock and the messages.
CHECK_DEADLOCK FALSE
