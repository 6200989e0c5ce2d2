CONSTANTS
    NumEvents = 3
    LineBytes <- MCSmallLines
    BatchMaxEvents = 2
    BatchMaxBytes = 3
    FlushInterval = 1
    RetryMaxAttempts = 1
    MaxCloseCalls = 0
    Intervals <- MCIntervals
    BackoffMax = 4
    CooldownThreshold = 2
    Cooldown = 3
    FloatMaxExponent = 0
    MaxConnects = 3
    QueueCapacity = 1
    DrainBatch = 2
SPECIFICATION Spec
PROPERTIES
    ReconnectsThroughLoop
CHECK_DEADLOCK FALSE
