CONSTANTS
    NumEvents = 4
    LineBytes <- MCLineBytes
    BatchMaxEvents = 2
    BatchMaxBytes = 3
    FlushInterval = 1
    RetryMaxAttempts = 1
    MaxCloseCalls = 0
    Intervals <- MCIntervals
    BackoffMax = 4
    CooldownThreshold = 2
    Cooldown = 3
    FloatMaxExponent = 1
    MaxConnects = 4
    QueueCapacity = 2
    DrainBatch = 2
SPECIFICATION Spec
INVARIANTS
    TypeOK
    NoneLostSilently
    StatsExact
    MemoryBounded
    QuietWhileAway
PROPERTIES
    QueueDrains
    ImplementsPipe
    ImplementsPolicy
\* The run ends when every message is written and the link stays up, or the loop exits.
CHECK_DEADLOCK FALSE
