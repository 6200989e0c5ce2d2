CONSTANTS
    NumEvents = 6
    LineBytes <- MCLineBytes
    BatchMaxEvents = 3
    BatchMaxBytes = 4
    FlushInterval = 2
    RetryMaxAttempts = 2
    MaxCloseCalls = 2
SPECIFICATION Spec
INVARIANTS
    TypeOK
    WithinLimits
    BytesExact
    InOrderOnce
    SummaryAddsUp
    CopiesBounded
    RetriesAccounted
PROPERTIES
    SummaryFinal
    CallReturns
    ImplementsPipe
\* The run ends when every event is written and close was called MaxCloseCalls times.
CHECK_DEADLOCK FALSE
