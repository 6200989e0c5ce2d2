CONSTANTS
    Intervals <- MCIntervals
    BackoffMax = 300
    CooldownThreshold = 5
    Cooldown = 120
    FloatMaxExponent = 10
    MaxConnects = 13
SPECIFICATION Spec
INVARIANTS
    TypeOK
    SleepInBounds
    CountersHonest
PROPERTIES
    DelayOnlyGrows
\* A run ends after MaxConnects calls of connect, or when the loop has exited.
CHECK_DEADLOCK FALSE
