\* The real exponent: 2^1024 is the first power of two without a float value.
CONSTANTS
    Intervals <- MCDefaultInterval
    BackoffMax = 300
    CooldownThreshold = 5
    Cooldown = 120
    FloatMaxExponent = 1023
    MaxConnects = 1030
SPECIFICATION BrokerAwaySpec
INVARIANTS
    NeverExits
CHECK_DEADLOCK FALSE
