CONSTANTS
    Absent = Absent
    Blank = Blank
    Spaces = Spaces
    Fraction = Fraction
    Text = Text
    Settings <- MCSettings
    Brokers <- MCBrokers
    MaxFaults = 0
    MaxEdits = 0
SPECIFICATION Spec
PROPERTIES
    CleanedUpOnException
\* An input whose interval is -1 stays ended.
CHECK_DEADLOCK FALSE
