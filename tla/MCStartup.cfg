CONSTANTS
    Absent = Absent
    Blank = Blank
    Spaces = Spaces
    Fraction = Fraction
    Text = Text
    Settings <- MCSettings
    Brokers <- MCBrokers
    MaxFaults = 2
    MaxEdits = 2
SPECIFICATION Spec
INVARIANTS
    TypeOK
    SavedSettingsParse
PROPERTIES
    LeftoversExplained
    SavedInputComesUp
\* An input whose interval is -1 stays ended.
CHECK_DEADLOCK FALSE
