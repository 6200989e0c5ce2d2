CONSTANTS
    Files <- MCFiles
    Overview = "overview"
    Generated <- MCGenerated
    Missing = Missing
    Torn = Torn
    MaxRuns = 4
SPECIFICATION Spec
INVARIANTS
    OneClock
PROPERTIES
    HarmlessRerun
\* The runs of the hook are used up.
CHECK_DEADLOCK FALSE
