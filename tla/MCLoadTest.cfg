CONSTANTS
    Clients = 2
    MaxMessages = 2
    MaxDisconnects = 1
    MaxReports = 2
SPECIFICATION Spec
INVARIANTS
    TotalsAddUp
    ExitCodeExplained
PROPERTIES
    ResultPrinted
\* The program has exited.
CHECK_DEADLOCK FALSE
