CONSTANTS
    Requests = {r1, r2}
    MaxRequests = 3
    MaxTrouble = 2
SPECIFICATION Spec
INVARIANTS
    TypeOK
    RunsOnAcceptedToken
    TokenLivesWithInput
PROPERTIES
    FailedStartRepaired
\* The system rests when every request is made and the input runs or does not exist.
CHECK_DEADLOCK FALSE
