SPECIFICATION ClientSpec
CONSTANTS
    ClientLimit = 5
    ResponseLimit = 4
    AttemptLimit = 6
    DiagnosticLimit = 2
    ChunkLimit = 3
    MaxRequests = 3
    AttemptSeconds = 3
    RequestSeconds = 2
    Horizon = 4
    BodySizes <- MCBodySizes
INVARIANTS
    AnswersAreWhole
    RefusalIsDue
CHECK_DEADLOCK FALSE
