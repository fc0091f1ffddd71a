SPECIFICATION FairSpec
CONSTANTS
    LaunchRetries = 2
INVARIANTS
    RunNeedsCompile
    UserCodeOnce
    NothingLeftBehind
    ResultHonest
PROPERTIES
    ExecuteReturns
