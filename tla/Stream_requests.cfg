SPECIFICATION FairSpec
CONSTANTS
    Streams = {r1, r2}
    Slots = 1
    MaxChunks = 1
INVARIANTS
    SlotsExact
    LimiterExact
    DoneOnce
    OutputComplete
    NothingLeftBehind
PROPERTIES
    NeverStalls
