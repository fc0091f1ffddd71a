SPECIFICATION FairSpec
CONSTANTS
    Reqs = {s1, a1, a2}
    SyncReqs = {s1}
    Workers = {w1, w2}
    Depth = 1
    MaxInflight = 2
    NoJob = NoJob
INVARIANTS
    PlacesMeanWork
    IdHasRow
    CloseLosesOnlyCut
PROPERTIES
    PlacesComeBack
