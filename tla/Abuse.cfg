SPECIFICATION AbuseFairSpec
CONSTANTS
    Requests = {r1, r2, r3}
    Results <- MCResults
    Window = 4
    Threshold = 5
INVARIANTS
    ScoreIsWindow
PROPERTIES
    QuarantineEnds
