SPECIFICATION FairSpec
CONSTANTS
    Server = Server
    Runs = {r1, r2}
    Typed = {r2}
    MaxAge = 3
    MaxPhase = 2
    MaxLaunches = 2
PROPERTIES
    NoneLost
    ActiveSpared
    OrphansReclaimed
