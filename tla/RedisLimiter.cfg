SPECIFICATION FairSpec
CONSTANTS
    n1 = n1
    n2 = n2
    Nodes <- MCNodes
    Skew <- MCSkew
    MaxSkew = 1
    Calls = {c1, c2, c3}
    PerMin = 2
    MaxInflight = 2
    Window = 3
    Ttl = 4
INVARIANTS
    CapsHold
PROPERTIES
    LockoutEnds
