SPECIFICATION Spec
CONSTANTS
    s1 = s1
    s2 = s2
    s3 = s3
    alice = alice
    root = root
    Sessions = {s1, s2, s3}
    Identities = {alice, root}
    Owner <- MCUsers
    Admins = {root}
    MaxTotal = 2
    PerUser = 1
    Readers = {}
SYMMETRY MCSymmetry
INVARIANTS
    CountsExact
    PerUserBounded
    TotalBounded
    LiveTracked
    ShutdownReachesAll
