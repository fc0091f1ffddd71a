SPECIFICATION FairSpec
CONSTANTS
    s1 = s1
    s2 = s2
    s3 = s3
    alice = alice
    root = root
    Sessions = {s1, s2}
    Identities = {alice, root}
    Owner <- MCUsers
    Admins = {root}
    MaxTotal = 2
    PerUser = 2
    Readers = {s1}
PROPERTIES
    EverySessionEnds
