SPECIFICATION KeySpec
CONSTANTS
    Runs = {m1, m2, m3}
    Names = {alice, bob}
    MaxUsers = 1
INVARIANTS
    CapHolds
    ServedAreIssued
