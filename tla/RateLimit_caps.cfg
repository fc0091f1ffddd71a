SPECIFICATION Spec
CONSTANTS
    Identities = {a, b}
    PerMin = 2
    MaxInflight = 2
    TicksPerSecond = 2
    Window = 5
    MaxCallers = 3
    Horizon = 8
INVARIANTS
    RateBounded
    RetryAfterClose
PROPERTIES
    ImplementsLimiter
