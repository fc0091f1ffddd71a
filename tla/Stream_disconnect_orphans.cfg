SPECIFICATION Spec
CONSTANTS
    Streams = {r1}
    Slots = 1
    MaxChunks = 1
INVARIANT
    DestroyedAfterwards
