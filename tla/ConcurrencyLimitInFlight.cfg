CONSTANTS
    r1 = r1
    r2 = r2
    r3 = r3
    r4 = r4
    Requests = {r1, r2, r3}
    Streaming <- MCAllStreaming
    HangSets = {{}}
    Configured = {2}
SPECIFICATION Spec
INVARIANTS
    InFlightCapped
CHECK_DEADLOCK FALSE
