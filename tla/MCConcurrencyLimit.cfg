CONSTANTS
    r1 = r1
    r2 = r2
    r3 = r3
    r4 = r4
    Requests = {r1, r2, r3, r4}
    Streaming <- MCStreaming
    HangSets <- MCHangSets
    Configured = {0, 2}
SPECIFICATION FairSpec
INVARIANTS
    PermitsConserved
    NoLostWakeup
PROPERTIES
    NoOvertaking
    EveryCallEnds
    ImplementsAdmissionControl
CHECK_DEADLOCK FALSE
