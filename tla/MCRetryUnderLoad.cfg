CONSTANTS
    c1 = c1
    c2 = c2
    Clients = {c1, c2}
    Codes = {"Unavailable", "DeadlineExceeded", "InvalidArgument"}
    RetryCodes = {"Unavailable", "DeadlineExceeded"}
    FailCodes = {"DeadlineExceeded"}
    Answers = {"ok", "InvalidArgument"}
    MaxAttempts = 2
    Requests <- MCRequests
    Streaming <- MCStreaming
    MaxConcurrent = 0
SPECIFICATION SysFairSpec
INVARIANTS
    RetriesExactlyWhenAllowed
PROPERTIES
    ShedOnlyWhenFull
    ImplementsAdmissionControl
    EveryCallReturns
CHECK_DEADLOCK FALSE
