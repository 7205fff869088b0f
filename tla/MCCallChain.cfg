CONSTANTS
    Byte <- MCByte
    Headers = {"authorization", "x-key", "x-key-bin", "x-request-id"}
    HeaderKind <- MCHeaderKind
    Unprintable <- MCUnprintable
    Unparsable <- MCUnparsable
    Hops = 2
    Settings <- MCSettings
    IdHeaders = {"x-request-id", "x-key-bin"}
    OwnIds <- MCOwnIds
    Readings <- MCReadings
    MaxAttempts = 2
SPECIFICATION Spec
INVARIANTS
    CredentialsDecide
    OneIdPerCall
    CallerLearnsWhetherTransient
PROPERTIES
    PermanentFailureIsFinal
CHECK_DEADLOCK FALSE
