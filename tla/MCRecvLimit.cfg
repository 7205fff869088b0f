CONSTANTS
    HeaderLen = 3
    MaxRecv = 1
    Byte = {0, 1}
    DeclaredLen <- MCDeclaredLen
    Bodies <- MCBodies
    MaxFrames = 2
    MCBodyLen = 7
SPECIFICATION FairSpec
INVARIANTS
    OversizedNeverDelivered
    FirstMessageCheckedBeforeCall
    NoFalseReject
    ReplayIntact
    IInv
PROPERTIES
    RejectionIsSticky
    Decides
CHECK_DEADLOCK FALSE
