CONSTANTS
    Encodings <- MCEncodings
    ClientStacks <- MCClientStacks
    ServerStacks <- MCServerStacks
    StubCodecs = {"plain"}
    StubAccepts <- MCAtMostOne
    Shapes <- MCShapes
SPECIFICATION Spec
INVARIANTS
    LabelsTellTheTruth
    Invisible
    OnlyAcceptedEncodings
CHECK_DEADLOCK FALSE
