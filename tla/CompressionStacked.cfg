CONSTANTS
    Encodings <- MCEncodings
    ClientStacks <- MCClientStacks
    ServerStacks <- MCServerStacks
    StubCodecs = {"plain"}
    StubAccepts <- MCAny
    Shapes <- MCShapes
SPECIFICATION Spec
INVARIANTS
    ResponseUsesItsEncoding
CHECK_DEADLOCK FALSE
