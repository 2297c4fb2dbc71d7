\* One stream, whose connections may overlap with their predecessors.
SPECIFICATION FairSpec
CONSTANTS
    StreamIds = {0}
    p1 = p1
    p2 = p2
    Pipes = {p1, p2}
    Conns <- MCConnsOfOne
    HandshakeSlots = 1
    None = None
PROPERTIES
    ShutdownCompletes
    AttemptsEnd
