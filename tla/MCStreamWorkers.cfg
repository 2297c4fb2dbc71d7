\* Two streams, each with a connection and a lingering predecessor, compete
\* for one handshake slot.
SPECIFICATION Spec
CONSTANTS
    StreamIds = {0, 1}
    p1 = p1
    p2 = p2
    Pipes = {p1, p2}
    Conns <- MCConns
    HandshakeSlots = 1
    None = None
INVARIANTS
    TypeOK
    LeaderIsCurrent
    HeartbeatHasSender
    UpHasRelay
