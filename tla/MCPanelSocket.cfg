\* A page that opens a socket and a successor, while the client of the first
\* lingers in the hub.
SPECIFICATION FairSpec
CONSTANTS
    MaxConns = 2
    MaxAttempts = 1
    MaxVersion = 2
    SendCap = 1
    QueueCap = 1
    BroadcastCap = 1
    None = None
INVARIANTS
    TypeOK
    NeverStranded
    OneSocket
    HubSendsToOpen
PROPERTIES
    PushesInOrder
    PumpsEnd
CHECK_DEADLOCK FALSE
