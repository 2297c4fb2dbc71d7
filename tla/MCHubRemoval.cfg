\* One client that does not read, and a queue of one removal.
SPECIFICATION FairSpec
CONSTANTS
    MaxConns = 1
    MaxAttempts = 1
    MaxVersion = 3
    SendCap = 1
    QueueCap = 1
    BroadcastCap = 1
    None = None
PROPERTIES
    FullClientIsDropped
CHECK_DEADLOCK FALSE
