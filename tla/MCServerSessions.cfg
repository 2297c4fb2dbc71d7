\* Three connections: a stream is replaced while a third handler leaves.
SPECIFICATION FairSpec
CONSTANTS
    Conns = {c1, c2, c3}
    Ids = {i1}
    StreamIds = {s1, s2}
    Objs = {o1, o2, o3}
    None = None
INVARIANTS
    TypeOK
    LiveSessionIsMapped
    TableIsExact
    NoSessionLeak
    UiShowsNoGhost
PROPERTIES
    HandlerReturns
    ImplementsRegistry
