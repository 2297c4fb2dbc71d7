\* Two control connections work on one route id; the successor of a route
\* overlaps with the goroutines of its predecessor.
SPECIFICATION FairSpec
CONSTANTS
    Ids = {a}
    Objs = {r1, r2}
    Handlers = {h1, h2}
    MaxLines = 1
    None = None
INVARIANTS
    TypeOK
    RunningChildIsMapped
    SubscribedChannelIsOpen
    StatusIsHonest
PROPERTIES
    RequestReturns
