\* A signal while a client is connected and silent.
SPECIFICATION FairSpec
CONSTANTS
    Ids = {a}
    Objs = {r1, r2}
    Handlers = {h1, h2}
    MaxLines = 1
    None = None
PROPERTIES
    SignalStopsChildren
