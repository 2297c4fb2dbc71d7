\* Three changes besides those of protocol and flow, shared by an inbound's first
\* form and what is done to it later; two lists under way.
SPECIFICATION Spec
CONSTANTS
    MaxEdits = 3
    MaxLoads = 2
    None = None
INVARIANTS
    TypeOK
    ImportDials
    StoredIsCoherent
PROPERTIES
    ReopenKeepsStored
