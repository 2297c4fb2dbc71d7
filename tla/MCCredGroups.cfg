\* A group of two workers and a group of one, two primary links and the
\* secondary.
SPECIFICATION FairSpec
CONSTANTS
    NumWorkers = 3
    GroupSize = 2
    NumGroups = 2
    NumPrimary = 2
    HasSecondary = TRUE
    indexHint <- NoDuplicates
    FetchFailureThreshold = 2
    ErrorThreshold = 1
    MaxCalls = 1
INVARIANTS
    TypeOK
    SingleFlight
    NoLostWakeup
    SecondaryIsLastResort
    InvalidationIsComplete
PROPERTIES
    AcquireReturns
