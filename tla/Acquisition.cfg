SPECIFICATION FairSpec
CONSTANTS
    Versions = {v1, v2}
    Retries = 2
    None = None
    MaxRevisions = 3
    MaxFaults = 5
INVARIANTS
    TypeOK
    AcquiredIsPinned
PROPERTIES
    EventuallyAcquired
