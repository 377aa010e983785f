SPECIFICATION FairSpec
CONSTANTS
    Retries = 2
    AnsweredLag = 3
    LostLag = 2
    MaxReleases = 4
    MaxFaults = 6
INVARIANTS
    TypeOK
    DraftsBounded
PROPERTIES
    EventuallyDraft
