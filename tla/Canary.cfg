SPECIFICATION FairSpec
CONSTANTS
    AssetCount = 2
    RoundCount = 2
    RoundTop <- TwoRounds
    MaxCandidates = 4
    ComputeCandidates = 3
    Missing = {21}
    Worlds <- SomeWorlds
    None = None
    MaxAttempts = 3
    MaxFaults = 2
INVARIANTS
    TypeOK
    ReceiptAuthorizes
    CoverIsMinimum
    EvidenceIsOwn
    ProvenOnce
PROPERTIES
    CommittedOnOwnTree
    EventuallyUnlocked
CHECK_DEADLOCK FALSE
