SPECIFICATION FairSpec
CONSTANTS
    samples = samples  markets = markets
    Tables = {samples, markets}
    Manifest = Manifest
    Position <- SortedNames
    Identities = {i1, i2}
    Stamps = {t1, t2}
    None = None
    KillPoints <- Anywhere
    MaxKills = 3
INVARIANTS
    IInv
    PublishedIsComplete
    VerifiedIntact
PROPERTIES
    CheckpointForward
    PartitionRecorded
CHECK_DEADLOCK FALSE
