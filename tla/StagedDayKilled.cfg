SPECIFICATION FairSpec
CONSTANTS
    a1 = a1  a2 = a2  a3 = a3  a4 = a4  b2 = b2
    Slots = {a1, a2, a4, b2}
    StartOf <- SlotStarts
    Rank <- SlotRanks
    Inventories <- AnyInventory
    Gaps = {2}
    KillPoints <- Anywhere
    MaxKills = 2
INVARIANTS
    TypeOK
    StagedExactly
    EvictedInTime
    SourcesNamed
    NothingRetained
PROPERTIES
    DayStaged
CHECK_DEADLOCK FALSE
