SPECIFICATION FairSpec
CONSTANTS
    a1 = a1  a2 = a2  a3 = a3  a4 = a4  b2 = b2
    Slots = {a1, a2, a3, a4, b2}
    StartOf <- SlotStarts
    Rank <- SlotRanks
    Inventories <- SparseInventory
    Gaps = {}
    KillPoints <- Nowhere
    MaxKills = 0
PROPERTIES
    ExclusionsAreDurable
CHECK_DEADLOCK FALSE
