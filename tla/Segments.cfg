SPECIFICATION FairSpec
CONSTANTS
    a = a  b = b
    Assets = {a, b}
    N = 7
    K = 2
    Gaps = {5}
    Inventories <- SevenStarts
    Late <- LateSlots
    Revised = {3, 6}
    MaxVersion = 2
    MaxLosses = 1
INVARIANTS
    IInv
    AssembledIsWhole
    EverySlotOnce
    
PROPERTIES
    DayAssembled
CHECK_DEADLOCK FALSE
