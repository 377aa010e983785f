SPECIFICATION Spec
CONSTANTS
    up = up  down = down
    Tokens <- TokenOrder
    One = 4
    Start = 1
    End = 3
    Warmup = 1
    Inputs <- MarketInputs
    None = None
INVARIANTS
    TypeOK
    SamplesAreAsOf
    GridDivided
    AdmittedIsSound
CHECK_DEADLOCK FALSE
