SPECIFICATION FairSpec
CONSTANTS
    Writers = {w1, w2}
    MaxTime = 4
    Batch = 2
    Res = 2
    NoWriter = NoWriter
INVARIANTS ChainIsTotal ReportsHaveACause SilenceVouches
PROPERTIES SweepEnds
CHECK_DEADLOCK FALSE
