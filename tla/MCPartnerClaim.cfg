SPECIFICATION ApartSpec
CONSTANTS
    Runs = {r1, r2, r3}
    Keys = {k1, k2}
    MaxTxs = 2
    MaxFees = 2
SYMMETRY Symmetry
INVARIANTS OneSender KillStops RecordsAreTrue
PROPERTIES NothingForgotten
CHECK_DEADLOCK FALSE
