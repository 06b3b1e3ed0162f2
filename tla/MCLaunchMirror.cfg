SPECIFICATION Spec
CONSTANTS
    Calls = {c1, c2, c3, c4}
    Handlers = {"wizard", "complete"}
    Fees = {200}
    NoFee = NoFee
    MaxRows = 1
    MaxMints = 2
    MaxSends = 1
SYMMETRY Symmetry
INVARIANTS MirrorMatchesShares
CHECK_DEADLOCK FALSE
