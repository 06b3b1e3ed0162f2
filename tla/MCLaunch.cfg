SPECIFICATION Spec
CONSTANTS
    Calls = {c1, c2, c3, c4}
    Handlers = {"wizard", "route", "complete", "direct", "edit", "discard", "pause", "kill", "promote"}
    Fees = {200}
    NoFee = NoFee
    MaxRows = 2
    MaxMints = 2
    MaxSends = 2
SYMMETRY Symmetry
INVARIANTS SharesComeFirst SubmittedOnce
PROPERTIES MirrorIsFinal
CHECK_DEADLOCK FALSE
