SPECIFICATION PayoutSpec
CONSTANTS
    ann = ann
    bob = bob
    cal = cal
    People = {ann, bob, cal}
    Nobody = Nobody
    N = 4
    IdOf <- Ids
    LoginOf <- Logins
    Initial <- Launched
    Boards <- Seen
    Takings = {r1, r2}
    MaxScore = 5
    MaxDay = 2
    MaxFaults = 1
SYMMETRY Symmetry
INVARIANTS PayoutTypeOK AlwaysWhole SharesAreFair
PROPERTIES NeverBackwards
CHECK_DEADLOCK FALSE
