SPECIFICATION ApartSpec
CONSTANTS
    ann = ann
    bob = bob
    agent = agent
    People = {ann, bob, agent}
    Vendors = {agent}
    Old <- Past
    Owner = bob
    TopN = 2
    Computes = {c1, c2}
    Refreshes = {f1}
    MaxTime = 1
    MaxActivity = 1
    MaxUpsets = 1
INVARIANTS SortedAtRest RangeIsCounted
PROPERTY BoardSettles
CHECK_DEADLOCK FALSE
