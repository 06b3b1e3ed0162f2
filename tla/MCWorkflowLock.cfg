SPECIFICATION FairSpec
CONSTANTS
    Runs = {r1, r2, r3}
    Ttl = 2
    MaxTokens = 4
INVARIANTS MutualExclusion HolderKeepsKey
PROPERTIES ImplementsLease KeyExpires
CHECK_DEADLOCK FALSE
