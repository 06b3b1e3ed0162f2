SPECIFICATION Spec
CONSTANTS
    Runs = {r1, r2}
    Nobody = Nobody
    N = 2
    Weights = {3, 5, 7}
    LaunchPlan <- Launch
    MeritPlans <- Merits
    NoSignal = NoSignal
    RampUp = 2
    Cadence = 1
    Backoff = 1
    MaxTotal = 2
    MaxTx = 2
    MaxSnapshots = 2
    MaxFaults = 1
    LeaseMayLapse = FALSE
    MayLackContext = TRUE
SYMMETRY Symmetry
INVARIANTS SingleExecution MirrorFollowsLedger ConfirmedWasInABlock LedgerCoversNetwork
PROPERTIES EachPassCountsOnce
CHECK_DEADLOCK FALSE
