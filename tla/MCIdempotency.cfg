SPECIFICATION Spec
CONSTANTS
    Calls = {c1, c2, c3, c4}
    Keys = {k1, k2}
    NoCall = NoCall
SYMMETRY Symmetry
INVARIANTS OneAtATime ReplayIsGenuine SecretShownOnce
PROPERTIES AnsweredOnce KeysAreLeases
CHECK_DEADLOCK FALSE
