SPECIFICATION Spec
CONSTANTS
    Calls = {c1, c2, c3, c4}
    Admins = {ada, bob, cyn}
    Supers = {ada, bob}
    Prints = {kill, claim, pause}
    Plain = {pause}
    MaxRows = 2
    Nobody = Nobody
SYMMETRY Symmetry
INVARIANTS TwoPersons OneOpenRow RecordsAreTrue
PROPERTIES ApprovalStands
CHECK_DEADLOCK FALSE
