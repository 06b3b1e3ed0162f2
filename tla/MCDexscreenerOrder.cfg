SPECIFICATION OrderSpec
CONSTANTS
    Visits = {v1, v2, v3}
    Images = {i1, i2}
    MaxOrders = 3
SYMMETRY Symmetry
INVARIANTS OneListing AskedOnce BooksMatch
CHECK_DEADLOCK FALSE
