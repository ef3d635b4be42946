SPECIFICATION PositionSpec
CONSTANTS
    PriceScale = 12
    HeldStakes = {1, 2, 3, 5, 7, 10, 12, 29}
    Entries = {1, 2, 3, 5, 6, 7, 8, 9, 10, 11, 12}
    Gone = Gone
    Requotes = {0, 1, 2, 3, 4, 5, 6, 7, 8, 9, 10, 11, 12}
INVARIANTS MarksAreNearest SaleAgreesWithSettlement
CHECK_DEADLOCK FALSE
