SPECIFICATION PriceSpec
CONSTANTS
    v1 = v1
    v2 = v2
    Variants = {v1, v2}
    Prices = {50, 125}
    Quantities = {1, 2}
    Discounts = {0, 125}
    Scale = 100
    Headers <- MCHeaders
    MaxLines = 3
    MaxChanges = 1
INVARIANTS
    LinesFoldTheRequest
    NegativeOnlyWhenDearer
    PricesExactly
    RefundsWhatLinesCost
CHECK_DEADLOCK FALSE
