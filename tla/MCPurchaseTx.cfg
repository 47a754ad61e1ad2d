SPECIFICATION Spec
CONSTANTS
    d1 = d1
    v1 = v1
    v2 = v2
    c1 = c1
    c2 = c2
    Nobody = Nobody
    Clients = {c1, c2}
    Variants = {v1, v2}
    Orders = {}
    Returns = {}
    Purchases = {d1}
    Documents <- MCDocuments
    Opening <- MCOpening
    Baskets <- TwoLines
    Amounts = {0, 1, 2}
    MaxRequests = 4
SYMMETRY MCSymmetry
CHECK_DEADLOCK FALSE
INVARIANTS
    GoodsTakenInOnce
PROPERTIES
    StockIsLedgered
