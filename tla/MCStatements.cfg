SPECIFICATION HelpersSpec
CONSTANTS
    d1 = d1
    k1 = k1
    k2 = k2
    v1 = v1
    v2 = v2
    c1 = c1
    c2 = c2
    c3 = c3
    Nobody = Nobody
    Clients = {c1, c2, c3}
    Keys = {k1, k2}
    MaxValue = 4
    Variants = {v1, v2}
    Orders = {d1}
    Returns = {}
    Purchases = {}
    Documents = {d1}
    Opening <- MCOpening
    Batches <- MCBatches
    MaxBatches = 4
SYMMETRY MCSymmetry
CHECK_DEADLOCK FALSE
INVARIANTS
    GapFree
PROPERTIES
    StatementsMakeMovements
