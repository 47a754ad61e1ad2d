SPECIFICATION Spec
CONSTANTS
    o1 = o1
    o2 = o2
    r1 = r1
    r2 = r2
    v1 = v1
    v2 = v2
    c1 = c1
    c2 = c2
    c3 = c3
    Nobody = Nobody
    Clients = {c1}
    Variants = {v1, v2}
    Orders = {o1, o2}
    Returns = {r1, r2}
    Purchases = {}
    Documents <- MCDocuments
    Opening <- MCOpening
    Baskets <- TwoLines
    Ops = {"OPEN", "SELL", "CHECKOUT", "COMPLETE", "STATUS", "CANCEL", "RETURN", "ACCEPT", "REJECT"}
    MaxRequests = 4
    Serialised = TRUE
SYMMETRY MCSymmetry
CHECK_DEADLOCK FALSE
PROPERTIES
    SerialRunsAreAtomic
