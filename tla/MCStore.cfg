SPECIFICATION Spec
CONSTANTS
    o1 = o1
    o2 = o2
    r1 = r1
    r2 = r2
    p1 = p1
    v1 = v1
    v2 = v2
    Variants = {v1, v2}
    Orders = {o1, o2}
    Returns = {r1, r2}
    Purchases = {p1}
    Documents <- MCDocuments
    Opening <- MCOpening
    Baskets <- TwoVariantBaskets
    Amounts = {1}
    MaxAdjustments = 1
SYMMETRY MCSymmetry
CHECK_DEADLOCK FALSE
INVARIANTS
    LedgerAccountsForStock
    MovedAtMostOnce
    EntriesMatchDocuments
    CommittedMeansSold
    StatusPaymentStockAgree
    ReturnsWithinOrder
    NoDoubleCredit
    ReceivedMeansStocked
    ReportsReconcile
PROPERTIES
    TerminalRowsAreFinal
    StockIsLedgered
