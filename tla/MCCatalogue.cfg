SPECIFICATION Spec
CONSTANTS
    Nobody = Nobody
    Clients = {c1, c2}
    Categories = {k1, k2}
    Products = {p1, p2}
    Variants = {x1, x2, x3}
    Images = {g1, g2, g3}
    Skus = {s1, s2}
    Actives = {FALSE}
    Marks <- MCMarks
    Ops = {"NEW_CATEGORY", "SET_CATEGORY", "DROP_CATEGORY", "NEW_PRODUCT", "SET_PRODUCT", "DROP_PRODUCT",
           "ADD_IMAGES", "DROP_IMAGE", "SET_PRIMARY", "NEW_VARIANT", "SET_VARIANT", "DROP_VARIANT"}
    MaxRequests = 3
SYMMETRY MCSymmetry
CHECK_DEADLOCK FALSE
INVARIANTS
    HistoryKept
    SkusDiffer
    OnePrimary
PROPERTIES
    WholeProducts
