SPECIFICATION Spec
CONSTANTS
    Nobody = Nobody
    Variants = {v1, v2}
    Traded = {v2}
    MaxMishaps = 1
    Filled = {v1}
    MaxCalls = 2
    Clients <- MCCalls
    MaxQuantity = 2
    MaxAttempts = 2
CHECK_DEADLOCK FALSE
INVARIANTS
    OrderedOnce
    ShownIsServed
PROPERTIES
    EmptiedByOrder
    CheckoutSettles
