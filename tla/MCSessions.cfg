SPECIFICATION Spec
CONSTANTS
    c1 = c1
    c2 = c2
    c3 = c3
    Calls = {c1, c2, c3}
    Logouts = {c3}
INVARIANTS
    PresentedOnce
    OneLiveSession
    TakesEffectOnce
    LostOnlyForCause
PROPERTIES
    EveryCallAnswered
CHECK_DEADLOCK FALSE
