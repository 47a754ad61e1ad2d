SPECIFICATION RetrySpec
CONSTANTS
    c1 = c1
    c2 = c2
    c3 = c3
    a = a
    b = b
    Nobody = Nobody
    Clients = {c1, c2, c3}
    Lockables = {a, b}
    Requests <- MCRequests
    Connections = 2
    MaxAttempts = 2
PROPERTY
    KeepsPromise
