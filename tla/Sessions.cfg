SPECIFICATION Spec
CONSTANTS
    SessionIds = {s1, s2}
    NoSession = NoSession
    Workers = {w1, w2, w3}
    MaxTokens = 5
    MaxRequests = 8
SYMMETRY Symmetry
INVARIANTS TypeOK ExchangedOnce TokenReachable
PROPERTIES RevocationHolds
CHECK_DEADLOCK FALSE
