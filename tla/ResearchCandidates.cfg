SPECIFICATION Spec
CONSTANTS
    k1 = k1
    Candidates = {c1}
    Keys = {k1}
    KeyOf <- MCKeyOf
    Settings = {s1}
    Workers = {w1, w2}
    MaxRequests = 6
SYMMETRY Symmetry
INVARIANTS TypeOK AcceptedWasObserved LegacyMirrors EventExplainsStatus
PROPERTIES EdgesKept
CHECK_DEADLOCK FALSE
