SPECIFICATION Spec
CONSTANTS
    k1 = k1
    k2 = k2
    g = g
    Keys = {k1, k2}
    Strategies = {g}
    StrategyOf <- MCStrategyOf
    Kinds = {b1, b2}
    NoKind = NoKind
    Candidates = {c1}
    NoCandidate = NoCandidate
    Workers = {w1, w2}
    FoundIn = {"RUNNING"}
    MaxCandle = 1
    MaxUpdates = 1
    MaxJobs = 2
    Configs <- MCConfigs
    DefaultConfig <- MCDefault
    KeyOf <- MCKeyOf
SYMMETRY Symmetry
INVARIANTS TypeOK SignalsUnique RunsTraceable StaleTicksHarmless EvidenceOnce
CHECK_DEADLOCK FALSE
