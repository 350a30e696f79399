SPECIFICATION Spec
CONSTANTS
    btc = btc

    Workers = {w1, w2}
    Signals = {s1}
    Symbols = {btc}
    Decisions = {d1, d2, d3}
    Orders = {o1, o2, o3}
    Positions = {p1, p2}
    UserKeys = {k1}
    Prices = {1, 2}
    InitialEquity = 10
    NoId = NoId
    MaxRequests = 3
    SymbolOf <- MCSymbolOf
    Notional <- MCNotional
    Config <- MCConfig
SYMMETRY Symmetry
INVARIANTS TypeOK OneOpenPosition BooksAgree
PROPERTIES LossLimitHolds TrailKept
