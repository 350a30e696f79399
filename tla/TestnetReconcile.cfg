SPECIFICATION Spec
CONSTANTS
    Orders = {o1, o2}
    Submits = {s1, s2}
    Requests = {}
    Ops = {}
    Placements = {"NEW", "FILLED", "PENDING_CANCEL"}
    Switchings = {}
    Runs = {k1}
    Limit = 2
    MaxWire = 0
SYMMETRY Symmetry
INVARIANTS SummaryAdds
CHECK_DEADLOCK FALSE
