SPECIFICATION Spec
CONSTANTS
    Orders = {o1}
    Submits = {s1}
    Requests = {r1}
    Ops = {"CANCEL", "GET", "MANUAL_RECHECK", "SAFE_CANCEL_REQUEST",
           "MARK_RECONCILIATION_REQUIRED", "MARK_ACKED", "MARK_CANCELLED",
           "MARK_REJECTED", "MARK_FAILED"}
    Placements = {"NEW", "PARTIALLY_FILLED", "FILLED", "CANCELED",
                  "PENDING_CANCEL", "REJECTED", "EXPIRED"}
    Switchings = {}
    Runs = {}
    Limit = 1
    MaxWire = 1
INVARIANTS TypeOK TerminalIsTrue
PROPERTIES FreshWritesKeepTerminal
CHECK_DEADLOCK FALSE
