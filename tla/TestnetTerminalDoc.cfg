SPECIFICATION Spec
CONSTANTS
    Orders = {o1}
    Submits = {s1}
    Requests = {}
    Ops = {}
    Placements = {"NEW", "PARTIALLY_FILLED", "FILLED", "CANCELED",
                  "PENDING_CANCEL", "REJECTED", "EXPIRED"}
    Switchings = {}
    Runs = {}
    Limit = 1
    MaxWire = 1
PROPERTIES TerminalNeverReactivated
CHECK_DEADLOCK FALSE
