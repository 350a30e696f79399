SPECIFICATION LiveSpec
CONSTANTS
    Orders = {o1}
    Submits = {s1, s2}
    Requests = {}
    Ops = {}
    Placements = {"NEW", "PARTIALLY_FILLED", "FILLED", "CANCELED",
                  "PENDING_CANCEL", "REJECTED", "EXPIRED"}
    Switchings = {TRUE, FALSE}
    Runs = {}
    Limit = 1
    MaxWire = 1
INVARIANTS PlacedOnce EventMatchesRow
PROPERTIES KillSwitchDrains FinalReportsApplied
CHECK_DEADLOCK FALSE
