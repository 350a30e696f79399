SPECIFICATION Spec
CONSTANTS
    ShadowRuns = {r1, r2}
    Promotable = {r1}
    Previews = {v1, v2}
    Submits = {s1, s2, s3}
    Orders = {o1, o2}
    Moving = {"KILL_SWITCH", "STRATEGY", "PRICE"}
SYMMETRY Symmetry
INVARIANTS TypeOK OneActive SubmittedIsPlaced BarredPlaceNothing
CHECK_DEADLOCK FALSE
