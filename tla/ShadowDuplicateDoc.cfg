SPECIFICATION Spec
CONSTANTS
    ShadowRuns = {r1}
    Promotable = {r1}
    Previews = {v1}
    Submits = {s1, s2}
    Orders = {o1, o2}
    Moving = {}
SYMMETRY Symmetry
INVARIANTS OneOrderPerPromotion
CHECK_DEADLOCK FALSE
