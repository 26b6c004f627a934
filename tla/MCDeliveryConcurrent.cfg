SPECIFICATION Spec
CONSTANTS
    p1 = p1
    o1 = o1
    o2 = o2
    m1 = m1
    p2 = p2
    m2 = m2
    Order = {o1}
    Mode = {m1, m2}
    Paiement = {1, 2, 3, 4}
    Req = {p1, p2}
    NONE = NONE
    Operations <- ConcurrentOperations
    MaxCode = 1
    CanCrash = TRUE
SYMMETRY Symmetry
INVARIANTS TypeOK TurboCourseDone DelayToldOnce
PROPERTIES DeliveredIsFinal
CHECK_DEADLOCK FALSE
