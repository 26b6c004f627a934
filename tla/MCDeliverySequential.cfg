SPECIFICATION Spec
CONSTANTS
    p1 = p1
    o1 = o1
    o2 = o2
    m1 = m1
    p2 = p2
    m2 = m2
    Order = {o1, o2}
    Mode = {m1}
    Paiement = {1, 2, 3}
    Req = {p1}
    NONE = NONE
    Operations <- SequentialOperations
    MaxCode = 1
    CanCrash = FALSE
SYMMETRY Symmetry
INVARIANTS CompletedIsPaid CourseDone  PaidIsCompleted
PROPERTIES TrackingSpec
CHECK_DEADLOCK FALSE
