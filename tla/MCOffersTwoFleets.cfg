CONSTANTS
    Course = {c1}
    Livreur = {d1, d2}
    Offer = {o1, o2}
    Req = {p1, p2}
    NONE = NONE
    MaxRefusals = 1
    TurboAfter = 0
    AlertAfter = 0
    MaxWait = 1
    AdminOps = {"turbo"}
    CanCrash = FALSE
SPECIFICATION Spec
CHECK_DEADLOCK FALSE
INVARIANTS
    NeverTwoFleets
