CONSTANTS
    Course = {c1}
    Livreur = {d1}
    Offer = {o1}
    Req = {p1, p2}
    NONE = NONE
    MaxRefusals = 2
    TurboAfter = 0
    AlertAfter = 0
    MaxWait = 1
    AdminOps = {"force"}
    CanCrash = FALSE
SPECIFICATION LiveSpec
CHECK_DEADLOCK FALSE
PROPERTIES
    WaitingIsResolved
    OfferIsSettled
