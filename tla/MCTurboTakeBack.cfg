CONSTANTS
    Course = {c1}
    Order = {o1, o2}
    Ref = {r1, r2, r3}
    Req = {p1}
    NONE = NONE
    Ops = {"takeback", "commande", "annule"}
    TurboDrops = {"group", "order"}
    Replay = TRUE
    CanCrash = FALSE
SPECIFICATION Spec
SYMMETRY Symmetry
CHECK_DEADLOCK FALSE
INVARIANTS
    TypeOK
    GroupIsFollowed
    NoDeadReference
    NoSilentStranding
