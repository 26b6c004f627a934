CONSTANTS
    Course = {c1, c2, c3}
    Order = {o1}
    Ref = {r1, r2, r3}
    Req = {p1, p2}
    NONE = NONE
    Ops = {"relance"}
    TurboDrops = {"group"}
    Replay = FALSE
    CanCrash = TRUE
SPECIFICATION Spec
SYMMETRY Symmetry
CHECK_DEADLOCK FALSE
INVARIANTS
    NoGhostCourse
