CONSTANTS
    Order = {o1, o2, o3}
    MaxBatch = 3
    MaxCourse = 3
    Req = {p1}
    NONE = NONE
    Fleet = {"CHICKEN_NATION", "TURBO"}
    Place = {NONE, 0, 1, 2}
    Detour = 1
    MaxOrders = 2
    Ops = {"again", "annule", "rebalance", "turbo"}
    CanCrash = FALSE
SPECIFICATION Spec
SYMMETRY Symmetry
CHECK_DEADLOCK FALSE
INVARIANTS
    TypeOK
    FleetsUnmixed
    WithinLimits

    
