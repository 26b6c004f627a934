CONSTANTS
    Order = {o1, o2}
    MaxBatch = 2
    MaxCourse = 2
    Req = {p1, p2}
    NONE = NONE
    Fleet = {"CHICKEN_NATION"}
    Place = {0}
    Detour = 0
    MaxOrders = 2
    Ops = {"annule", "pickup"}
    CanCrash = TRUE
SPECIFICATION LiveSpec
CHECK_DEADLOCK FALSE
INVARIANTS
    NoEmptyCourse
PROPERTIES
    BatchIsClosed
    
