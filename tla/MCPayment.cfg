SPECIFICATION Spec
CONSTANTS
    t1 = t1
    w1 = w1
    w2 = w2
    Tx = {t1}
    Amounts = {1, 2, 3}
    Price = 3
    Worker = {w1, w2}
    Kinds <- OneBackend
    MaxAttempts = 3
    MaxFaults = 2
    MaxWebhooks = 2
    NONE = NONE
INVARIANTS TypeOK  
PROPERTIES NeverBack  
CHECK_DEADLOCK FALSE
