SPECIFICATION Spec
CONSTANTS
    none = none
    a1 = a1
    a2 = a2
    b1 = b1
    b2 = b2
    s1 = s1
    s2 = s2
    s3 = s3
    lotVoucher = lotVoucher
    lotGift = lotGift
    r1 = r1
    r2 = r2
    k1 = k1
    k2 = k2
    u1 = u1
    u2 = u2
    n1 = n1
    n2 = n2
    d1 = d1
    d2 = d2
    p1 = p1
    p2 = p2
    l1 = l1
    c1 = c1
    c2 = c2
    c3 = c3
    c4 = c4
    w1 = w1
    w2 = w2
    w3 = w3
    x1 = x1
    x2 = x2
    f1 = f1
    v1 = v1
    v2 = v2
    t1 = t1
    t2 = t2
    ph1 = ph1
    ph2 = ph2
    ph3 = ph3
    em1 = em1
    em2 = em2
    w4 = w4
    g1 = g1
    g2 = g2
    m1 = m1
    m2 = m2
    m3 = m3
    o1 = o1
    o2 = o2
    o3 = o3
    o4 = o4
    Focus = {"referral"}
INVARIANT PrimeIsAccrued
CHECK_DEADLOCK FALSE
