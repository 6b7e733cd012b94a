CONSTANTS
    Null = Null
    t1 = t1
    t2 = t2
    t3 = t3
    c1 = c1
    u1 = u1
    u2 = u2
    Txn = {t1, t2}
    Code = {c1}
    User = {u1, u2}
    Proc = {p1, p2}
    CodeOf <- MCCodeOf
    UserOf <- MCUserOf
    Offers <- MCOneOffer
    ReservationTtl = 1
    Horizon = 2
SPECIFICATION Spec
\* At the horizon the clock stops, and nobody has to make a request.
CHECK_DEADLOCK FALSE
INVARIANT UsesWithinLimit
