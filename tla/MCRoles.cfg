CONSTANTS
    Null = Null
    Proc = {p1, p2}
    Token = {t1, t2}
    Primary = {"student", "teacher"}
    MaxAttempts = 2
    MaxRequests = 4
    Permission = {x}
    RoleId = {r1}
    Tx = {a1}
    Guard = {g1}
SPECIFICATION Spec
\* Requests are bounded, and nobody has to make one.
CHECK_DEADLOCK FALSE
SYMMETRY Interchangeable
INVARIANT TypeOK
INVARIANT LockedOutUnlessMiscounted
INVARIANT SignedOutUnlessLate
INVARIANT CachedIsGranted
INVARIANT AssignedIsAdmin
