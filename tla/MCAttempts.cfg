CONSTANTS
    Null = Null
    q1 = q1
    q2 = q2
    Question = {q1, q2}
    Contents <- MCContents
    Given <- MCGiven
    Proc = {p1, p2}
    Attempt = {a1, a2}
    MaxAttempts = 1
    PoolSize = 0
    MaxRequests = 4
SPECIFICATION Spec
\* Requests are bounded, and nobody has to make one.
CHECK_DEADLOCK FALSE
SYMMETRY Interchangeable
INVARIANT TypeOK
INVARIANT PublishedIsApproved
INVARIANT AttemptsWithinLimit
INVARIANT ResultStands
