CONSTANTS
    Null = Null
    w1 = w1
    w2 = w2
    Booking = {b1, b2}
    Student = {s1}
    Withdrawal = {w1, w2}
    Package = {k1}
    Proc = {p1, p2}
    AmountOf <- MCAmountOf
    Total <- MCTotal
    Starts = {0, 1}
    Durations = {2}
    Windows <- MCWindows
    Credits = {3}
    MaxEarned = 3
    MaxRequests = 5
SPECIFICATION Spec
\* Requests are bounded, and nobody has to make one.
CHECK_DEADLOCK FALSE
SYMMETRY Interchangeable
INVARIANT TypeOK
INVARIANT BookedOnceUnlessTogether
INVARIANT WalletMatches
