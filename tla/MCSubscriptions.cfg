CONSTANTS
    Null = Null
    u1 = u1
    g1 = g1
    monthly = monthly
    Sub = {s1, s2}
    User = {u1}
    Plan = {monthly}
    Grade = {g1}
    Payment = {x1, x2}
    Proc = {p1, p2}
    UserOf <- MCUserOf
    PlanOf <- MCPlanOf
    GradeOf <- MCGradeOf
    DurationOf <- MCDurationOf
    CacheTtl = 1
    Horizon = 3
SPECIFICATION Spec
\* At the horizon the clock stops, and nobody has to make a request.
CHECK_DEADLOCK FALSE
SYMMETRY Interchangeable
INVARIANT TypeOK
INVARIANT CancelledNotServed
INVARIANT OneActiveUnlessUnchecked
INVARIANT OnePerPaymentUnlessUnchecked
