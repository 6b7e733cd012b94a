CONSTANTS
    Null = Null
    u1 = u1
    g1 = g1
    monthly = monthly
    Sub = {s1}
    User = {u1}
    Plan = {monthly}
    Grade = {g1}
    Payment = {x1}
    Proc = {p1, p2}
    UserOf <- MCUserOf
    PlanOf <- MCPlanOf
    GradeOf <- MCGradeOf
    DurationOf <- MCDurationOf
    CacheTtl = 1
    Horizon = 3
SPECIFICATION FairSpec
\* At the horizon the clock stops, and nobody has to make a request.
CHECK_DEADLOCK FALSE
PROPERTY OverdueSubscriptionsEnd
PROPERTY StaleAnswersEnd
