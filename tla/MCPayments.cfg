CONSTANTS
    Null = Null
    t1 = t1
    t2 = t2
    u1 = u1
    c1 = c1
    course = course
    plan = plan
    session = session
    Txn = {t1, t2}
    User = {u1}
    Proc = {p1, p2}
    UserOf <- MCUserOf
    Code = {c1}
    CodeOf <- MCCodeOf
    PromoLimit = 1
    PromoPerUser = 1
    Ref = {course, plan, session}
    KindOf <- MCKindOf
    Scenarios <- MCScenarios
    MaxNews = 3
    MaxCrashes = 1
SPECIFICATION Spec
\* Nobody has to check out or to pay, and webhooks are bounded: it may all end.
CHECK_DEADLOCK FALSE
SYMMETRY Interchangeable
INVARIANT TypeOK
INVARIANT NothingUnpaid
INVARIANT FulfilledOnceUnlessOverwritten
INVARIANT SettledUnlessMishap
INVARIANT FulfilledMeansDelivered
INVARIANT FailedUsesNoPromo
