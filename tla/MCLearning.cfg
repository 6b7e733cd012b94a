CONSTANTS
    Null = Null
    Proc = {p1, p2}
    MaxRequests = 3
    m1 = m1
    m2 = m2
    l1 = l1
    l2 = l2
    v1 = v1
    Course = {c1, c2}
    Module = {m1, m2}
    Lesson = {l1, l2}
    Resource = {v1}
    Plan <- MCPlan
    Minutes = {1}
    Seconds = {0, 61}
    Video = {w1, w2}
    Object = {o1, o2, o3}
    Positions = {0, 9}
    Lengths = {0, 10}
    BunnyAttempts = 2
    Percents = {40, 100}
    Spendings = {1}
    Notice = {n1, n2, n3}
    BatchSize = 2
    MailAttempts = 2
SPECIFICATION Spec
SYMMETRY Interchangeable
\* Requests are bounded, and nobody has to make one.
CHECK_DEADLOCK FALSE
INVARIANT TypeOK
INVARIANT StatsMatch
INVARIANT BunnyMatches
INVARIANT NotificationsStand
PROPERTY ReportsStand
