CONSTANTS
    Null = Null
    Job = Job
    Att = {a1, a2}
    User = {host, u1}
    Host = host
    Proc = {p1, p2}
    Capacities <- MCCapacities
    Ends <- MCEnds
    Horizon = 1
    \* Enough for a session that is created, registered for, left by two at once and started.
    MaxRequests = 5
SPECIFICATION FairSpec
\* At the horizon the clock stops, and nobody has to make a request.
CHECK_DEADLOCK FALSE
INVARIANT TypeOK
INVARIANT SeatsMatch
INVARIANT SeatsWithinCapacityUnlessDrifted
INVARIANT EndedLeavesNobody
PROPERTY ResumedOnlyByStale
PROPERTY DueSessionsEnd
