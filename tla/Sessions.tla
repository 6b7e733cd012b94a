------------------------------ MODULE Sessions ------------------------------
(***************************************************************************)
(* SessionsService: one live session, its attendees, and the job that ends *)
(* it. Sessions share no row, so one is enough.                            *)
(*                                                                         *)
(* Seats are counted beside the attendees' rows, by statements of their    *)
(* own; the session and the attendees are also saved whole, as they were   *)
(* found. Each awaited call is an action. Requests at hand have found the  *)
(* session and are the host's where the code asks for it.                  *)
(***************************************************************************)
EXTENDS Integers, FiniteSets

CONSTANTS
    Att,            \* attendee ids
    User,
    Host,           \* the teacher the session belongs to
    Proc,           \* requests in progress at the same time
    Job,            \* the cron job
    Capacities,     \* what the host may enter as maxParticipants
    Ends,           \* ... and as the end, plus the 30 minutes of grace
    Horizon,        \* bound: the clock stops here
    MaxRequests,    \* bound: requests made
    Null

ASSUME HostAssumption == Host \in User
ASSUME JobAssumption == Job \notin Proc
ASSUME CapacitiesAssumption == Capacities \subseteq Nat
ASSUME EndsAssumption == Ends \subseteq Nat
ASSUME HorizonAssumption == Horizon \in Nat
ASSUME BoundAssumption == MaxRequests \in Nat
ASSUME NullAssumption == Null \notin Att \cup User
ASSUME FiniteAssumption == IsFiniteSet(Att) /\ IsFiniteSet(Proc)

VARIABLES
    session,  \* the live_sessions row
    row,      \* session_attendees
    req,      \* the requests in progress
    now,
    made,     \* requests made so far
    drift,    \* history: the count or the capacity was changed by other than a registration
    late      \* history: users whose row said JOINED when the session was over

vars == <<session, row, req, now, made, drift, late>>

Actor == Proc \cup {Job}

\* attendedCount is left out: it is written by recordJoin() and read by nobody.
SessionRow == [status : {"none", "scheduled", "live", "ended", "cancelled"},
               registered : Int, max : Nat, end : Nat]
NoSession == [status |-> "none", registered |-> 0, max |-> 0, end |-> 0]
AttendeeRow == [user : User \cup {Null}, role : {"host", "participant"},
                status : {"none", "registered", "joined", "left"}]
NoAttendee == [user |-> Null, role |-> "participant", status |-> "none"]
Registration(u, r) == [user |-> u, role |-> r, status |-> "registered"]

Over == {"ended", "cancelled"}
Rows == {a \in Att : row[a].status # "none"}
RowsOf(u) == {a \in Rows : row[a].user = u}
Participants == {a \in Rows : row[a].role = "participant"}

Registering == {"find", "exists", "count", "insert"}
Unregistering == {"remove", "decrement", "floor"}
Attending == {"linkFind", "joinFind", "attSave", "joinUpdate", "joinLive"}
Saving == {"save", "endSave", "leaveAll"}
\* entity and seen are the session and the attendee a request has read (or is about to
\* insert), read the session's status when it read it.
Request == [pc : {"idle"} \cup Registering \cup Unregistering \cup Attending \cup Saving,
            att : Att \cup {Null}, seen : AttendeeRow, entity : SessionRow,
            read : {"none", "scheduled", "live", "ended", "cancelled"}]
Idle == [pc |-> "idle", att |-> Null, seen |-> NoAttendee, entity |-> NoSession, read |-> "none"]

Init ==
    /\ session = NoSession
    /\ row = [a \in Att |-> NoAttendee]
    /\ req = [p \in Actor |-> Idle]
    /\ now = 0
    /\ made = 0
    /\ drift = FALSE
    /\ late = {}

Goto(p, step) == req' = [req EXCEPT ![p].pc = step]
\* What the request has read matters no longer.
Finish(p, step) == req' = [req EXCEPT ![p] = [Idle EXCEPT !.pc = step]]
End(p) == Finish(p, "idle")

(***************************************************************************)
(* Registration                                                            *)
(***************************************************************************)
BeginRegistration(p, step, u, r) ==
    /\ req[p].pc = "idle"
    /\ req' = [req EXCEPT ![p] = [Idle EXCEPT !.pc = step, !.seen = Registration(u, r)]]

\* create(): the row; then the host is registered.
Create(p) ==
    /\ session.status = "none"
    /\ \E m \in Capacities, e \in Ends :
           session' = [NoSession EXCEPT !.status = "scheduled", !.max = m, !.end = e]
    /\ BeginRegistration(p, "find", Host, "host")
    /\ UNCHANGED <<row, now, drift, late>>

HostFind(p) ==
    /\ req[p].pc = "find"
    /\ IF session.status = "scheduled" THEN Goto(p, "exists") ELSE End(p)
    /\ UNCHANGED <<session, row, now, made, drift, late>>

\* registerAttendee(), by a user or a payment; 'Cannot register for non-scheduled session'.
RegisterFind(p, u) ==
    /\ session.status = "scheduled"
    /\ BeginRegistration(p, "exists", u, "participant")
    /\ UNCHANGED <<session, row, now, drift, late>>

RegisterExists(p) ==
    /\ req[p].pc = "exists"
    /\ IF RowsOf(req[p].seen.user) = {} THEN Goto(p, "count") ELSE End(p)
    /\ UNCHANGED <<session, row, now, made, drift, late>>

\* Mutant: the count is compared with the capacity as if it were a valid index.
RegisterCount_OneMore(p) ==
    /\ req[p].pc = "count"
    /\ IF req[p].seen.role = "host" \/ session.registered <= session.max
       THEN Goto(p, "insert") /\ session' = [session EXCEPT !.registered = @ + 1]
       ELSE End(p) /\ UNCHANGED session
    /\ UNCHANGED <<row, now, made, drift, late>>

\* One UPDATE ... WHERE registeredCount < maxParticipants; the host is always counted.
RegisterCount(p) ==
    /\ req[p].pc = "count"
    /\ IF req[p].seen.role = "host" \/ session.registered < session.max
       THEN Goto(p, "insert") /\ session' = [session EXCEPT !.registered = @ + 1]
       ELSE End(p) /\ UNCHANGED session
    /\ UNCHANGED <<row, now, made, drift, late>>

\* Mutant: no unique key.
RegisterInsert_NoKey(p) ==
    /\ req[p].pc = "insert"
    /\ \E a \in Att \ Rows :
          /\ \A q \in Actor : req[q].att # a
          /\ row' = [row EXCEPT ![a] = req[p].seen]
    /\ End(p)
    /\ UNCHANGED <<session, now, made, drift, late>>

\* The insert, under an id nobody has.
RegisterInsert(p) ==
    /\ req[p].pc = "insert"
    /\ RowsOf(req[p].seen.user) = {}
    /\ \E a \in Att \ Rows :
          /\ \A q \in Actor : req[q].att # a
          /\ row' = [row EXCEPT ![a] = req[p].seen]
    /\ End(p)
    /\ UNCHANGED <<session, now, made, drift, late>>

\* The unique key (sessionId, userId), or another failure: the seat stays counted.
RegisterInsertFails(p) ==
    /\ req[p].pc = "insert"
    /\ drift' = TRUE
    /\ End(p)
    /\ UNCHANGED <<session, row, now, made, late>>

BeginAttendee(p, step, a, seen) ==
    /\ req[p].pc = "idle"
    /\ a \in Rows
    /\ req' = [req EXCEPT ![p] = [Idle EXCEPT !.pc = step, !.att = a, !.seen = seen]]
    /\ UNCHANGED <<session, row, now, drift, late>>

\* unregister(): 'Host cannot unregister'.
UnregisterFind(p, a) == row[a].role # "host" /\ BeginAttendee(p, "remove", a, NoAttendee)

\* Mutant: the seat is not given back.
RemoveRow_KeepsSeat(p) ==
    LET a == req[p].att IN
    /\ req[p].pc = "remove"
    /\ row' = [row EXCEPT ![a] = NoAttendee]
    /\ drift' = (drift \/ a \notin Rows)
    /\ End(p)
    /\ UNCHANGED <<session, now, made, late>>

\* A row that is gone already is removed without a complaint.
RemoveRow(p) ==
    LET a == req[p].att IN
    /\ req[p].pc = "remove"
    /\ row' = [row EXCEPT ![a] = NoAttendee]
    /\ drift' = (drift \/ a \notin Rows)
    /\ Finish(p, "decrement")
    /\ UNCHANGED <<session, now, made, late>>

Decrement(p) ==
    /\ req[p].pc = "decrement"
    /\ session' = [session EXCEPT !.registered = @ - 1]
    /\ Finish(p, "floor")
    /\ UNCHANGED <<row, now, made, drift, late>>

\* UPDATE ... SET registeredCount = 0 WHERE registeredCount < 0
Floor(p) ==
    /\ req[p].pc = "floor"
    /\ session' = IF session.registered < 0 THEN [session EXCEPT !.registered = 0] ELSE session
    /\ drift' = (drift \/ session.registered < 0)
    /\ End(p)
    /\ UNCHANGED <<row, now, made, late>>

(***************************************************************************)
(* Attendance                                                              *)
(***************************************************************************)
\* getJoinLink() and recordJoin() read the session's status, then the attendee.
BeginJoin(p, step, u, read) ==
    /\ req[p].pc = "idle"
    /\ session.status # "none"
    /\ req' = [req EXCEPT ![p] = [Idle EXCEPT !.pc = step, !.seen = Registration(u, "participant"),
                                             !.read = read]]
    /\ UNCHANGED <<session, row, now, drift, late>>

\* canJoin(): 'Session is not available for joining', which a scheduled one may be or not,
\* as its start is near or far.
JoinLinkBegin(p, u) == session.status \in {"scheduled", "live"} /\ BeginJoin(p, "linkFind", u, "none")

\* The token goes into the attendee found; 'Not registered for this session'.
JoinLinkFind(p) ==
    /\ req[p].pc = "linkFind"
    /\ \/ \E a \in RowsOf(req[p].seen.user) :
             req' = [req EXCEPT ![p] = [Idle EXCEPT !.pc = "attSave", !.att = a, !.seen = row[a]]]
       \/ RowsOf(req[p].seen.user) = {} /\ End(p)
    /\ UNCHANGED <<session, row, now, made, drift, late>>

\* recordLeave()
LeaveFind(p, a) == BeginAttendee(p, "attSave", a, [row[a] EXCEPT !.status = "left"])

\* rateSession(): 'Can only rate after leaving session'.
RateFind(p, a) == row[a].status = "left" /\ BeginAttendee(p, "attSave", a, row[a])

\* save() of the attendee: the row as it was found. One that is gone is inserted again,
\* unless its user has another.
AttendeeSave(p) ==
    LET a == req[p].att
        seen == req[p].seen
        back == a \notin Rows
        refused == back /\ RowsOf(seen.user) # {} IN
    /\ req[p].pc = "attSave"
    /\ row' = IF refused THEN row ELSE [row EXCEPT ![a] = seen]
    /\ drift' = (drift \/ (back /\ ~refused))
    /\ late' = IF ~refused /\ seen.status = "joined" /\ session.status \in Over
               THEN late \cup {seen.user} ELSE late
    /\ End(p)
    /\ UNCHANGED <<session, now, made>>

JoinBegin(p, u) == BeginJoin(p, "joinFind", u, session.status)

JoinFind(p) ==
    /\ req[p].pc = "joinFind"
    /\ \/ \E a \in RowsOf(req[p].seen.user) :
             req' = [req EXCEPT ![p].pc = "joinUpdate", ![p].seen.role = row[a].role]
       \/ RowsOf(req[p].seen.user) = {} /\ End(p)
    /\ UNCHANGED <<session, row, now, made, drift, late>>

\* recordJoin(): UPDATE by session and user, whatever the session has become; ...
JoinUpdate(p) ==
    LET u == req[p].seen.user IN
    /\ req[p].pc = "joinUpdate"
    /\ row' = [a \in Att |-> IF a \in RowsOf(u) THEN [row[a] EXCEPT !.status = "joined"] ELSE row[a]]
    /\ late' = IF session.status \in Over THEN late \cup {u} ELSE late
    /\ IF req[p].seen.role = "host" /\ req[p].read = "scheduled" THEN Goto(p, "joinLive") ELSE End(p)
    /\ UNCHANGED <<session, now, made, drift>>

\* ... "first join by host": live, if it was scheduled when it was read.
JoinLive(p) ==
    /\ req[p].pc = "joinLive"
    /\ session' = [session EXCEPT !.status = "live"]
    /\ End(p)
    /\ UNCHANGED <<row, now, made, drift, late>>

(***************************************************************************)
(* The session                                                             *)
(***************************************************************************)
BeginSave(p, step, entity) ==
    /\ req[p].pc = "idle"
    /\ session.status # "none"
    /\ req' = [req EXCEPT ![p] = [Idle EXCEPT !.pc = step, !.entity = entity, !.read = session.status]]
    /\ UNCHANGED <<session, row, now, drift, late>>

\* update(): 'Cannot update non-scheduled session'.
UpdateFind(p) ==
    /\ session.status = "scheduled"
    /\ \E m \in Capacities, e \in Ends :
           BeginSave(p, "save", [session EXCEPT !.max = m, !.end = e])

\* cancel(): 'Cannot cancel live session'.
CancelFind(p) ==
    /\ session.status # "live"
    /\ BeginSave(p, "save", [session EXCEPT !.status = "cancelled"])

\* Mutant: only a live session is not started again.
StartFind_AnyStatus(p) ==
    /\ session.status # "live"
    /\ BeginSave(p, "save", [session EXCEPT !.status = "live"])

\* startSession(): a live one is returned, 'Cannot start cancelled or ended session'.
StartFind(p) ==
    /\ session.status \notin {"live"} \cup Over
    /\ BeginSave(p, "save", [session EXCEPT !.status = "live"])

\* regenerateRoomName(): 'Cannot regenerate room for ended/cancelled session'.
RegenerateFind(p) == session.status \notin Over /\ BeginSave(p, "save", session)

\* endSession(): whatever the status.
EndFind(p) == BeginSave(p, "endSave", [session EXCEPT !.status = "ended"])

\* save() of the session: the row as it was found.
SessionSave(p) ==
    LET entity == req[p].entity IN
    /\ req[p].pc \in {"save", "endSave"}
    /\ session' = entity
    /\ drift' = (drift \/ entity.registered # session.registered \/ entity.max < session.max)
    /\ IF req[p].pc = "endSave" THEN Finish(p, "leaveAll") ELSE End(p)
    /\ UNCHANGED <<row, now, made, late>>

\* findById() gives the session an empty list of attendees: TypeORM may take it for the list
\* to be, and detach the others, which the database refuses. Whether and when it does is left
\* open: any save may be refused but the job's, whose find() gives no list.
SessionSaveRefused(p) ==
    /\ p # Job
    /\ req[p].pc \in {"save", "endSave"}
    /\ End(p)
    /\ UNCHANGED <<session, row, now, made, drift, late>>

\* Mutant: those who had not joined yet.
LeaveAll_Registered(p) ==
    /\ req[p].pc = "leaveAll"
    /\ row' = [a \in Att |-> IF row[a].status = "registered" THEN [row[a] EXCEPT !.status = "left"]
                             ELSE row[a]]
    /\ End(p)
    /\ UNCHANGED <<session, now, made, drift, late>>

\* performEndSession(): then all who are JOINED have LEFT.
LeaveAll(p) ==
    /\ req[p].pc = "leaveAll"
    /\ row' = [a \in Att |-> IF row[a].status = "joined" THEN [row[a] EXCEPT !.status = "left"]
                             ELSE row[a]]
    /\ End(p)
    /\ UNCHANGED <<session, now, made, drift, late>>

\* Mutant: the sessions still to come to their end.
IsDue_Reversed(s) == s.status = "live" /\ s.end > now

IsDue(s) == s.status = "live" /\ s.end <= now

\* autoEndExpiredSessions(), every five minutes.
JobFind ==
    /\ IsDue(session)
    /\ BeginSave(Job, "endSave", [session EXCEPT !.status = "ended"])

Tick ==
    /\ now < Horizon
    /\ now' = now + 1
    /\ UNCHANGED <<session, row, req, made, drift, late>>

Continue(p) ==
    \/ HostFind(p) \/ RegisterExists(p) \/ RegisterCount(p) \/ RegisterInsert(p)
    \/ RegisterInsertFails(p) \/ RemoveRow(p) \/ Decrement(p) \/ Floor(p)
    \/ JoinLinkFind(p) \/ AttendeeSave(p) \/ JoinFind(p) \/ JoinUpdate(p) \/ JoinLive(p)
    \/ SessionSave(p) \/ SessionSaveRefused(p) \/ LeaveAll(p)

Serve(p) ==
    \/ Create(p) \/ UpdateFind(p) \/ CancelFind(p) \/ StartFind(p) \/ EndFind(p) \/ RegenerateFind(p)
    \/ \E u \in User : RegisterFind(p, u) \/ JoinLinkBegin(p, u) \/ JoinBegin(p, u)
    \/ \E a \in Att : UnregisterFind(p, a) \/ LeaveFind(p, a) \/ RateFind(p, a)

Next ==
    \/ \E p \in Proc : made < MaxRequests /\ Serve(p) /\ made' = made + 1
    \/ JobFind /\ made' = made
    \/ \E p \in Actor : Continue(p)
    \/ Tick

Spec == Init /\ [][Next]_vars

\* The clock runs and @nestjs/schedule starts the job, which runs on; no request is
\* assumed to be made or to end.
Fairness == WF_vars(Tick) /\ WF_vars(JobFind /\ made' = made) /\ WF_vars(Continue(Job))
FairSpec == Spec /\ Fairness

(***************************************************************************)
(* Properties                                                              *)
(***************************************************************************)
\* The rows and the requests' memories are what they can be, and a user has one row (the
\* unique key of session_attendees).
TypeOK ==
    /\ session \in SessionRow
    /\ row \in [Att -> AttendeeRow]
    /\ \A a, b \in Rows : row[a].user = row[b].user => a = b
    /\ \A a \in Rows : row[a].user \in User
    /\ req \in [Actor -> Request]
    /\ now \in Nat
    /\ made \in Nat
    /\ drift \in BOOLEAN
    /\ late \subseteq User

At(step) == {p \in Actor : req[p].pc = step}

\* registeredCount (registerAttendee, unregister): it is the number of attendees, and of
\* the requests between the two statements of a registration or its withdrawal, as long
\* as no insert failed, nothing was removed twice or saved back, and no stale session
\* was saved.
SeatsMatch ==
    ~drift => session.registered = Cardinality(Rows) + Cardinality(At("insert"))
                                     + Cardinality(At("decrement"))

\* "Atomic capacity check: increment only if under limit" (registerAttendee): with the
\* same proviso, participants never outnumber the seats, nor do they with those about
\* to be inserted.
SeatsWithinCapacityUnlessDrifted ==
    ~drift => Cardinality(Participants)
                + Cardinality({p \in At("insert") : req[p].seen.role = "participant"}) <= session.max

\* 'Cannot start cancelled or ended session' (startSession): a session that is over goes
\* on only through a request that found it before it was over.
ResumedOnlyByStale ==
    [][session.status \in Over /\ session'.status \notin Over =>
         \E p \in Actor : req'[p] # req[p] /\ req[p].read \notin Over]_vars

\* "Mark all joined attendees as left" (performEndSession): in a session that has ended
\* nobody is JOINED, but those whose row was written when it was over.
EndedLeavesNobody ==
    session.status = "ended" /\ At("leaveAll") = {} =>
        \A a \in Rows : row[a].status = "joined" => row[a].user \in late

\* The five-minute job: a live session whose time and grace are over does not stay live.
DueSessionsEnd == session.status = "live" /\ session.end <= Horizon ~> session.status # "live"
=============================================================================
