--------------------------- MODULE SessionsProofs ---------------------------
(***************************************************************************)
(* What holds of Sessions for any users, attendee ids, requests,           *)
(* capacities, ends, and bounds.                                           *)
(***************************************************************************)
EXTENDS Sessions, FiniteSetTheorems, TLAPS

(***************************************************************************)
(* The strengthening                                                       *)
(***************************************************************************)
\* Nothing happens to a session before it is created.
NotYet ==
    session.status = "none" =>
        session = NoSession /\ Rows = {} /\ \A p \in Actor : req[p].pc = "idle"

\* What a request remembers of an attendee. A saved attendee keeps its id for its user.
SoundAttendee(p) ==
    /\ req[p].pc \in Registering \cup {"linkFind", "joinFind", "joinUpdate"} => req[p].seen.user \in User
    /\ req[p].pc \in Registering => req[p].seen.status = "registered"
    /\ req[p].pc = "remove" => req[p].att \in Att
    /\ req[p].pc = "attSave" =>
         /\ req[p].att \in Att
         /\ req[p].seen.user \in User
         /\ req[p].seen.status # "none"
         /\ req[p].att \in Rows => /\ row[req[p].att].user = req[p].seen.user
                                   /\ row[req[p].att].role = req[p].seen.role

\* What a request remembers of the session: it is over if it was over when it was read, and
\* it is ENDED only to be followed by the departure of all.
SoundSession(p) ==
    /\ req[p].pc \in {"save", "endSave"} =>
         /\ req[p].entity.status # "none"
         /\ req[p].entity.status \notin Over => req[p].read \notin Over
         /\ req[p].entity.status = "ended" => req[p].pc = "endSave"
    /\ req[p].pc = "joinLive" => req[p].read = "scheduled"

\* Two requests that save one attendee agree on whose it is.
Agree ==
    \A p, q \in Actor :
        req[p].pc = "attSave" /\ req[q].pc = "attSave" /\ req[p].att = req[q].att =>
            /\ req[p].seen.user = req[q].seen.user
            /\ req[p].seen.role = req[q].seen.role

IInv == TypeOK /\ NotYet /\ Agree /\ \A p \in Actor : SoundAttendee(p) /\ SoundSession(p)

(***************************************************************************)
(* Requests                                                                *)
(***************************************************************************)
\* The requests but p's are as they were.
Others(p) == \A q \in Actor \ {p} : req'[q] = req[q]

LEMMA IdleType ==
    /\ Idle \in Request
    /\ NoAttendee \in AttendeeRow
    /\ \A u \in User, r \in {"host", "participant"} : Registration(u, r) \in AttendeeRow
BY DEF Idle, NoAttendee, NoSession, Request, AttendeeRow, SessionRow, Registration

LEMMA Replaced ==
    ASSUME TypeOK, NEW p \in Actor, NEW r \in Request, req' = [req EXCEPT ![p] = r]
    PROVE  req' \in [Actor -> Request] /\ Others(p) /\ req'[p] = r
BY DEF TypeOK, Others

LEMMA GotoFacts ==
    ASSUME TypeOK, NEW p \in Actor, NEW step \in Registering \cup Attending, Goto(p, step)
    PROVE  /\ req' \in [Actor -> Request]
           /\ Others(p)
           /\ req'[p].pc = step /\ req'[p].att = req[p].att /\ req'[p].seen = req[p].seen
           /\ req'[p].entity = req[p].entity /\ req'[p].read = req[p].read
BY DEF TypeOK, Goto, Others, Request

LEMMA FinishFacts ==
    ASSUME TypeOK, NEW p \in Actor, NEW step \in {"idle", "decrement", "floor", "leaveAll"},
           Finish(p, step)
    PROVE  req' \in [Actor -> Request] /\ Others(p) /\ req'[p].pc = step
<1> DEFINE r == [Idle EXCEPT !.pc = step]
<1>1. r \in Request /\ r.pc = step
  BY IdleType DEF Idle, Request, Unregistering, Saving
<1>2. req' = [req EXCEPT ![p] = r]
  BY DEF Finish
<1> HIDE DEF r
<1> QED BY <1>1, <1>2, Replaced

LEMMA EndFacts ==
    ASSUME TypeOK, NEW p \in Actor, End(p)
    PROVE  req' \in [Actor -> Request] /\ Others(p) /\ req'[p].pc = "idle"
BY FinishFacts DEF End

\* A request that has read an attendee, ...
HasRead(step, a, seen) == [Idle EXCEPT !.pc = step, !.att = a, !.seen = seen]

LEMMA AttendeeRead ==
    ASSUME TypeOK, NEW p \in Actor, NEW step \in {"remove", "attSave"}, NEW a \in Att,
           NEW seen \in AttendeeRow,
           req' = [req EXCEPT ![p] = HasRead(step, a, seen)]
    PROVE  /\ req' \in [Actor -> Request]
           /\ Others(p)
           /\ req'[p].pc = step /\ req'[p].att = a /\ req'[p].seen = seen
<1> DEFINE r == HasRead(step, a, seen)
<1>1. r \in Request /\ r.pc = step /\ r.att = a /\ r.seen = seen
  BY IdleType DEF HasRead, Idle, Request, Unregistering, Attending
<1> HIDE DEF r
<1> QED BY <1>1, Replaced DEF r

\* ... one that knows its user, ...
Knows(step, u, role, read) ==
    [Idle EXCEPT !.pc = step, !.seen = Registration(u, role), !.read = read]

LEMMA UserKnown ==
    ASSUME TypeOK, NEW p \in Actor, NEW step \in {"find", "exists", "linkFind", "joinFind"},
           NEW u \in User, NEW role \in {"host", "participant"},
           NEW read \in {"none", "scheduled", "live", "ended", "cancelled"},
           req' = [req EXCEPT ![p] = Knows(step, u, role, read)]
    PROVE  /\ req' \in [Actor -> Request]
           /\ Others(p)
           /\ req'[p].pc = step
           /\ req'[p].seen.user = u /\ req'[p].seen.status = "registered"
<1> DEFINE r == Knows(step, u, role, read)
<1>1. r \in Request /\ r.pc = step /\ r.seen = Registration(u, role)
  BY IdleType DEF Knows, Idle, Request, Registering, Attending
<1>2. r.seen.user = u /\ r.seen.status = "registered"
  BY <1>1 DEF Registration
<1> HIDE DEF r
<1> QED BY <1>1, <1>2, Replaced DEF r

LEMMA RegistrationFacts ==
    ASSUME TypeOK, NEW p \in Actor, NEW step \in {"find", "exists"}, NEW u \in User,
           NEW role \in {"host", "participant"}, BeginRegistration(p, step, u, role)
    PROVE  /\ req' \in [Actor -> Request]
           /\ Others(p)
           /\ req'[p].pc = step
           /\ req'[p].seen.user = u /\ req'[p].seen.status = "registered"
<1> DEFINE r == [Idle EXCEPT !.pc = step, !.seen = Registration(u, role)]
<1>1. r \in Request /\ r.pc = step /\ r.seen = Registration(u, role)
  BY IdleType DEF Idle, Request, Registering
<1>2. r.seen.user = u /\ r.seen.status = "registered"
  BY <1>1 DEF Registration
<1>3. req' = [req EXCEPT ![p] = r]
  BY DEF BeginRegistration
<1> HIDE DEF r
<1> QED BY <1>1, <1>2, <1>3, Replaced

\* ... and one that has read the session.
LEMMA SaveFacts ==
    ASSUME TypeOK, NEW p \in Actor, NEW step \in {"save", "endSave"}, NEW e \in SessionRow,
           BeginSave(p, step, e)
    PROVE  /\ req' \in [Actor -> Request]
           /\ Others(p)
           /\ req[p].pc = "idle"
           /\ req'[p].pc = step /\ req'[p].entity = e /\ req'[p].read = session.status
           /\ session.status # "none"
           /\ UNCHANGED <<session, row, now, drift, late>>
<1> DEFINE r == [Idle EXCEPT !.pc = step, !.entity = e, !.read = session.status]
<1>1. r \in Request /\ r.pc = step /\ r.entity = e /\ r.read = session.status
  BY IdleType DEF Idle, Request, Saving, TypeOK, SessionRow
<1>2. req' = [req EXCEPT ![p] = r] /\ req[p].pc = "idle" /\ session.status # "none"
      /\ UNCHANGED <<session, row, now, drift, late>>
  BY DEF BeginSave
<1> HIDE DEF r
<1> QED BY <1>1, <1>2, Replaced

(***************************************************************************)
(* The strengthening is inductive                                          *)
(***************************************************************************)
RowsOK ==
    /\ row \in [Att -> AttendeeRow]
    /\ \A a, b \in Rows : row[a].user = row[b].user => a = b
    /\ \A a \in Rows : row[a].user \in User

\* What a save of q's attendee would meet.
Matches(q) ==
    req[q].pc = "attSave" /\ req[q].att \in Rows =>
        row[req[q].att].user = req[q].seen.user /\ row[req[q].att].role = req[q].seen.role

\* What must be shown of a step of p.
LEMMA Assembled ==
    ASSUME IInv, NEW p \in Actor, req' \in [Actor -> Request], Others(p),
           session' \in SessionRow, session'.status # "none", RowsOK',
           UNCHANGED now, made' \in Nat, drift' \in BOOLEAN, late' \subseteq User,
           SoundAttendee(p)', SoundSession(p)',
           \A q \in Actor \ {p} :
               /\ Matches(q)'
               /\ req'[p].pc = "attSave" /\ req[q].pc = "attSave" /\ req'[p].att = req[q].att =>
                     req'[p].seen.user = req[q].seen.user /\ req'[p].seen.role = req[q].seen.role
    PROVE  IInv'
<1>1. TypeOK'
  BY DEF IInv, TypeOK, RowsOK
<1>2. NotYet'
  BY DEF NotYet
<1>3. ASSUME NEW q \in Actor PROVE SoundAttendee(q)' /\ SoundSession(q)'
  <2>1. CASE q = p
    BY <2>1
  <2>2. CASE q # p
    <3>1. req'[q] = req[q] /\ Matches(q)' /\ SoundAttendee(q) /\ SoundSession(q)
      BY <2>2 DEF Others, IInv
    <3> QED BY <3>1 DEF SoundAttendee, SoundSession, Matches
  <2> QED BY <2>1, <2>2
<1>4. Agree'
  BY DEF IInv, Agree, Others
<1> QED BY <1>1, <1>2, <1>3, <1>4 DEF IInv

\* A step of p that leaves the attendees alone.
LEMMA AttendeesKept ==
    ASSUME IInv, NEW p \in Actor, req' \in [Actor -> Request], Others(p), UNCHANGED row,
           session' \in SessionRow, session'.status # "none",
           UNCHANGED now, made' \in Nat, drift' \in BOOLEAN, late' \subseteq User,
           SoundAttendee(p)', SoundSession(p)',
           \A q \in Actor \ {p} :
               req'[p].pc = "attSave" /\ req[q].pc = "attSave" /\ req'[p].att = req[q].att =>
                   req'[p].seen.user = req[q].seen.user /\ req'[p].seen.role = req[q].seen.role
    PROVE  IInv'
<1>1. RowsOK'
  BY DEF IInv, TypeOK, RowsOK, Rows
<1>2. \A q \in Actor \ {p} : Matches(q)'
  BY DEF IInv, Others, SoundAttendee, Matches, Rows
<1> QED BY <1>1, <1>2, Assembled

\* A step after which p remembers nothing that matters.
Forgotten == {"idle", "decrement", "floor", "leaveAll"}

LEMMA ForgottenSound ==
    ASSUME NEW p \in Actor, req'[p].pc \in Forgotten
    PROVE  SoundAttendee(p)' /\ SoundSession(p)' /\ req'[p].pc # "attSave"
BY DEF Forgotten, SoundAttendee, SoundSession, Registering

LEMMA Active ==
    ASSUME IInv, NEW p \in Actor, req[p].pc # "idle"
    PROVE  session.status # "none" /\ session \in SessionRow
BY DEF IInv, NotYet, TypeOK

LEMMA TypeFacts ==
    ASSUME IInv
    PROVE  /\ TypeOK
           /\ made \in Nat /\ now \in Nat /\ drift \in BOOLEAN /\ late \subseteq User
           /\ session \in SessionRow /\ row \in [Att -> AttendeeRow]
           /\ \A p \in Actor : req[p] \in Request
BY DEF IInv, TypeOK

LEMMA CreateInductive ==
    ASSUME IInv, NEW p \in Actor, made' \in Nat, Create(p)
    PROVE  IInv'
<1>1. PICK m \in Capacities, e \in Ends :
        session' = [NoSession EXCEPT !.status = "scheduled", !.max = m, !.end = e]
  BY DEF Create
<1>2. session' \in SessionRow /\ session'.status # "none"
  <2>1. session' = [status |-> "scheduled", registered |-> 0, max |-> m, end |-> e]
    BY <1>1 DEF NoSession
  <2>2. m \in Nat /\ e \in Nat
    BY CapacitiesAssumption, EndsAssumption
  <2> QED BY <2>1, <2>2 DEF SessionRow
<1>3. /\ req' \in [Actor -> Request] /\ Others(p)
      /\ req'[p].pc = "find" /\ req'[p].seen.user = Host /\ req'[p].seen.status = "registered"
  BY RegistrationFacts, HostAssumption DEF Create, IInv
<1>4. SoundAttendee(p)' /\ SoundSession(p)'
  BY <1>3, HostAssumption DEF SoundAttendee, SoundSession
<1>5. UNCHANGED <<row, now, drift, late>>
  BY DEF Create
<1> QED BY <1>2, <1>3, <1>4, <1>5, AttendeesKept, TypeFacts

LEMMA RegisterFindInductive ==
    ASSUME IInv, NEW p \in Actor, NEW u \in User, made' \in Nat, RegisterFind(p, u)
    PROVE  IInv'
<1>1. /\ req' \in [Actor -> Request] /\ Others(p)
      /\ req'[p].pc = "exists" /\ req'[p].seen.user = u /\ req'[p].seen.status = "registered"
  BY RegistrationFacts DEF RegisterFind, IInv
<1>2. SoundAttendee(p)' /\ SoundSession(p)'
  BY <1>1 DEF SoundAttendee, SoundSession
<1>3. session.status # "none" /\ UNCHANGED <<session, row, now, drift, late>>
  BY DEF RegisterFind
<1> QED BY <1>1, <1>2, <1>3, AttendeesKept, TypeFacts

LEMMA BeginJoinInductive ==
    ASSUME IInv, NEW p \in Actor, NEW u \in User, made' \in Nat,
           NEW step \in {"linkFind", "joinFind"},
           NEW read \in {"none", "scheduled", "live", "ended", "cancelled"},
           BeginJoin(p, step, u, read)
    PROVE  IInv'
<1>1. /\ req' \in [Actor -> Request] /\ Others(p)
      /\ req'[p].pc = step /\ req'[p].seen.user = u /\ req'[p].seen.status = "registered"
  <2>1. req' = [req EXCEPT ![p] = Knows(step, u, "participant", read)]
    BY DEF BeginJoin, Knows
  <2> QED BY <2>1, UserKnown DEF IInv
<1>2. SoundAttendee(p)' /\ SoundSession(p)'
  BY <1>1 DEF SoundAttendee, SoundSession
<1>3. session.status # "none" /\ UNCHANGED <<session, row, now, drift, late>>
  BY DEF BeginJoin
<1> QED BY <1>1, <1>2, <1>3, AttendeesKept, TypeFacts

\* An attendee that is read is one whose rows' user and role all its savers agree on.
LEMMA AttendeeReadInductive ==
    ASSUME IInv, NEW p \in Actor, NEW a \in Rows, NEW seen \in AttendeeRow, made' \in Nat,
           NEW step \in {"remove", "attSave"},
           step = "attSave" =>
               seen.user = row[a].user /\ seen.role = row[a].role /\ seen.status # "none",
           session.status # "none",
           req' = [req EXCEPT ![p] = HasRead(step, a, seen)],
           UNCHANGED <<session, row, now, drift, late>>
    PROVE  IInv'
<1>1. a \in Att /\ row[a].user \in User
  BY DEF IInv, TypeOK, Rows
<1>2. /\ req' \in [Actor -> Request] /\ Others(p)
      /\ req'[p].pc = step /\ req'[p].att = a /\ req'[p].seen = seen
  <2>1. TypeOK /\ a \in Att
    BY <1>1 DEF IInv
  <2>2. req' = [req EXCEPT ![p] = HasRead(step, a, seen)]
    OBVIOUS
  <2> QED BY ONLY <2>1, <2>2, AttendeeRead, p \in Actor, seen \in AttendeeRow, step \in {"remove", "attSave"}
<1>3. SoundAttendee(p)' /\ SoundSession(p)'
  <2>1. row' = row
    OBVIOUS
  <2>2. CASE step = "remove"
    BY <1>1, <1>2, <2>2 DEF SoundAttendee, SoundSession, Registering
  <2>3. CASE step = "attSave"
    <3>1. seen.user = row[a].user /\ seen.role = row[a].role /\ seen.status # "none"
      BY <2>3
    <3> QED BY <1>1, <1>2, <2>1, <2>3, <3>1 DEF SoundAttendee, SoundSession, Registering
  <2> QED BY <2>2, <2>3
<1>4. \A q \in Actor \ {p} :
        req'[p].pc = "attSave" /\ req[q].pc = "attSave" /\ req'[p].att = req[q].att =>
            req'[p].seen.user = req[q].seen.user /\ req'[p].seen.role = req[q].seen.role
  BY <1>2 DEF IInv, SoundAttendee
<1> QED BY <1>2, <1>3, <1>4, AttendeesKept, TypeFacts

LEMMA UnregisterFindInductive ==
    ASSUME IInv, NEW p \in Actor, NEW a \in Att, made' \in Nat, UnregisterFind(p, a)
    PROVE  IInv'
<1>1. /\ a \in Rows /\ UNCHANGED <<session, row, now, drift, late>>
      /\ req' = [req EXCEPT ![p] = HasRead("remove", a, NoAttendee)]
  BY DEF UnregisterFind, BeginAttendee, HasRead
<1>2. session.status # "none"
  BY <1>1 DEF IInv, NotYet
<1> QED BY <1>1, <1>2, IdleType, AttendeeReadInductive

LEMMA SeenFindInductive ==
    ASSUME IInv, NEW p \in Actor, NEW a \in Att, made' \in Nat,
           LeaveFind(p, a) \/ RateFind(p, a)
    PROVE  IInv'
<1>1. PICK seen : /\ seen \in {row[a], [row[a] EXCEPT !.status = "left"]}
                  /\ BeginAttendee(p, "attSave", a, seen)
  BY DEF LeaveFind, RateFind
<1>2. /\ a \in Rows /\ UNCHANGED <<session, row, now, drift, late>>
      /\ req' = [req EXCEPT ![p] = HasRead("attSave", a, seen)]
  BY <1>1 DEF BeginAttendee, HasRead
<1>3. session.status # "none"
  BY <1>2 DEF IInv, NotYet
<1>4. row[a] \in AttendeeRow /\ row[a].status # "none"
  BY <1>2, TypeFacts DEF Rows
<1>5. /\ seen \in AttendeeRow /\ seen.status # "none"
      /\ seen.user = row[a].user /\ seen.role = row[a].role
  BY <1>1, <1>4 DEF AttendeeRow
<1> QED BY <1>2, <1>3, <1>5, AttendeeReadInductive

LEMMA SaveInductive ==
    ASSUME IInv, NEW p \in Actor, NEW step \in {"save", "endSave"}, NEW e \in SessionRow,
           made' \in Nat, BeginSave(p, step, e), e.status # "none",
           e.status \notin Over => session.status \notin Over,
           e.status = "ended" => step = "endSave"
    PROVE  IInv'
<1>1. /\ req' \in [Actor -> Request] /\ Others(p)
      /\ req'[p].pc = step /\ req'[p].entity = e /\ req'[p].read = session.status
      /\ session.status # "none" /\ UNCHANGED <<session, row, now, drift, late>>
  BY SaveFacts, TypeFacts
<1>2. SoundAttendee(p)' /\ SoundSession(p)'
  BY <1>1 DEF SoundAttendee, SoundSession, Registering
<1>3. req'[p].pc # "attSave"
  BY <1>1
<1> QED BY <1>1, <1>2, <1>3, AttendeesKept, TypeFacts

\* The requests that read the session to save it.
LEMMA SessionFindInductive ==
    ASSUME IInv, NEW p \in Actor, made' \in Nat,
           UpdateFind(p) \/ CancelFind(p) \/ StartFind(p) \/ EndFind(p) \/ RegenerateFind(p)
    PROVE  IInv'
<1>0. session \in SessionRow
  BY TypeFacts
<1>1. CASE UpdateFind(p)
  <2>1. PICK m \in Capacities, e \in Ends : BeginSave(p, "save", [session EXCEPT !.max = m, !.end = e])
    BY <1>1 DEF UpdateFind
  <2> DEFINE new == [session EXCEPT !.max = m, !.end = e]
  <2>2. m \in Nat /\ e \in Nat
    BY CapacitiesAssumption, EndsAssumption
  <2>3. new \in SessionRow /\ new.status = "scheduled" /\ session.status = "scheduled"
    BY <1>0, <1>1, <2>2 DEF SessionRow, UpdateFind
  <2>4. BeginSave(p, "save", new)
    BY <2>1
  <2> HIDE DEF new
  <2> QED BY <2>3, <2>4, SaveInductive DEF Over
<1>2. CASE CancelFind(p)
  <2> DEFINE new == [session EXCEPT !.status = "cancelled"]
  <2>1. new \in SessionRow /\ new.status = "cancelled" /\ BeginSave(p, "save", new)
    BY <1>0, <1>2 DEF SessionRow, CancelFind
  <2> HIDE DEF new
  <2> QED BY <2>1, SaveInductive DEF Over
<1>3. CASE StartFind(p)
  <2> DEFINE new == [session EXCEPT !.status = "live"]
  <2>1. new \in SessionRow /\ new.status = "live" /\ BeginSave(p, "save", new)
        /\ session.status \notin Over
    BY <1>0, <1>3 DEF SessionRow, StartFind
  <2> HIDE DEF new
  <2> QED BY <2>1, SaveInductive
<1>4. CASE EndFind(p)
  <2> DEFINE new == [session EXCEPT !.status = "ended"]
  <2>1. new \in SessionRow /\ new.status = "ended" /\ BeginSave(p, "endSave", new)
    BY <1>0, <1>4 DEF SessionRow, EndFind
  <2> HIDE DEF new
  <2> QED BY <2>1, SaveInductive DEF Over
<1>5. CASE RegenerateFind(p)
  <2>1. BeginSave(p, "save", session) /\ session.status \notin Over /\ session.status # "none"
    BY <1>5 DEF RegenerateFind, BeginSave
  <2> QED BY <1>0, <2>1, SaveInductive DEF Over
<1> QED BY <1>1, <1>2, <1>3, <1>4, <1>5

LEMMA JobFindInductive ==
    ASSUME IInv, made' \in Nat, JobFind
    PROVE  IInv'
<1> DEFINE new == [session EXCEPT !.status = "ended"]
<1>1. new \in SessionRow /\ new.status = "ended" /\ BeginSave(Job, "endSave", new)
  BY TypeFacts DEF SessionRow, JobFind
<1>2. Job \in Actor
  BY DEF Actor
<1> HIDE DEF new
<1> QED BY <1>1, <1>2, SaveInductive DEF Over

\* A step that ends a request, or all but.
LEMMA ForgottenInductive ==
    ASSUME IInv, NEW p \in Actor, NEW step \in Forgotten, Finish(p, step),
           UNCHANGED <<row, now, made>>,
           session' \in SessionRow, session'.status # "none", drift' \in BOOLEAN, late' \subseteq User
    PROVE  IInv'
<1>1. req' \in [Actor -> Request] /\ Others(p) /\ req'[p].pc = step
  BY FinishFacts, TypeFacts DEF Forgotten
<1>2. SoundAttendee(p)' /\ SoundSession(p)' /\ req'[p].pc # "attSave"
  BY <1>1, ForgottenSound
<1>3. UNCHANGED now /\ UNCHANGED row /\ made' \in Nat
  BY TypeFacts
<1> QED BY <1>1, <1>2, <1>3, AttendeesKept

\* A registration that goes on.
LEMMA RegistrationGoesOn ==
    ASSUME IInv, NEW p \in Actor, NEW step \in Registering, Goto(p, step),
           req[p].pc \in Registering, UNCHANGED <<row, now, made, drift, late>>,
           session' \in SessionRow, session'.status # "none"
    PROVE  IInv'
<1>1. /\ req' \in [Actor -> Request] /\ Others(p)
      /\ req'[p].pc = step /\ req'[p].seen = req[p].seen
  BY GotoFacts, TypeFacts
<1>2. req[p].seen.user \in User /\ req[p].seen.status = "registered"
  BY DEF IInv, SoundAttendee
<1>3. SoundAttendee(p)' /\ SoundSession(p)' /\ req'[p].pc # "attSave"
  BY <1>1, <1>2 DEF SoundAttendee, SoundSession, Registering
<1>4. UNCHANGED <<row, now>> /\ made' \in Nat /\ drift' \in BOOLEAN /\ late' \subseteq User
  BY TypeFacts
<1> QED BY <1>1, <1>3, <1>4, AttendeesKept

LEMMA RegistrationInductive ==
    ASSUME IInv, NEW p \in Actor, HostFind(p) \/ RegisterExists(p) \/ RegisterCount(p)
    PROVE  IInv'
<1>1. req[p].pc \in Registering /\ UNCHANGED <<row, now, made, drift, late>>
  BY DEF HostFind, RegisterExists, RegisterCount, Registering
<1>2. session.status # "none" /\ session \in SessionRow
  BY <1>1, Active DEF Registering
<1>3. session' \in SessionRow /\ session'.status # "none"
  <2>1. CASE UNCHANGED session
    BY <1>2, <2>1
  <2>2. CASE session' = [session EXCEPT !.registered = @ + 1]
    BY <1>2, <2>2 DEF SessionRow
  <2> QED BY <2>1, <2>2 DEF HostFind, RegisterExists, RegisterCount
<1>4. End(p) \/ \E step \in Registering : Goto(p, step)
  BY DEF HostFind, RegisterExists, RegisterCount, Registering
<1>5. CASE End(p)
  BY <1>1, <1>3, <1>5, ForgottenInductive, TypeFacts DEF End, Forgotten
<1>6. CASE \E step \in Registering : Goto(p, step)
  BY <1>1, <1>3, <1>6, RegistrationGoesOn
<1> QED BY <1>4, <1>5, <1>6

LEMMA EndingInductive ==
    ASSUME IInv, NEW p \in Actor,
           RegisterInsertFails(p) \/ Decrement(p) \/ Floor(p) \/ JoinLive(p) \/ SessionSaveRefused(p)
    PROVE  IInv'
<1>1. /\ req[p].pc # "idle" /\ UNCHANGED <<row, now, made>> /\ drift' \in BOOLEAN /\ UNCHANGED late
      /\ \E step \in Forgotten : Finish(p, step)
  BY TypeFacts DEF RegisterInsertFails, Decrement, Floor, JoinLive, SessionSaveRefused, Forgotten, End
<1>2. session.status # "none" /\ session \in SessionRow
  BY <1>1, Active
<1>3. session' \in SessionRow /\ session'.status # "none"
  <2>1. CASE UNCHANGED session
    BY <1>2, <2>1
  <2>2. CASE session' = [session EXCEPT !.registered = @ - 1] \/ session' = [session EXCEPT !.registered = 0]
    BY <1>2, <2>2 DEF SessionRow
  <2>3. CASE session' = [session EXCEPT !.status = "live"]
    BY <1>2, <2>3 DEF SessionRow
  <2> QED BY <2>1, <2>2, <2>3
         DEF RegisterInsertFails, Decrement, Floor, JoinLive, SessionSaveRefused
<1>4. late' \subseteq User
  BY <1>1, TypeFacts
<1> QED BY <1>1, <1>3, <1>4, ForgottenInductive

LEMMA SessionSaveInductive ==
    ASSUME IInv, NEW p \in Actor, SessionSave(p)
    PROVE  IInv'
<1>1. /\ req[p].pc \in {"save", "endSave"} /\ session' = req[p].entity
      /\ UNCHANGED <<row, now, made, late>> /\ drift' \in BOOLEAN
      /\ \E step \in Forgotten : Finish(p, step)
  BY TypeFacts DEF SessionSave, Forgotten, End
<1>2. session' \in SessionRow
  BY <1>1, TypeFacts DEF Request
<1>3. session'.status # "none"
  BY <1>1 DEF IInv, SoundSession
<1>4. late' \subseteq User
  BY <1>1, TypeFacts
<1> QED BY <1>1, <1>2, <1>3, <1>4, ForgottenInductive

LEMMA JoinLinkFindInductive ==
    ASSUME IInv, NEW p \in Actor, JoinLinkFind(p)
    PROVE  IInv'
<1>1. req[p].pc # "idle" /\ UNCHANGED <<session, row, now, made, drift, late>>
  BY DEF JoinLinkFind
<1>2. session.status # "none" /\ session \in SessionRow
  BY <1>1, Active
<1>3. CASE \E a \in RowsOf(req[p].seen.user) :
             req' = [req EXCEPT ![p] = [Idle EXCEPT !.pc = "attSave", !.att = a, !.seen = row[a]]]
  <2>1. PICK a \in Rows : req' = [req EXCEPT ![p] = HasRead("attSave", a, row[a])]
    BY <1>3 DEF RowsOf, HasRead
  <2>2. row[a] \in AttendeeRow /\ row[a].status # "none"
    BY TypeFacts DEF Rows
  <2>3. made' \in Nat
    BY <1>1, TypeFacts
  <2> QED BY <1>1, <1>2, <2>1, <2>2, <2>3, AttendeeReadInductive
<1>4. CASE End(p)
  BY <1>1, <1>2, <1>4, ForgottenInductive, TypeFacts DEF End, Forgotten
<1> QED BY <1>3, <1>4 DEF JoinLinkFind

LEMMA JoinFindInductive ==
    ASSUME IInv, NEW p \in Actor, JoinFind(p)
    PROVE  IInv'
<1>1. req[p].pc = "joinFind" /\ UNCHANGED <<session, row, now, made, drift, late>>
  BY DEF JoinFind
<1>2. session.status # "none" /\ session \in SessionRow
  BY <1>1, Active
<1>3. CASE \E a \in RowsOf(req[p].seen.user) :
             req' = [req EXCEPT ![p].pc = "joinUpdate", ![p].seen.role = row[a].role]
  <2>1. PICK a \in Rows :
          req' = [req EXCEPT ![p].pc = "joinUpdate", ![p].seen.role = row[a].role]
    BY <1>3 DEF RowsOf
  <2> DEFINE seen == [req[p].seen EXCEPT !.role = row[a].role]
             r == [req[p] EXCEPT !.pc = "joinUpdate", !.seen = seen]
  <2>2. req[p] \in Request /\ row[a] \in AttendeeRow
    BY TypeFacts DEF Rows
  <2>3. seen \in AttendeeRow /\ seen.user = req[p].seen.user
    BY <2>2 DEF Request, AttendeeRow
  <2>4. r \in Request /\ r.pc = "joinUpdate" /\ r.seen.user = req[p].seen.user
    BY <2>2, <2>3 DEF Request, Attending
  <2>5. req' = [req EXCEPT ![p] = r]
    BY <2>1, TypeFacts DEF TypeOK, Request
  <2>6. req[p].seen.user \in User
    BY <1>1 DEF IInv, SoundAttendee
  <2> HIDE DEF r
  <2>7. req' \in [Actor -> Request] /\ Others(p) /\ req'[p] = r
    BY <2>4, <2>5, Replaced, TypeFacts
  <2>8. SoundAttendee(p)' /\ SoundSession(p)'
    BY <2>4, <2>6, <2>7 DEF SoundAttendee, SoundSession, Registering
  <2> QED BY <1>1, <1>2, <2>4, <2>7, <2>8, AttendeesKept, TypeFacts
<1>4. CASE End(p)
  BY <1>1, <1>2, <1>4, ForgottenInductive, TypeFacts DEF End, Forgotten
<1> QED BY <1>3, <1>4 DEF JoinFind

\* A row is written: by an insert, or by the save of an attendee.
LEMMA RowWritten ==
    ASSUME TypeOK, NEW a \in Att, NEW seen \in AttendeeRow, seen.user \in User, seen.status # "none",
           \A b \in Rows : row[b].user = seen.user => b = a,
           row' = [row EXCEPT ![a] = seen]
    PROVE  /\ RowsOK' /\ Rows' = Rows \cup {a}
           /\ row'[a] = seen /\ \A b \in Att \ {a} : row'[b] = row[b]
<1>1. row' \in [Att -> AttendeeRow] /\ row'[a] = seen /\ \A b \in Att \ {a} : row'[b] = row[b]
  BY DEF TypeOK
<1>2. Rows' = Rows \cup {a}
  BY <1>1 DEF Rows
<1>3. \A b \in Rows' : row'[b].user \in User
  BY <1>1, <1>2 DEF TypeOK, Rows
<1>4. \A b, c \in Rows' : row'[b].user = row'[c].user => b = c
  BY <1>1, <1>2 DEF TypeOK, Rows
<1> QED BY <1>1, <1>2, <1>3, <1>4 DEF RowsOK

\* Rows take another status: those of a user who joins, or of all who joined.
LEMMA RowsRestated ==
    ASSUME TypeOK, NEW S \in SUBSET Rows, NEW s \in {"joined", "left"},
           row' = [a \in Att |-> IF a \in S THEN [row[a] EXCEPT !.status = s] ELSE row[a]]
    PROVE  /\ RowsOK' /\ Rows' = Rows
           /\ \A a \in Att : /\ row'[a].user = row[a].user /\ row'[a].role = row[a].role
                             /\ row'[a].status = IF a \in S THEN s ELSE row[a].status
<1>1. \A a \in Att : /\ row[a] \in AttendeeRow
                     /\ row'[a] = IF a \in S THEN [row[a] EXCEPT !.status = s] ELSE row[a]
  BY DEF TypeOK
<1>2. \A a \in Att : /\ row'[a] \in AttendeeRow
                     /\ row'[a].user = row[a].user /\ row'[a].role = row[a].role
                     /\ row'[a].status = IF a \in S THEN s ELSE row[a].status
  BY <1>1 DEF AttendeeRow
<1>3. Rows' = Rows
  BY <1>2 DEF Rows
<1>4. row' \in [Att -> AttendeeRow]
  BY <1>2
<1> QED BY <1>2, <1>3, <1>4 DEF RowsOK, TypeOK, Rows

\* What remains to be shown of a step that writes rows and ends.
LEMMA RowsInductive ==
    ASSUME IInv, NEW p \in Actor, NEW step \in Forgotten, Finish(p, step), req[p].pc # "idle",
           UNCHANGED <<session, now, made>>, drift' \in BOOLEAN, late' \subseteq User, RowsOK',
           \A q \in Actor \ {p} : req[q].pc = "attSave" /\ req[q].att \in Rows' =>
               row'[req[q].att].user = req[q].seen.user /\ row'[req[q].att].role = req[q].seen.role
    PROVE  IInv'
<1>1. req' \in [Actor -> Request] /\ Others(p) /\ req'[p].pc = step
  BY FinishFacts, TypeFacts DEF Forgotten
<1>2. SoundAttendee(p)' /\ SoundSession(p)' /\ req'[p].pc # "attSave"
  BY <1>1, ForgottenSound
<1>3. session' \in SessionRow /\ session'.status # "none"
  BY Active
<1>4. \A q \in Actor \ {p} : Matches(q)'
  BY <1>1 DEF Others, Matches
<1>5. UNCHANGED now /\ made' \in Nat
  BY TypeFacts
<1> QED BY <1>1, <1>2, <1>3, <1>4, <1>5, Assembled

LEMMA RegisterInsertInductive ==
    ASSUME IInv, NEW p \in Actor, RegisterInsert(p)
    PROVE  IInv'
<1>1. PICK a \in Att \ Rows : /\ \A q \in Actor : req[q].att # a
                             /\ row' = [row EXCEPT ![a] = req[p].seen]
  BY DEF RegisterInsert
<1>2. /\ req[p].pc = "insert" /\ RowsOf(req[p].seen.user) = {}
      /\ UNCHANGED <<session, now, made, drift, late>> /\ Finish(p, "idle")
  BY DEF RegisterInsert, End
<1>3. req[p].seen \in AttendeeRow /\ req[p].seen.user \in User /\ req[p].seen.status = "registered"
  BY <1>2, TypeFacts DEF Request, IInv, SoundAttendee, Registering
<1>4. /\ RowsOK' /\ Rows' = Rows \cup {a}
      /\ row'[a] = req[p].seen /\ \A b \in Att \ {a} : row'[b] = row[b]
  BY <1>1, <1>2, <1>3, RowWritten, TypeFacts DEF RowsOf
<1>5. \A q \in Actor \ {p} : req[q].pc = "attSave" /\ req[q].att \in Rows' =>
        row'[req[q].att].user = req[q].seen.user /\ row'[req[q].att].role = req[q].seen.role
  BY <1>1, <1>4 DEF IInv, SoundAttendee
<1> QED BY <1>2, <1>4, <1>5, RowsInductive, TypeFacts DEF Forgotten

LEMMA RemoveRowInductive ==
    ASSUME IInv, NEW p \in Actor, RemoveRow(p)
    PROVE  IInv'
<1> DEFINE a == req[p].att
<1>1. /\ req[p].pc = "remove" /\ row' = [row EXCEPT ![a] = NoAttendee]
      /\ UNCHANGED <<session, now, made, late>> /\ Finish(p, "decrement")
      /\ drift' \in BOOLEAN
  BY TypeFacts DEF RemoveRow
<1>2. a \in Att
  BY <1>1 DEF IInv, SoundAttendee
<1> HIDE DEF a
<1>3. row' \in [Att -> AttendeeRow] /\ row'[a] = NoAttendee /\ \A b \in Att \ {a} : row'[b] = row[b]
  BY <1>1, <1>2, IdleType, TypeFacts
<1>4. Rows' = Rows \ {a}
  BY <1>2, <1>3 DEF Rows, NoAttendee
<1>5. RowsOK'
  BY <1>3, <1>4, TypeFacts DEF RowsOK, TypeOK, Rows
<1>6. \A q \in Actor \ {p} : req[q].pc = "attSave" /\ req[q].att \in Rows' =>
        row'[req[q].att].user = req[q].seen.user /\ row'[req[q].att].role = req[q].seen.role
  BY <1>3, <1>4 DEF IInv, SoundAttendee, Rows
<1>7. late' \subseteq User
  BY <1>1, TypeFacts
<1> QED BY <1>1, <1>5, <1>6, <1>7, RowsInductive DEF Forgotten

LEMMA AttendeeSaveInductive ==
    ASSUME IInv, NEW p \in Actor, AttendeeSave(p)
    PROVE  IInv'
<1> DEFINE a == req[p].att
           seen == req[p].seen
<1>1. /\ req[p].pc = "attSave" /\ UNCHANGED <<session, now, made>> /\ Finish(p, "idle")
      /\ drift' \in BOOLEAN
  BY TypeFacts DEF AttendeeSave, End
<1>2. /\ a \in Att /\ seen \in AttendeeRow /\ seen.user \in User /\ seen.status # "none"
      /\ a \in Rows => row[a].user = seen.user /\ row[a].role = seen.role
  BY <1>1, TypeFacts DEF IInv, SoundAttendee, Request
<1>3. late' \subseteq User
  BY <1>2, TypeFacts DEF AttendeeSave
<1>4. CASE UNCHANGED row
  <2>1. RowsOK'
    BY <1>4, TypeFacts DEF RowsOK, TypeOK, Rows
  <2>2. \A q \in Actor \ {p} : req[q].pc = "attSave" /\ req[q].att \in Rows' =>
          row'[req[q].att].user = req[q].seen.user /\ row'[req[q].att].role = req[q].seen.role
    BY <1>4 DEF IInv, SoundAttendee, Rows
  <2> QED BY <1>1, <1>3, <2>1, <2>2, RowsInductive DEF Forgotten
<1>5. CASE ~(a \notin Rows /\ RowsOf(seen.user) # {}) /\ row' = [row EXCEPT ![a] = seen]
  <2>1. \A b \in Rows : row[b].user = seen.user => b = a
    BY <1>2, <1>5, TypeFacts DEF RowsOf, TypeOK
  <2>2. /\ RowsOK' /\ Rows' = Rows \cup {a}
        /\ row'[a] = seen /\ \A b \in Att \ {a} : row'[b] = row[b]
    BY <1>2, <1>5, <2>1, RowWritten, TypeFacts
  <2>3. \A q \in Actor \ {p} : req[q].pc = "attSave" /\ req[q].att \in Rows' =>
          row'[req[q].att].user = req[q].seen.user /\ row'[req[q].att].role = req[q].seen.role
    <3> SUFFICES ASSUME NEW q \in Actor \ {p}, req[q].pc = "attSave", req[q].att \in Rows'
                 PROVE  /\ row'[req[q].att].user = req[q].seen.user
                        /\ row'[req[q].att].role = req[q].seen.role
      OBVIOUS
    <3>1. CASE req[q].att = a
      BY <1>1, <2>2, <3>1 DEF IInv, Agree
    <3>2. CASE req[q].att # a
      BY <2>2, <3>2 DEF IInv, SoundAttendee, Rows
    <3> QED BY <3>1, <3>2
  <2> QED BY <1>1, <1>3, <2>2, <2>3, RowsInductive DEF Forgotten
<1> QED BY <1>4, <1>5 DEF AttendeeSave

LEMMA LeaveAllInductive ==
    ASSUME IInv, NEW p \in Actor, LeaveAll(p)
    PROVE  IInv'
<1> DEFINE S == {a \in Att : row[a].status = "joined"}
<1>1. /\ req[p].pc = "leaveAll" /\ UNCHANGED <<session, now, made, drift, late>> /\ Finish(p, "idle")
      /\ row' = [a \in Att |-> IF a \in S THEN [row[a] EXCEPT !.status = "left"] ELSE row[a]]
  BY DEF LeaveAll, End
<1>2. S \in SUBSET Rows
  BY DEF Rows
<1> HIDE DEF S
<1>3. RowsOK' /\ Rows' = Rows /\ \A a \in Att : row'[a].user = row[a].user /\ row'[a].role = row[a].role
  BY <1>1, <1>2, RowsRestated, TypeFacts
<1>4. \A q \in Actor \ {p} : req[q].pc = "attSave" /\ req[q].att \in Rows' =>
        row'[req[q].att].user = req[q].seen.user /\ row'[req[q].att].role = req[q].seen.role
  BY <1>3 DEF IInv, SoundAttendee
<1> QED BY <1>1, <1>3, <1>4, RowsInductive, TypeFacts DEF Forgotten

LEMMA JoinUpdateInductive ==
    ASSUME IInv, NEW p \in Actor, JoinUpdate(p)
    PROVE  IInv'
<1> DEFINE S == RowsOf(req[p].seen.user)
<1>1. /\ req[p].pc = "joinUpdate" /\ UNCHANGED <<session, now, made, drift>>
      /\ row' = [a \in Att |-> IF a \in S THEN [row[a] EXCEPT !.status = "joined"] ELSE row[a]]
  BY DEF JoinUpdate
<1>2. S \in SUBSET Rows
  BY DEF RowsOf
<1>3. req[p].seen.user \in User
  BY <1>1 DEF IInv, SoundAttendee
<1>4. late' \subseteq User
  BY <1>3, TypeFacts DEF JoinUpdate
<1> HIDE DEF S
<1>5. RowsOK' /\ Rows' = Rows /\ \A a \in Att : row'[a].user = row[a].user /\ row'[a].role = row[a].role
  BY <1>1, <1>2, RowsRestated, TypeFacts
<1>6. \A q \in Actor \ {p} : req[q].pc = "attSave" /\ req[q].att \in Rows' =>
        row'[req[q].att].user = req[q].seen.user /\ row'[req[q].att].role = req[q].seen.role
  BY <1>5 DEF IInv, SoundAttendee
<1>7. CASE End(p)
  BY <1>1, <1>4, <1>5, <1>6, <1>7, RowsInductive, TypeFacts DEF Forgotten, End
<1>8. CASE req[p].read = "scheduled" /\ Goto(p, "joinLive")
  <2>1. /\ req' \in [Actor -> Request] /\ Others(p)
        /\ req'[p].pc = "joinLive" /\ req'[p].read = "scheduled"
    BY <1>8, GotoFacts, TypeFacts DEF Attending
  <2>2. SoundAttendee(p)' /\ SoundSession(p)'
    BY <2>1 DEF SoundAttendee, SoundSession, Registering
  <2>3. \A q \in Actor \ {p} : Matches(q)'
    BY <1>6, <2>1 DEF Others, Matches
  <2>4. session' \in SessionRow /\ session'.status # "none"
    BY <1>1, Active
  <2> QED BY <1>1, <1>4, <1>5, <2>1, <2>2, <2>3, <2>4, Assembled, TypeFacts
<1> QED BY <1>7, <1>8 DEF JoinUpdate

LEMMA InitIInv == Init => IInv
<1> SUFFICES ASSUME Init PROVE IInv
  OBVIOUS
<1>1. Rows = {}
  BY DEF Init, Rows, NoAttendee
<1>2. \A p \in Actor : req[p] = Idle
  BY DEF Init
<1>3. NoSession \in SessionRow
  BY DEF NoSession, SessionRow
<1>4. TypeOK
  BY <1>1, <1>3, IdleType DEF Init, TypeOK
<1>5. NotYet
  BY <1>1, <1>2 DEF NotYet, Init, Idle
<1>6. Agree /\ \A p \in Actor : SoundAttendee(p) /\ SoundSession(p)
  BY <1>2 DEF Agree, SoundAttendee, SoundSession, Idle, Registering
<1> QED BY <1>4, <1>5, <1>6 DEF IInv

LEMMA StutterIInv ==
    ASSUME IInv, UNCHANGED <<session, row, req, made, drift, late>>, now' \in Nat
    PROVE  IInv'
<1>1. Rows' = Rows
  BY DEF Rows
<1> QED BY <1>1 DEF IInv, TypeOK, NotYet, Agree, SoundAttendee, SoundSession

LEMMA ServeInductive ==
    ASSUME IInv, NEW p \in Proc, Serve(p), made' = made + 1
    PROVE  IInv'
<1>1. p \in Actor /\ made' \in Nat
  BY TypeFacts DEF Actor
<1>2. CASE Create(p)
  BY <1>1, <1>2, CreateInductive
<1>3. CASE UpdateFind(p) \/ CancelFind(p) \/ StartFind(p) \/ EndFind(p) \/ RegenerateFind(p)
  BY <1>1, <1>3, SessionFindInductive
<1>4. ASSUME NEW u \in User, RegisterFind(p, u) PROVE IInv'
  BY <1>1, <1>4, RegisterFindInductive
<1>5. ASSUME NEW u \in User, JoinLinkBegin(p, u) PROVE IInv'
  BY <1>1, <1>5, BeginJoinInductive DEF JoinLinkBegin
<1>6. ASSUME NEW u \in User, JoinBegin(p, u) PROVE IInv'
  <2>1. session.status \in {"none", "scheduled", "live", "ended", "cancelled"}
    BY TypeFacts DEF SessionRow
  <2> QED BY <1>1, <1>6, <2>1, BeginJoinInductive DEF JoinBegin
<1>7. ASSUME NEW a \in Att, UnregisterFind(p, a) PROVE IInv'
  BY <1>1, <1>7, UnregisterFindInductive
<1>8. ASSUME NEW a \in Att, LeaveFind(p, a) \/ RateFind(p, a) PROVE IInv'
  BY <1>1, <1>8, SeenFindInductive
<1> QED BY <1>2, <1>3, <1>4, <1>5, <1>6, <1>7, <1>8 DEF Serve

LEMMA ContinueInductive ==
    ASSUME IInv, NEW p \in Actor, Continue(p)
    PROVE  IInv'
BY RegistrationInductive, EndingInductive, RegisterInsertInductive, RemoveRowInductive,
   JoinLinkFindInductive, AttendeeSaveInductive, JoinFindInductive, JoinUpdateInductive,
   SessionSaveInductive, LeaveAllInductive
DEF Continue

LEMMA NextIInv == IInv /\ [Next]_vars => IInv'
<1> SUFFICES ASSUME IInv, [Next]_vars PROVE IInv'
  OBVIOUS
<1>1. ASSUME NEW p \in Proc, Serve(p), made' = made + 1 PROVE IInv'
  BY <1>1, ServeInductive
<1>2. CASE JobFind /\ made' = made
  BY <1>2, JobFindInductive, TypeFacts
<1>3. ASSUME NEW p \in Actor, Continue(p) PROVE IInv'
  BY <1>3, ContinueInductive
<1>4. CASE Tick
  BY <1>4, StutterIInv, TypeFacts DEF Tick
<1>5. CASE UNCHANGED vars
  BY <1>5, StutterIInv, TypeFacts DEF vars
<1> QED BY <1>1, <1>2, <1>3, <1>4, <1>5 DEF Next

LEMMA Strengthening == Spec => []IInv
BY InitIInv, NextIInv, PTL DEF Spec

\* Every reachable state is well typed, and no user has two rows (the unique key of
\* session_attendees holds through inserts, saves and saves that insert again).
THEOREM Types == Spec => []TypeOK
<1>1. IInv => TypeOK
  BY DEF IInv
<1> QED BY <1>1, Strengthening, PTL

(***************************************************************************)
(* Seats                                                                   *)
(***************************************************************************)
Balanced == SeatsMatch /\ SeatsWithinCapacityUnlessDrifted

\* The participants about to be inserted.
Placing == {p \in At("insert") : req[p].seen.role = "participant"}

LEMMA ActorsFinite == IsFiniteSet(Actor)
BY FiniteAssumption, FS_AddElement DEF Actor

LEMMA FiniteSets ==
    /\ IsFiniteSet(Rows) /\ Cardinality(Rows) \in Nat
    /\ IsFiniteSet(Participants) /\ Cardinality(Participants) \in Nat
    /\ IsFiniteSet(Placing) /\ Cardinality(Placing) \in Nat
    /\ \A step : IsFiniteSet(At(step)) /\ Cardinality(At(step)) \in Nat
    /\ Cardinality(At("insert")) \in Nat /\ Cardinality(At("decrement")) \in Nat
    /\ Cardinality(Participants) <= Cardinality(Rows)
    /\ Cardinality(Placing) <= Cardinality(At("insert"))
<1>1. Rows \in SUBSET Att /\ Participants \in SUBSET Rows
  BY DEF Rows, Participants
<1>2. Placing \in SUBSET At("insert") /\ \A step : At(step) \in SUBSET Actor
  BY DEF Placing, At
<1>3. IsFiniteSet(Rows) /\ \A step : IsFiniteSet(At(step))
  BY <1>1, <1>2, ActorsFinite, FiniteAssumption, FS_Subset
<1>4. /\ IsFiniteSet(Participants) /\ Cardinality(Participants) <= Cardinality(Rows)
      /\ IsFiniteSet(Placing) /\ Cardinality(Placing) <= Cardinality(At("insert"))
  BY <1>1, <1>2, <1>3, FS_Subset
<1> QED BY <1>3, <1>4, FS_CardinalityType

\* A request arrives at a statement, leaves it, or is as far from it as before.
LEMMA AtFacts ==
    ASSUME NEW p \in Actor, Others(p)
    PROVE  /\ At("insert")' = IF req'[p].pc = "insert" THEN At("insert") \cup {p}
                                                      ELSE At("insert") \ {p}
           /\ At("decrement")' = IF req'[p].pc = "decrement" THEN At("decrement") \cup {p}
                                                            ELSE At("decrement") \ {p}
BY DEF Others, At

LEMMA PlacingFacts ==
    ASSUME NEW p \in Actor, Others(p)
    PROVE  Placing' = IF req'[p].pc = "insert" /\ req'[p].seen.role = "participant"
                      THEN Placing \cup {p} ELSE Placing \ {p}
BY DEF Others, Placing, At

LEMMA QuietKeepsBalance ==
    ASSUME Balanced, ~drift, NEW p \in Actor, Others(p),
           session \in SessionRow, session' \in SessionRow,
           session'.registered = session.registered, session'.max >= session.max,
           req[p].pc \notin {"insert", "decrement"}, req'[p].pc \notin {"insert", "decrement"},
           Rows' = Rows, \A a \in Rows : row'[a].role = row[a].role
    PROVE  Balanced'
<1>1. At("insert")' = At("insert") /\ At("decrement")' = At("decrement") /\ Placing' = Placing
  BY DEF At, Placing, Others
<1>2. Participants' = Participants
  BY DEF Participants
<1>3. session.registered = Cardinality(Rows) + Cardinality(At("insert")) + Cardinality(At("decrement"))
      /\ Cardinality(Participants) + Cardinality(Placing) <= session.max
  BY DEF Balanced, SeatsMatch, SeatsWithinCapacityUnlessDrifted, Placing
<1>4. Cardinality(Participants) + Cardinality(Placing) <= session'.max
  BY <1>3, FiniteSets DEF SessionRow
<1> QED BY <1>1, <1>2, <1>3, <1>4
       DEF Balanced, SeatsMatch, SeatsWithinCapacityUnlessDrifted, Placing

\* A request that begins is at its first statement.
LEMMA RegistrationBegun ==
    ASSUME TypeOK, NEW p \in Actor, NEW step, NEW u, NEW r,
           BeginRegistration(p, step, u, r)
    PROVE  req[p].pc = "idle" /\ Others(p) /\ req'[p].pc = step
<1> DEFINE new == [Idle EXCEPT !.pc = step, !.seen = Registration(u, r)]
<1>1. new.pc = step
  BY DEF Idle
<1>2. req[p].pc = "idle" /\ req' = [req EXCEPT ![p] = new]
  BY DEF BeginRegistration
<1> HIDE DEF new
<1> QED BY <1>1, <1>2 DEF TypeOK, Others

LEMMA JoinBegun ==
    ASSUME TypeOK, NEW p \in Actor, NEW step, NEW u, NEW read,
           BeginJoin(p, step, u, read)
    PROVE  req[p].pc = "idle" /\ Others(p) /\ req'[p].pc = step
<1> DEFINE new == [Idle EXCEPT !.pc = step, !.seen = Registration(u, "participant"), !.read = read]
<1>1. new.pc = step
  BY DEF Idle
<1>2. req[p].pc = "idle" /\ req' = [req EXCEPT ![p] = new]
  BY DEF BeginJoin
<1> HIDE DEF new
<1> QED BY <1>1, <1>2 DEF TypeOK, Others

LEMMA AttendeeBegun ==
    ASSUME TypeOK, NEW p \in Actor, NEW step, NEW a, NEW seen,
           BeginAttendee(p, step, a, seen)
    PROVE  req[p].pc = "idle" /\ Others(p) /\ req'[p].pc = step
<1> DEFINE new == [Idle EXCEPT !.pc = step, !.att = a, !.seen = seen]
<1>1. new.pc = step
  BY DEF Idle
<1>2. req[p].pc = "idle" /\ req' = [req EXCEPT ![p] = new]
  BY DEF BeginAttendee
<1> HIDE DEF new
<1> QED BY <1>1, <1>2 DEF TypeOK, Others

LEMMA SaveBegun ==
    ASSUME TypeOK, NEW p \in Actor, NEW step, NEW e,
           BeginSave(p, step, e)
    PROVE  req[p].pc = "idle" /\ Others(p) /\ req'[p].pc = step
<1> DEFINE new == [Idle EXCEPT !.pc = step, !.entity = e, !.read = session.status]
<1>1. new.pc = step
  BY DEF Idle
<1>2. req[p].pc = "idle" /\ req' = [req EXCEPT ![p] = new]
  BY DEF BeginSave
<1> HIDE DEF new
<1> QED BY <1>1, <1>2 DEF TypeOK, Others

\* What a request that begins changes.
LEMMA BeginFacts ==
    ASSUME TypeOK, NEW p \in Actor, Serve(p) \/ (p = Job /\ JobFind)
    PROVE  /\ req[p].pc = "idle" /\ Others(p) /\ req'[p].pc \notin {"insert", "decrement"}
           /\ UNCHANGED <<row, drift, late>> /\ (Create(p) \/ UNCHANGED session)
<1>1. UNCHANGED <<row, drift, late>> /\ (Create(p) \/ UNCHANGED session)
  <2>1. CASE Create(p)
    BY <2>1 DEF Create
  <2>2. CASE ~ Create(p)
    <3>1. UNCHANGED <<session, row, drift, late>>
      BY <2>2 DEF Serve, UpdateFind, CancelFind, StartFind, EndFind, RegenerateFind,
         RegisterFind, JoinLinkBegin, JoinBegin, UnregisterFind, LeaveFind, RateFind, JobFind,
         BeginJoin, BeginAttendee, BeginSave
    <3> QED BY <3>1
  <2> QED BY <2>1, <2>2
<1>2. req[p].pc = "idle" /\ Others(p) /\ req'[p].pc \notin {"insert", "decrement"}
  <2>1. CASE Create(p)
    BY <2>1, RegistrationBegun DEF Create
  <2>2. CASE \E u \in User : RegisterFind(p, u)
    BY <2>2, RegistrationBegun DEF RegisterFind
  <2>3. CASE \E u \in User : JoinLinkBegin(p, u) \/ JoinBegin(p, u)
    BY <2>3, JoinBegun DEF JoinLinkBegin, JoinBegin
  <2>4. CASE \E a \in Att : UnregisterFind(p, a) \/ LeaveFind(p, a) \/ RateFind(p, a)
    BY <2>4, AttendeeBegun DEF UnregisterFind, LeaveFind, RateFind
  <2>5. CASE UpdateFind(p)
    BY <2>5, SaveBegun DEF UpdateFind
  <2>6. CASE CancelFind(p)
    BY <2>6, SaveBegun DEF CancelFind
  <2>7. CASE StartFind(p)
    BY <2>7, SaveBegun DEF StartFind
  <2>8. CASE EndFind(p)
    BY <2>8, SaveBegun DEF EndFind
  <2>9. CASE RegenerateFind(p)
    BY <2>9, SaveBegun DEF RegenerateFind
  <2>10. CASE p = Job /\ JobFind
    BY <2>10, SaveBegun DEF JobFind
  <2> QED BY <2>1, <2>2, <2>3, <2>4, <2>5, <2>6, <2>7, <2>8, <2>9, <2>10 DEF Serve
<1> QED BY <1>1, <1>2

LEMMA BeginKeepsBalance ==
    ASSUME IInv, IInv', Balanced, NEW p \in Actor, Serve(p) \/ (p = Job /\ JobFind)
    PROVE  Balanced'
<1>0. session \in SessionRow /\ session' \in SessionRow
  BY DEF IInv, TypeOK
<1>1. /\ req[p].pc = "idle" /\ Others(p) /\ req'[p].pc \notin {"insert", "decrement"}
      /\ row' = row /\ drift' = drift /\ (Create(p) \/ UNCHANGED session)
  BY BeginFacts DEF IInv
<1>2. session'.registered = session.registered /\ session'.max >= session.max
  <2>1. CASE Create(p)
    <3>1. session = NoSession
      BY <2>1 DEF Create, IInv, NotYet
    <3>2. session'.registered = 0 /\ session.max = 0
      BY <2>1, <3>1 DEF Create, NoSession
    <3> QED BY <1>0, <3>1, <3>2 DEF NoSession, SessionRow
  <2>2. CASE ~Create(p)
    <3>1. UNCHANGED session
      BY <1>1, <2>2
    <3> QED BY <1>0, <3>1 DEF SessionRow
  <2> QED BY <2>1, <2>2
<1>3. CASE drift
  BY <1>1, <1>3 DEF Balanced, SeatsMatch, SeatsWithinCapacityUnlessDrifted
<1>4. CASE ~drift
  BY <1>0, <1>1, <1>2, <1>4, QuietKeepsBalance DEF Rows
<1> QED BY <1>3, <1>4

LEMMA BalanceFacts ==
    ASSUME IInv, IInv', Balanced, ~drift
    PROVE  /\ session \in SessionRow /\ session' \in SessionRow
           /\ session.registered \in Int /\ session.max \in Nat
           /\ session.registered = Cardinality(Rows) + Cardinality(At("insert")) + Cardinality(At("decrement"))
           /\ Cardinality(Participants) + Cardinality(Placing) <= session.max
BY DEF IInv, TypeOK, SessionRow, Balanced, SeatsMatch, SeatsWithinCapacityUnlessDrifted, Placing

LEMMA BalanceFollows ==
    ASSUME session'.registered = Cardinality(Rows)' + Cardinality(At("insert"))' + Cardinality(At("decrement"))',
           Cardinality(Participants)' + Cardinality(Placing)' <= session'.max
    PROVE  Balanced'
BY DEF Balanced, SeatsMatch, SeatsWithinCapacityUnlessDrifted, Placing

\* The seat is counted before the row is inserted.
LEMMA CountKeepsBalance ==
    ASSUME IInv, IInv', Balanced, ~drift, NEW p \in Actor, req[p].pc = "count", Goto(p, "insert"),
           req[p].seen.role = "host" \/ session.registered < session.max,
           session' = [session EXCEPT !.registered = @ + 1], UNCHANGED row
    PROVE  Balanced'
<1>1. Others(p) /\ req'[p].pc = "insert" /\ req'[p].seen = req[p].seen
  BY GotoFacts DEF IInv, Registering
<1>2. session'.registered = session.registered + 1 /\ session'.max = session.max
  BY BalanceFacts DEF SessionRow
<1>3. Rows' = Rows /\ Participants' = Participants
  BY DEF Rows, Participants
<1>4. /\ At("insert")' = At("insert") \cup {p} /\ p \notin At("insert")
      /\ At("decrement")' = At("decrement") /\ p \notin Placing
      /\ Placing' = IF req[p].seen.role = "participant" THEN Placing \cup {p} ELSE Placing
  BY <1>1 DEF At, Others, Placing
<1>5. /\ Cardinality(At("insert") \cup {p}) = Cardinality(At("insert")) + 1
      /\ Cardinality(Placing \cup {p}) = Cardinality(Placing) + 1
  BY <1>4, FiniteSets, FS_AddElement
<1>6. session'.registered = Cardinality(Rows)' + Cardinality(At("insert"))' + Cardinality(At("decrement"))'
  <2>1. /\ Cardinality(Rows)' = Cardinality(Rows)
        /\ Cardinality(At("insert"))' = Cardinality(At("insert")) + 1
        /\ Cardinality(At("decrement"))' = Cardinality(At("decrement"))
    BY <1>3, <1>4, <1>5
  <2> QED BY <1>2, <2>1, BalanceFacts, FiniteSets
<1>7. CASE req[p].seen.role # "participant"
  BY <1>2, <1>3, <1>4, <1>6, <1>7, BalanceFacts, BalanceFollows
<1>8. CASE req[p].seen.role = "participant"
  <2>1. Cardinality(Participants) + Cardinality(Placing) + 1 <= session.max
    BY <1>8, BalanceFacts, FiniteSets
  <2>2. Cardinality(Participants)' + Cardinality(Placing)' <= session'.max
    BY <1>2, <1>3, <1>4, <1>5, <1>8, <2>1, BalanceFacts, FiniteSets
  <2> QED BY <1>6, <2>2, BalanceFollows
<1> QED BY <1>7, <1>8

\* The row takes the place of the request that was to insert it.
LEMMA InsertKeepsBalance ==
    ASSUME IInv, IInv', Balanced, ~drift, NEW p \in Actor, RegisterInsert(p)
    PROVE  Balanced'
<1>1. PICK a \in Att \ Rows : row' = [row EXCEPT ![a] = req[p].seen]
  BY DEF RegisterInsert
<1>2. req[p].pc = "insert" /\ Others(p) /\ req'[p].pc = "idle" /\ UNCHANGED session
  BY EndFacts DEF RegisterInsert, IInv
<1>3. req[p].seen.status = "registered"
  BY <1>2 DEF IInv, SoundAttendee, Registering
<1>4. row'[a] = req[p].seen /\ \A b \in Att \ {a} : row'[b] = row[b]
  BY <1>1, TypeFacts
<1>5. Rows' = Rows \cup {a} /\ a \notin Rows
  BY <1>1, <1>3, <1>4 DEF Rows
<1>6. /\ Participants' = IF req[p].seen.role = "participant" THEN Participants \cup {a} ELSE Participants
      /\ a \notin Participants
  BY <1>4, <1>5 DEF Participants, Rows
<1>7. /\ At("insert")' = At("insert") \ {p} /\ p \in At("insert")
      /\ At("decrement")' = At("decrement")
      /\ Placing' = IF req[p].seen.role = "participant" THEN Placing \ {p} ELSE Placing
      /\ p \in Placing <=> req[p].seen.role = "participant"
  BY <1>2 DEF At, Others, Placing
<1>8. /\ Cardinality(Rows \cup {a}) = Cardinality(Rows) + 1
      /\ Cardinality(At("insert") \ {p}) = Cardinality(At("insert")) - 1
      /\ Cardinality(Participants \cup {a}) = Cardinality(Participants) + 1
      /\ p \in Placing => Cardinality(Placing \ {p}) = Cardinality(Placing) - 1
  BY <1>5, <1>6, <1>7, FiniteSets, FS_AddElement, FS_RemoveElement
<1>9. session'.registered = Cardinality(Rows)' + Cardinality(At("insert"))' + Cardinality(At("decrement"))'
  <2>1. /\ Cardinality(Rows)' = Cardinality(Rows) + 1
        /\ Cardinality(At("insert"))' = Cardinality(At("insert")) - 1
        /\ Cardinality(At("decrement"))' = Cardinality(At("decrement"))
    BY <1>5, <1>7, <1>8
  <2> QED BY <1>2, <2>1, BalanceFacts, FiniteSets
<1>10. Cardinality(Participants)' + Cardinality(Placing)' <= session'.max
  <2>1. CASE req[p].seen.role = "participant"
    BY <1>2, <1>6, <1>7, <1>8, <2>1, BalanceFacts, FiniteSets
  <2>2. CASE req[p].seen.role # "participant"
    BY <1>2, <1>6, <1>7, <2>2, BalanceFacts
  <2> QED BY <2>1, <2>2
<1> QED BY <1>9, <1>10, BalanceFollows

\* The request that has removed the row takes the row's place, ...
LEMMA RemoveKeepsBalance ==
    ASSUME IInv, IInv', Balanced, ~drift, ~drift', NEW p \in Actor, RemoveRow(p)
    PROVE  Balanced'
<1> DEFINE a == req[p].att
<1>1. req[p].pc = "remove" /\ row' = [row EXCEPT ![a] = NoAttendee] /\ a \in Rows /\ UNCHANGED session
  BY DEF RemoveRow
<1>2. Others(p) /\ req'[p].pc = "decrement"
  BY FinishFacts DEF RemoveRow, IInv
<1> HIDE DEF a
<1>3. row'[a] = NoAttendee /\ \A b \in Att \ {a} : row'[b] = row[b]
  BY <1>1, TypeFacts DEF Rows
<1>4. Rows' = Rows \ {a} /\ Participants' = Participants \ {a}
  BY <1>1, <1>3 DEF Rows, Participants, NoAttendee
<1>5. /\ At("insert")' = At("insert") /\ Placing' = Placing
      /\ At("decrement")' = At("decrement") \cup {p} /\ p \notin At("decrement")
  BY <1>1, <1>2 DEF At, Others, Placing
<1>6. /\ Cardinality(Rows \ {a}) = Cardinality(Rows) - 1
      /\ Cardinality(Participants \ {a}) <= Cardinality(Participants)
      /\ Cardinality(Participants \ {a}) \in Int
      /\ Cardinality(At("decrement") \cup {p}) = Cardinality(At("decrement")) + 1
  <2>1. Cardinality(Rows \ {a}) = Cardinality(Rows) - 1
    BY <1>1, FiniteSets, FS_RemoveElement
  <2>2. Cardinality(At("decrement") \cup {p}) = Cardinality(At("decrement")) + 1
    BY <1>5, FiniteSets, FS_AddElement
  <2>3. /\ Cardinality(Participants \ {a}) \in {Cardinality(Participants), Cardinality(Participants) - 1}
        /\ Cardinality(Participants) \in Nat
    BY FiniteSets, FS_RemoveElement
  <2> QED BY <2>1, <2>2, <2>3
<1>7. session'.registered = Cardinality(Rows)' + Cardinality(At("insert"))' + Cardinality(At("decrement"))'
  <2>1. /\ Cardinality(Rows)' = Cardinality(Rows) - 1
        /\ Cardinality(At("insert"))' = Cardinality(At("insert"))
        /\ Cardinality(At("decrement"))' = Cardinality(At("decrement")) + 1
    BY <1>4, <1>5, <1>6
  <2> QED BY <1>1, <2>1, BalanceFacts, FiniteSets
<1>8. Cardinality(Participants)' + Cardinality(Placing)' <= session'.max
  BY <1>1, <1>4, <1>5, <1>6, BalanceFacts, FiniteSets
<1> QED BY <1>7, <1>8, BalanceFollows

\* ... until it has given the seat back.
LEMMA DecrementKeepsBalance ==
    ASSUME IInv, IInv', Balanced, ~drift, NEW p \in Actor, Decrement(p)
    PROVE  Balanced'
<1>1. /\ req[p].pc = "decrement" /\ Others(p) /\ req'[p].pc = "floor" /\ UNCHANGED row
      /\ session' = [session EXCEPT !.registered = @ - 1]
  BY FinishFacts DEF Decrement, IInv
<1>2. session'.registered = session.registered - 1 /\ session'.max = session.max
  BY <1>1, BalanceFacts DEF SessionRow
<1>3. /\ Rows' = Rows /\ Participants' = Participants /\ Placing' = Placing
      /\ At("insert")' = At("insert")
      /\ At("decrement")' = At("decrement") \ {p} /\ p \in At("decrement")
  BY <1>1 DEF At, Others, Placing, Rows, Participants
<1>4. Cardinality(At("decrement") \ {p}) = Cardinality(At("decrement")) - 1
  BY <1>3, FiniteSets, FS_RemoveElement
<1>5. session'.registered = Cardinality(Rows)' + Cardinality(At("insert"))' + Cardinality(At("decrement"))'
  <2>1. /\ Cardinality(Rows)' = Cardinality(Rows)
        /\ Cardinality(At("insert"))' = Cardinality(At("insert"))
        /\ Cardinality(At("decrement"))' = Cardinality(At("decrement")) - 1
    BY <1>3, <1>4
  <2> QED BY <1>2, <2>1, BalanceFacts, FiniteSets
<1> QED BY <1>2, <1>3, <1>5, BalanceFacts, BalanceFollows

\* The other steps, unless they let the count drift.
LEMMA QuietSteps ==
    ASSUME IInv, IInv', Balanced, ~drift, ~drift', NEW p \in Actor, Continue(p),
           ~ RegisterInsert(p), ~ RemoveRow(p), ~ Decrement(p),
           ~ (RegisterCount(p) /\ Goto(p, "insert"))
    PROVE  Balanced'
<1>1. /\ TypeOK /\ session \in SessionRow /\ session' \in SessionRow
      /\ session.registered \in Int /\ session.max \in Nat /\ row \in [Att -> AttendeeRow]
  BY BalanceFacts DEF IInv, TypeOK
<1>2. session.max >= session.max
  BY <1>1
<1>3. ASSUME End(p), req[p].pc \notin {"insert", "decrement"}, UNCHANGED <<row, session>> PROVE Balanced'
  <2>1. Others(p) /\ req'[p].pc = "idle"
    BY <1>1, <1>3, EndFacts
  <2>2. Rows' = Rows
    BY <1>3 DEF Rows
  <2> QED BY <1>1, <1>2, <1>3, <2>1, <2>2, QuietKeepsBalance
<1>4. CASE HostFind(p) \/ RegisterExists(p) \/ RegisterCount(p)
  <2>1. UNCHANGED row /\ req[p].pc \in {"find", "exists", "count"}
    BY <1>4 DEF HostFind, RegisterExists, RegisterCount
  <2>2. UNCHANGED session /\ (End(p) \/ Goto(p, "exists") \/ Goto(p, "count"))
    BY <1>4 DEF HostFind, RegisterExists, RegisterCount
  <2>3. ASSUME NEW step \in {"exists", "count"}, Goto(p, step) PROVE Balanced'
    <3>1. Others(p) /\ req'[p].pc = step
      BY <1>1, <2>3, GotoFacts DEF Registering
    <3>2. Rows' = Rows
      BY <2>1 DEF Rows
    <3> QED BY <1>1, <1>2, <2>1, <2>2, <3>1, <3>2, QuietKeepsBalance
  <2> QED BY <1>3, <2>1, <2>2, <2>3
<1>5. CASE SessionSaveRefused(p)
  BY <1>3, <1>5 DEF SessionSaveRefused
<1>6. CASE RegisterInsertFails(p)
  BY <1>6 DEF RegisterInsertFails
<1>7. CASE Floor(p)
  BY <1>3, <1>7 DEF Floor
<1>8. CASE JoinLive(p)
  <2>1. /\ UNCHANGED row /\ req[p].pc = "joinLive" /\ session' = [session EXCEPT !.status = "live"]
        /\ Others(p) /\ req'[p].pc = "idle"
    BY <1>1, <1>8, EndFacts DEF JoinLive
  <2>2. Rows' = Rows /\ session'.registered = session.registered /\ session'.max = session.max
    BY <1>1, <2>1 DEF Rows, SessionRow
  <2> QED BY <1>1, <1>2, <2>1, <2>2, QuietKeepsBalance
<1>9. CASE SessionSave(p)
  <2>1. /\ UNCHANGED row /\ req[p].pc \in {"save", "endSave"}
        /\ session'.registered = session.registered /\ ~(session'.max < session.max)
    BY <1>9 DEF SessionSave
  <2>2. Others(p) /\ req'[p].pc \in {"idle", "leaveAll"}
    BY <1>1, <1>9, FinishFacts DEF SessionSave, End
  <2>3. Rows' = Rows /\ session'.max >= session.max
    BY <1>1, <2>1 DEF Rows, SessionRow
  <2> QED BY <1>1, <2>1, <2>2, <2>3, QuietKeepsBalance
<1>10. CASE JoinLinkFind(p)
  <2>1. UNCHANGED <<row, session>> /\ req[p].pc = "linkFind"
    BY <1>10 DEF JoinLinkFind
  <2>2. CASE \E a \in RowsOf(req[p].seen.user) :
               req' = [req EXCEPT ![p] = [Idle EXCEPT !.pc = "attSave", !.att = a, !.seen = row[a]]]
    <3>1. PICK a \in Rows : req' = [req EXCEPT ![p] = HasRead("attSave", a, row[a])]
      BY <2>2 DEF RowsOf, HasRead
    <3>2. a \in Att /\ row[a] \in AttendeeRow
      BY <1>1 DEF Rows
    <3>3. Others(p) /\ req'[p].pc = "attSave"
      BY <1>1, <3>1, <3>2, AttendeeRead
    <3>4. Rows' = Rows
      BY <2>1 DEF Rows
    <3> QED BY <1>1, <1>2, <2>1, <3>3, <3>4, QuietKeepsBalance
  <2>3. CASE End(p)
    BY <1>3, <2>1, <2>3
  <2> QED BY <1>10, <2>2, <2>3 DEF JoinLinkFind
<1>11. CASE JoinFind(p)
  <2>1. UNCHANGED <<row, session>> /\ req[p].pc = "joinFind"
    BY <1>11 DEF JoinFind
  <2>2. Others(p) /\ req'[p].pc \in {"joinUpdate", "idle"}
    BY <1>1, <1>11, EndFacts DEF JoinFind, TypeOK, Others, Request
  <2>3. Rows' = Rows
    BY <2>1 DEF Rows
  <2> QED BY <1>1, <1>2, <2>1, <2>2, <2>3, QuietKeepsBalance
<1>12. CASE JoinUpdate(p)
  <2> DEFINE S == RowsOf(req[p].seen.user)
  <2>1. /\ req[p].pc = "joinUpdate" /\ UNCHANGED session
        /\ row' = [a \in Att |-> IF a \in S THEN [row[a] EXCEPT !.status = "joined"] ELSE row[a]]
    BY <1>12 DEF JoinUpdate
  <2>2. S \in SUBSET Rows
    BY DEF RowsOf
  <2>3. Others(p) /\ req'[p].pc \in {"joinLive", "idle"}
    BY <1>1, <1>12, EndFacts, GotoFacts DEF JoinUpdate, Attending
  <2> HIDE DEF S
  <2>4. Rows' = Rows /\ \A a \in Att : row'[a].role = row[a].role
    BY <1>1, <2>1, <2>2, RowsRestated
  <2> QED BY <1>1, <1>2, <2>1, <2>3, <2>4, QuietKeepsBalance DEF Rows
<1>13. CASE LeaveAll(p)
  <2> DEFINE S == {a \in Att : row[a].status = "joined"}
  <2>1. /\ req[p].pc = "leaveAll" /\ UNCHANGED session /\ Others(p) /\ req'[p].pc = "idle"
        /\ row' = [a \in Att |-> IF a \in S THEN [row[a] EXCEPT !.status = "left"] ELSE row[a]]
    BY <1>1, <1>13, EndFacts DEF LeaveAll
  <2>2. S \in SUBSET Rows
    BY DEF Rows
  <2> HIDE DEF S
  <2>3. Rows' = Rows /\ \A a \in Att : row'[a].role = row[a].role
    BY <1>1, <2>1, <2>2, RowsRestated
  <2> QED BY <1>1, <1>2, <2>1, <2>3, QuietKeepsBalance DEF Rows
<1>14. CASE AttendeeSave(p)
  <2> DEFINE a == req[p].att
             seen == req[p].seen
  <2>1. /\ req[p].pc = "attSave" /\ UNCHANGED session /\ Others(p) /\ req'[p].pc = "idle"
        /\ row' = row \/ (a \in Rows /\ row' = [row EXCEPT ![a] = seen])
    BY <1>1, <1>14, EndFacts DEF AttendeeSave
  <2>2. a \in Rows => row[a].role = seen.role /\ seen.status # "none"
    BY <2>1 DEF IInv, SoundAttendee
  <2>3. Rows' = Rows /\ \A b \in Rows : row'[b].role = row[b].role
    BY <1>1, <2>1, <2>2 DEF Rows
  <2> QED BY <1>1, <1>2, <2>1, <2>3, QuietKeepsBalance
<1> QED BY <1>4, <1>5, <1>6, <1>7, <1>8, <1>9, <1>10, <1>11, <1>12, <1>13, <1>14 DEF Continue

\* The count never ceases to drift.
LEMMA DriftStays ==
    ASSUME [Next]_vars, ~drift'
    PROVE  ~drift
BY DEF Next, Serve, Continue, vars, Create, UpdateFind, CancelFind, StartFind, EndFind,
       RegenerateFind, RegisterFind, JoinLinkBegin, JoinBegin, UnregisterFind, LeaveFind, RateFind,
       JobFind, BeginJoin, BeginAttendee, BeginSave, HostFind, RegisterExists, RegisterCount,
       RegisterInsert, RegisterInsertFails, RemoveRow, Decrement, Floor, JoinLinkFind,
       AttendeeSave, JoinFind, JoinUpdate, JoinLive, SessionSave, SessionSaveRefused, LeaveAll, Tick

LEMMA BalanceInductive == IInv /\ IInv' /\ Balanced /\ [Next]_vars => Balanced'
<1> SUFFICES ASSUME IInv, IInv', Balanced, [Next]_vars PROVE Balanced'
  OBVIOUS
<1>1. CASE drift'
  BY <1>1 DEF Balanced, SeatsMatch, SeatsWithinCapacityUnlessDrifted
<1>2. CASE ~drift'
  <2>1. ~drift
    BY <1>2, DriftStays
  <2>2. ASSUME NEW p \in Proc, Serve(p) PROVE Balanced'
    BY <2>2, BeginKeepsBalance DEF Actor
  <2>3. CASE JobFind
    BY <2>3, BeginKeepsBalance DEF Actor
  <2>4. ASSUME NEW p \in Actor, Continue(p) PROVE Balanced'
    <3>1. CASE RegisterCount(p) /\ Goto(p, "insert")
      <4>1. /\ req[p].pc = "count" /\ UNCHANGED row
            /\ \/ End(p)
               \/ /\ req[p].seen.role = "host" \/ session.registered < session.max
                  /\ session' = [session EXCEPT !.registered = @ + 1]
        BY <3>1 DEF RegisterCount
      <4>2. ~ End(p)
        <5>1. req'[p].pc = "insert"
          BY <3>1, GotoFacts, TypeFacts DEF Registering
        <5> QED BY <5>1, EndFacts, TypeFacts
      <4> QED BY <2>1, <3>1, <4>1, <4>2, CountKeepsBalance
    <3> QED BY <1>2, <2>1, <2>4, <3>1, InsertKeepsBalance, RemoveKeepsBalance,
               DecrementKeepsBalance, QuietSteps
  <2>5. CASE Tick \/ UNCHANGED vars
    <3>1. UNCHANGED <<session, row, req, drift>>
      BY <2>5 DEF Tick, vars
    <3> QED BY <3>1 DEF Balanced, SeatsMatch, SeatsWithinCapacityUnlessDrifted, Rows, Participants, At
  <2> QED BY <2>2, <2>3, <2>4, <2>5 DEF Next
<1> QED BY <1>1, <1>2

LEMMA InitBalanced == Init => Balanced
<1> SUFFICES ASSUME Init PROVE Balanced
  OBVIOUS
<1>1. /\ Rows = {} /\ Participants = {} /\ At("insert") = {} /\ At("decrement") = {} /\ Placing = {}
  BY DEF Init, Rows, Participants, At, Placing, Idle, NoAttendee
<1>2. session.registered = 0 /\ session.max = 0
  BY DEF Init, NoSession
<1>3. /\ Cardinality(Rows) = 0 /\ Cardinality(Participants) = 0 /\ Cardinality(Placing) = 0
      /\ Cardinality(At("insert")) = 0 /\ Cardinality(At("decrement")) = 0
  BY <1>1, FS_EmptySet
<1> QED BY <1>2, <1>3 DEF Balanced, SeatsMatch, SeatsWithinCapacityUnlessDrifted, Placing

LEMMA AlwaysBalanced == Spec => []Balanced
BY InitBalanced, BalanceInductive, Strengthening, PTL DEF Spec

\* registeredCount is the number of attendees and of the registrations and withdrawals
\* half done, but for the drifts the model names: counting first and inserting after,
\* removing first and counting after, loses nothing by interleaving alone.
THEOREM Seats == Spec => []SeatsMatch
<1>1. Balanced => SeatsMatch
  BY DEF Balanced
<1> QED BY <1>1, AlwaysBalanced, PTL

\* Without a drift the participants, with those about to be inserted, are within the
\* capacity (the conditional UPDATE of registerAttendee).
THEOREM Capacity == Spec => []SeatsWithinCapacityUnlessDrifted
<1>1. Balanced => SeatsWithinCapacityUnlessDrifted
  BY DEF Balanced
<1> QED BY <1>1, AlwaysBalanced, PTL

(***************************************************************************)
(* The end of a session                                                    *)
(***************************************************************************)
LEMMA EndedInductive == IInv /\ EndedLeavesNobody /\ [Next]_vars => EndedLeavesNobody'
<1> SUFFICES ASSUME IInv, EndedLeavesNobody, [Next]_vars,
                    session'.status = "ended", At("leaveAll")' = {},
                    NEW a \in Att, a \in Rows', row'[a].status = "joined"
             PROVE  row'[a].user \in late'
  BY DEF EndedLeavesNobody, Rows
<1>1. TypeOK /\ session \in SessionRow /\ row \in [Att -> AttendeeRow]
  BY TypeFacts
\* Steps that add nobody to those JOINED, and leave the session as it is.
<1>2. ASSUME NEW p \in Actor, req[p].pc # "leaveAll", Others(p), session.status = "ended",
             row'[a] = row[a], late \subseteq late'
      PROVE  row'[a].user \in late'
  <2>1. At("leaveAll") = {}
    BY <1>2 DEF At, Others
  <2>2. a \in Rows
    BY <1>2 DEF Rows
  <2> QED BY <1>2, <2>1, <2>2 DEF EndedLeavesNobody
<1>3. ASSUME NEW p \in Actor, Serve(p) \/ (p = Job /\ JobFind) PROVE row'[a].user \in late'
  <2>1. req[p].pc = "idle" /\ Others(p) /\ UNCHANGED <<row, late>> /\ (Create(p) \/ UNCHANGED session)
    BY <1>1, <1>3, BeginFacts
  <2>2. ~ Create(p)
    BY DEF Create, NoSession
  <2> QED BY <1>2, <2>1, <2>2
<1>4. ASSUME NEW p \in Actor, Continue(p) PROVE row'[a].user \in late'
  <2>1. CASE HostFind(p) \/ RegisterExists(p) \/ RegisterCount(p)
    <3>1. /\ UNCHANGED <<row, late>> /\ req[p].pc \in {"find", "exists", "count"}
          /\ session' = session \/ session' = [session EXCEPT !.registered = @ + 1]
          /\ End(p) \/ \E step \in Registering : Goto(p, step)
      BY <2>1 DEF HostFind, RegisterExists, RegisterCount, Registering
    <3>2. Others(p)
      BY <1>1, <3>1, EndFacts, GotoFacts
    <3>3. session.status = "ended"
      BY <1>1, <3>1 DEF SessionRow
    <3> QED BY <1>2, <3>1, <3>2, <3>3
  <2>2. CASE RegisterInsertFails(p) \/ Decrement(p) \/ Floor(p) \/ SessionSaveRefused(p)
    <3>1. /\ UNCHANGED <<row, late>> /\ req[p].pc \in {"insert", "decrement", "floor", "save", "endSave"}
          /\ \E step \in Forgotten : Finish(p, step)
      BY <2>2 DEF RegisterInsertFails, Decrement, Floor, SessionSaveRefused, End, Forgotten
    <3>2. \/ session' = session \/ session' = [session EXCEPT !.registered = @ - 1]
          \/ session' = [session EXCEPT !.registered = 0]
      BY <2>2 DEF RegisterInsertFails, Decrement, Floor, SessionSaveRefused
    <3>3. Others(p)
      BY <1>1, <3>1, FinishFacts DEF Forgotten
    <3>4. session.status = "ended"
      BY <1>1, <3>2 DEF SessionRow
    <3> QED BY <1>2, <3>1, <3>3, <3>4
  <2>3. CASE JoinLinkFind(p) \/ JoinFind(p)
    <3>1. UNCHANGED <<session, row, late>> /\ req[p].pc \in {"linkFind", "joinFind"}
      BY <2>3 DEF JoinLinkFind, JoinFind
    <3>2. Others(p)
      BY <1>1, <2>3, EndFacts DEF JoinLinkFind, JoinFind, Others, TypeOK
    <3> QED BY <1>2, <3>1, <3>2
  <2>4. CASE RegisterInsert(p)
    <3>1. UNCHANGED <<session, late>> /\ req[p].pc = "insert" /\ Others(p)
      BY <1>1, <2>4, EndFacts DEF RegisterInsert
    <3>2. req[p].seen.status = "registered"
      BY <3>1 DEF IInv, SoundAttendee, Registering
    <3>3. row'[a] = row[a]
      BY <1>1, <2>4, <3>2 DEF RegisterInsert
    <3> QED BY <1>2, <3>1, <3>3
  <2>5. CASE RemoveRow(p)
    <3>1. UNCHANGED <<session, late>> /\ req[p].pc = "remove" /\ Others(p)
      BY <1>1, <2>5, FinishFacts DEF RemoveRow
    <3>2. row'[a] = row[a]
      BY <1>1, <2>5 DEF RemoveRow, NoAttendee
    <3> QED BY <1>2, <3>1, <3>2
  <2>6. CASE AttendeeSave(p)
    <3>1. UNCHANGED session /\ req[p].pc = "attSave" /\ Others(p)
      BY <1>1, <2>6, EndFacts DEF AttendeeSave
    <3>2. late \subseteq late'
      BY <2>6 DEF AttendeeSave
    <3>3. CASE row'[a] = row[a]
      BY <1>2, <3>1, <3>2, <3>3
    <3>4. CASE row'[a] # row[a]
      <4>1. /\ ~(req[p].att \notin Rows /\ RowsOf(req[p].seen.user) # {})
            /\ row'[a] = req[p].seen
        BY <1>1, <2>6, <3>4 DEF AttendeeSave
      <4> QED BY <2>6, <3>1, <4>1 DEF AttendeeSave, Over
    <3> QED BY <3>3, <3>4
  <2>7. CASE JoinUpdate(p)
    <3>1. UNCHANGED session /\ req[p].pc = "joinUpdate" /\ Others(p)
      BY <1>1, <2>7, EndFacts, GotoFacts DEF JoinUpdate, Attending
    <3>2. late' = late \cup {req[p].seen.user}
      BY <2>7, <3>1 DEF JoinUpdate, Over
    <3>3. row'[a].user = row[a].user
      BY <1>1, <2>7 DEF JoinUpdate, AttendeeRow
    <3>4. CASE a \in RowsOf(req[p].seen.user)
      BY <3>2, <3>3, <3>4 DEF RowsOf
    <3>5. CASE a \notin RowsOf(req[p].seen.user)
      <4>1. row'[a] = row[a]
        BY <2>7, <3>5 DEF JoinUpdate
      <4> QED BY <1>2, <3>1, <3>2, <4>1
    <3> QED BY <3>4, <3>5
  <2>8. CASE SessionSave(p)
    <3>1. req[p].pc \in {"save", "endSave"} /\ req[p].entity.status = "ended"
      BY <2>8 DEF SessionSave
    <3>2. req[p].pc = "endSave"
      BY <3>1 DEF IInv, SoundSession
    <3>3. req'[p].pc = "leaveAll"
      BY <1>1, <2>8, <3>2, FinishFacts DEF SessionSave
    <3> QED BY <3>3 DEF At
  <2>9. CASE JoinLive(p)
    BY <1>1, <2>9 DEF JoinLive, SessionRow
  <2>10. CASE LeaveAll(p)
    BY <1>1, <2>10 DEF LeaveAll, AttendeeRow
  <2> QED BY <1>4, <2>1, <2>2, <2>3, <2>4, <2>5, <2>6, <2>7, <2>8, <2>9, <2>10 DEF Continue
<1>5. CASE Tick \/ UNCHANGED vars
  <2>1. UNCHANGED <<session, row, req, late>>
    BY <1>5 DEF Tick, vars
  <2> QED BY <2>1 DEF EndedLeavesNobody, At, Rows
<1> QED BY <1>3, <1>4, <1>5 DEF Next, Actor

\* In a session that has ended nobody is JOINED but by a write that came when it was over:
\* one that was READ before is not excused, and neither is a second end.
THEOREM Ended == Spec => []EndedLeavesNobody
<1>1. Init => EndedLeavesNobody
  BY DEF Init, EndedLeavesNobody, NoSession
<1> QED BY <1>1, EndedInductive, Strengthening, PTL DEF Spec

\* A session that is over goes on only through a request that found it before it was over.
THEOREM Resumed == Spec => ResumedOnlyByStale
<1>1. ASSUME IInv, [Next]_vars, session.status \in Over, session'.status \notin Over
      PROVE  \E p \in Actor : req'[p] # req[p] /\ req[p].read \notin Over
  <2>1. session \in SessionRow /\ TypeOK
    BY <1>1, TypeFacts
  <2>2. PICK p \in Actor : SessionSave(p) \/ JoinLive(p)
    <3>1. ASSUME NEW p \in Actor, Serve(p) \/ (p = Job /\ JobFind) PROVE FALSE
      BY <1>1, <2>1, <3>1, BeginFacts DEF Create, Over
    <3>2. ASSUME NEW p \in Actor, Continue(p), ~ SessionSave(p), ~ JoinLive(p) PROVE FALSE
      <4>1. \/ session' = session
            \/ session' = [session EXCEPT !.registered = @ + 1]
            \/ session' = [session EXCEPT !.registered = @ - 1]
            \/ session' = [session EXCEPT !.registered = 0]
        BY <3>2 DEF Continue, HostFind, RegisterExists, RegisterCount, RegisterInsert,
           RegisterInsertFails, RemoveRow, Decrement, Floor, JoinLinkFind, AttendeeSave, JoinFind,
           JoinUpdate, SessionSaveRefused, LeaveAll
      <4> QED BY <1>1, <2>1, <4>1 DEF SessionRow
    <3>3. ~ Tick /\ vars' # vars
      BY <1>1 DEF Tick, vars
    <3> QED BY <1>1, <3>1, <3>2, <3>3 DEF Next, Actor
  <2>3. CASE SessionSave(p)
    <3>1. req[p].pc \in {"save", "endSave"} /\ req[p].entity.status \notin Over
      BY <1>1, <2>3 DEF SessionSave
    <3>2. req[p].read \notin Over
      BY <1>1, <3>1 DEF IInv, SoundSession
    <3>3. req'[p].pc \in {"idle", "leaveAll"}
      BY <2>1, <2>3, FinishFacts DEF SessionSave, End
    <3> QED BY <3>1, <3>2, <3>3
  <2>4. CASE JoinLive(p)
    <3>1. req[p].pc = "joinLive" /\ req'[p].pc = "idle"
      BY <2>1, <2>4, EndFacts DEF JoinLive
    <3>2. req[p].read = "scheduled"
      BY <1>1, <3>1 DEF IInv, SoundSession
    <3> QED BY <3>1, <3>2 DEF Over
  <2> QED BY <2>2, <2>3, <2>4
<1> QED BY <1>1, Strengthening, PTL DEF Spec, ResumedOnlyByStale
=============================================================================
