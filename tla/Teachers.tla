------------------------------ MODULE Teachers ------------------------------
(***************************************************************************)
(* TeachersService: one teacher's profile with its wallet, published       *)
(* hours, bookings, reviews, packages and withdrawals. Teachers share no   *)
(* row, so one is enough.                                                  *)
(*                                                                         *)
(* The money is moved by a guarded statement when it is asked for, and by  *)
(* saving the whole profile when the request is decided; every other       *)
(* change of the profile saves the whole profile too. Each awaited call is *)
(* an action. Requests at hand are the teacher's where the code asks.      *)
(***************************************************************************)
EXTENDS Integers

CONSTANTS
    Booking,      \* booking ids
    Student,
    Withdrawal,   \* withdrawal_requests ids
    Package,
    Proc,         \* requests in progress at the same time
    AmountOf,     \* the amount a withdrawal id is drawn for
    Total,        \* the sum of the amounts of a set of withdrawals
    Starts,       \* half hours at which a booking may start
    Durations,    \* ... and how many of them it may last
    Windows,      \* what the teacher may publish: from, to, recurring
    Credits,      \* what may be paid into the wallet at once
    MaxEarned,    \* bound: nothing is paid in above this
    MaxRequests,  \* bound: requests made
    Null

ASSUME AmountAssumption == AmountOf \in [Withdrawal -> Nat \ {0}]
ASSUME TotalAssumption ==
    /\ Total \in [SUBSET Withdrawal -> Nat]
    /\ Total[{}] = 0
    /\ \A S \in SUBSET Withdrawal : \A w \in Withdrawal \ S : Total[S \cup {w}] = Total[S] + AmountOf[w]
ASSUME TimesAssumption == Starts \subseteq Nat /\ Durations \subseteq Nat \ {0}
ASSUME WindowsAssumption == Windows \subseteq [from : Nat, to : Nat, recurring : BOOLEAN]
ASSUME CreditAssumption == Credits \subseteq Nat /\ MaxEarned \in Nat
ASSUME BoundAssumption == MaxRequests \in Nat
ASSUME NullAssumption == Null \notin Student \cup Withdrawal \cup Booking

VARIABLES
    role,        \* users.role of the teacher's account
    profile,     \* the teacher_profiles row
    hours,       \* teacher_availability: the published windows
    booking,     \* teacher_bookings
    reviews,     \* teacher_reviews: how many
    package,     \* subscription_packages: active or not
    withdrawal,  \* withdrawal_requests
    req,         \* the requests in progress
    made,        \* requests made so far
    earned,      \* history: everything that was paid in
    met,         \* history: <<a, b>> if a was CONFIRMED when the slot of b was checked
    moved,       \* history: bookings that came from a reschedule
    mishap       \* history: what has befallen the wallet

vars == <<role, profile, hours, booking, reviews, package, withdrawal, req, made,
          earned, met, moved, mishap>>
history == <<earned, met, moved, mishap>>

Profile == [status : {"none", "pending", "approved", "suspended"},
            current : Int, frozen : Int, withdrawn : Int, sessions : Nat, ratings : Nat]
NoProfile == [status |-> "none", current |-> 0, frozen |-> 0, withdrawn |-> 0, sessions |-> 0, ratings |-> 0]
Money(r) == <<r.current, r.frozen, r.withdrawn>>

BookingRow == [status : {"none", "pending", "confirmed", "cancelled", "completed", "rescheduled"},
               student : Student \cup {Null}, start : Nat, length : Nat]
NoBooking == [status |-> "none", student |-> Null, start |-> 0, length |-> 0]
WithdrawalStatus == {"none", "pending", "approved", "rejected"}
PackageStatus == {"none", "active", "inactive"}

AccountSteps == {"promote", "accountFind", "accountInsert", "find", "insert", "approve", "profileSave"}
HourSteps == {"hoursDelete", "hoursInsert"}
BookingSteps == {"bookHours", "bookCheck", "bookInsert", "bookingSave", "completeSave", "completeCount",
                 "rescheduleSave", "rescheduleInsert"}
ReviewSteps == {"reviewInsert", "ratingRead", "ratingUpdate"}
DecisionSteps == {"decideProfile", "decideSave", "settle"}
MoneySteps == DecisionSteps \cup {"withdrawInsert"}
\* draft is the booking a request has read, changed or is about to insert, entity the
\* profile it is about to save and read that profile as it was found.
Request == [pc : {"idle", "packageSave"} \cup AccountSteps \cup HourSteps \cup BookingSteps
                 \cup ReviewSteps \cup MoneySteps,
            id : Booking \cup Withdrawal \cup Package \cup {Null}, draft : BookingRow,
            entity : Profile, read : Profile, hours : SUBSET Windows, count : Nat,
            verdict : WithdrawalStatus \cup PackageStatus]
Idle == [pc |-> "idle", id |-> Null, draft |-> NoBooking, entity |-> NoProfile, read |-> NoProfile,
         hours |-> {}, count |-> 0, verdict |-> "none"]

\* A teacher who is still to come, or one who was approved some time ago.
Init ==
    /\ \/ role = "none" /\ profile = NoProfile /\ hours = {}
       \/ role = "teacher" /\ profile = [NoProfile EXCEPT !.status = "approved"] /\ hours \in {{w} : w \in Windows}
    /\ booking = [b \in Booking |-> NoBooking]
    /\ reviews = 0
    /\ package = [k \in Package |-> "none"]
    /\ withdrawal = [w \in Withdrawal |-> "none"]
    /\ req = [p \in Proc |-> Idle]
    /\ made = 0
    /\ earned = 0
    /\ met = {}
    /\ moved = {}
    /\ mishap = {}

Goto(p, step) == req' = [req EXCEPT ![p].pc = step]
End(p) == req' = [req EXCEPT ![p] = Idle]
Begin(p, request) == req[p].pc = "idle" /\ req' = [req EXCEPT ![p] = request]
IsUnused(i) == \A q \in Proc : req[q].id # i

(***************************************************************************)
(* Accounts and profiles                                                   *)
(***************************************************************************)
\* createTeacherAccount(): register() makes a student, ...
AccountBegin(p) ==
    /\ role = "none"
    /\ role' = "student"
    /\ Begin(p, [Idle EXCEPT !.pc = "promote"])
    /\ UNCHANGED <<profile, hours, booking, reviews, package, withdrawal, history>>

\* Mutant: the role is left to register().
AccountPromote_Forgotten(p) ==
    /\ req[p].pc = "promote"
    /\ Goto(p, "accountFind")
    /\ UNCHANGED <<role, profile, hours, booking, reviews, package, withdrawal, made, history>>

\* ... who is promoted; ...
AccountPromote(p) ==
    /\ req[p].pc = "promote"
    /\ role' = "teacher"
    /\ Goto(p, "accountFind")
    /\ UNCHANGED <<profile, hours, booking, reviews, package, withdrawal, made, history>>

\* createProfile(), by the teacher.
ProfileBegin(p) ==
    /\ role = "teacher"
    /\ profile.status = "none"
    /\ Begin(p, [Idle EXCEPT !.pc = "insert"])
    /\ UNCHANGED <<role, profile, hours, booking, reviews, package, withdrawal, history>>

\* ... createProfile() looks for one: 'Teacher profile already exists'.
AccountFind(p) ==
    /\ req[p].pc = "accountFind"
    /\ IF profile.status = "none" THEN Goto(p, "accountInsert") ELSE End(p)
    /\ UNCHANGED <<role, profile, hours, booking, reviews, package, withdrawal, made, history>>

\* The insert; userId is unique. createTeacherAccount() then approves the entity it holds.
ProfileInsert(p) ==
    LET new == [NoProfile EXCEPT !.status = "pending"] IN
    /\ req[p].pc \in {"insert", "accountInsert"}
    /\ profile' = IF profile.status = "none" THEN new ELSE profile
    /\ IF profile.status = "none" /\ req[p].pc = "accountInsert"
       THEN req' = [req EXCEPT ![p] = [Idle EXCEPT !.pc = "profileSave", !.read = new,
                                                   !.entity = [new EXCEPT !.status = "approved"]]]
       ELSE End(p)
    /\ UNCHANGED <<role, hours, booking, reviews, package, withdrawal, made, history>>

\* updateProfile(), approveTeacher(), suspendTeacher(): the profile is found ...
ProfileFind(p) ==
    /\ profile.status # "none"
    /\ \E status \in {profile.status, "approved", "suspended"} :
           Begin(p, [Idle EXCEPT !.pc = "profileSave", !.read = profile,
                                 !.entity = [profile EXCEPT !.status = status]])
    /\ UNCHANGED <<role, profile, hours, booking, reviews, package, withdrawal, history>>

\* A save of the whole profile, whatever the row has become since it was found.
Overwrite(p) ==
    /\ profile' = req[p].entity
    /\ mishap' = IF Money(profile) = Money(req[p].read) THEN mishap ELSE mishap \cup {"stale"}
    /\ End(p)
    /\ UNCHANGED <<role, hours, booking, reviews, package, withdrawal, made, earned, met, moved>>

\* ... and saved.
ProfileSave(p) == req[p].pc = "profileSave" /\ Overwrite(p)

(***************************************************************************)
(* Hours and slots                                                         *)
(***************************************************************************)
\* setAvailability(): the recurring windows are deleted, the new ones inserted.
HoursBegin(p, published) ==
    /\ profile.status # "none"
    /\ Begin(p, [Idle EXCEPT !.pc = "hoursDelete", !.hours = published])
    /\ UNCHANGED <<role, profile, hours, booking, reviews, package, withdrawal, history>>

HoursDelete(p) ==
    /\ req[p].pc = "hoursDelete"
    /\ hours' = {w \in hours : ~w.recurring}
    /\ Goto(p, "hoursInsert")
    /\ UNCHANGED <<role, profile, booking, reviews, package, withdrawal, made, history>>

HoursInsert(p) ==
    /\ req[p].pc = "hoursInsert"
    /\ hours' = hours \cup req[p].hours
    /\ End(p)
    /\ UNCHANGED <<role, profile, booking, reviews, package, withdrawal, made, history>>

\* Mutant: only a booking that starts at the same time is in the way.
Overlap_SameStart(a, b) == a.start = b.start

Overlap(a, b) == a.start < b.start + b.length /\ b.start < a.start + a.length

Confirmed == {b \in Booking : booking[b].status = "confirmed"}

\* getAvailableSlots(): every half hour from which the booking fits into a window and
\* meets no confirmed one.
IsAvailable(windows, draft) ==
    /\ \E w \in windows : w.from <= draft.start /\ draft.start + draft.length <= w.to
    /\ \A a \in Confirmed : ~Overlap(booking[a], draft)

(***************************************************************************)
(* Bookings                                                                *)
(***************************************************************************)
\* createBooking(): 'Teacher is not available' unless approved; ...
BookFind(p, b, s) ==
    /\ profile.status = "approved"
    /\ booking[b].status = "none" /\ IsUnused(b)
    /\ \E t \in Starts, n \in Durations :
           Begin(p, [Idle EXCEPT !.pc = "bookHours", !.id = b,
                                 !.draft = [status |-> "pending", student |-> s, start |-> t, length |-> n]])
    /\ UNCHANGED <<role, profile, hours, booking, reviews, package, withdrawal, history>>

\* ... the windows, ...
BookHours(p) ==
    /\ req[p].pc = "bookHours"
    /\ req' = [req EXCEPT ![p].pc = "bookCheck", ![p].hours = hours]
    /\ UNCHANGED <<role, profile, hours, booking, reviews, package, withdrawal, made, history>>

\* ... the confirmed bookings ...
BookCheck(p) ==
    /\ req[p].pc = "bookCheck"
    /\ IsAvailable(req[p].hours, req[p].draft)
    /\ met' = met \cup (Confirmed \X {req[p].id})
    /\ req' = [req EXCEPT ![p].pc = "bookInsert", ![p].hours = {}]
    /\ UNCHANGED <<role, profile, hours, booking, reviews, package, withdrawal, made, earned, moved, mishap>>

\* ('Selected time slot is not available'; the hour may also have passed)
BookRefused(p) ==
    /\ req[p].pc = "bookCheck"
    /\ End(p)
    /\ UNCHANGED <<role, profile, hours, booking, reviews, package, withdrawal, made, history>>

\* ... and the insert.
BookInsert(p) ==
    /\ req[p].pc = "bookInsert"
    /\ booking' = [booking EXCEPT ![req[p].id] = req[p].draft]
    /\ End(p)
    /\ UNCHANGED <<role, profile, hours, reviews, package, withdrawal, made, history>>

\* The booking is found, and saved with another status. Nothing is asked of the status it
\* has but by cancelBooking(): 'Cannot cancel completed booking'.
BookingFind(p, b, status, step) ==
    /\ booking[b].status # "none"
    /\ status = "cancelled" => booking[b].status # "completed"
    /\ Begin(p, [Idle EXCEPT !.pc = step, !.id = b, !.draft = [booking[b] EXCEPT !.status = status]])
    /\ UNCHANGED <<role, profile, hours, booking, reviews, package, withdrawal, history>>

ConfirmFind(p, b) == BookingFind(p, b, "confirmed", "bookingSave")
CancelFind(p, b) == BookingFind(p, b, "cancelled", "bookingSave")
CompleteFind(p, b) == BookingFind(p, b, "completed", "completeSave")
RescheduleFind(p, b) == BookingFind(p, b, "rescheduled", "rescheduleSave")

BookingSave(p) ==
    /\ req[p].pc = "bookingSave"
    /\ booking' = [booking EXCEPT ![req[p].id] = req[p].draft]
    /\ End(p)
    /\ UNCHANGED <<role, profile, hours, reviews, package, withdrawal, made, history>>

CompleteSave(p) ==
    /\ req[p].pc = "completeSave"
    /\ booking' = [booking EXCEPT ![req[p].id] = req[p].draft]
    /\ req' = [req EXCEPT ![p] = [Idle EXCEPT !.pc = "completeCount"]]
    /\ UNCHANGED <<role, profile, hours, reviews, package, withdrawal, made, history>>

\* increment() of totalSessions.
CompleteCount(p) ==
    /\ req[p].pc = "completeCount"
    /\ profile' = [profile EXCEPT !.sessions = @ + 1]
    /\ End(p)
    /\ UNCHANGED <<role, hours, booking, reviews, package, withdrawal, made, history>>

RescheduleSave(p) ==
    /\ req[p].pc = "rescheduleSave"
    /\ booking' = [booking EXCEPT ![req[p].id] = req[p].draft]
    /\ Goto(p, "rescheduleInsert")
    /\ UNCHANGED <<role, profile, hours, reviews, package, withdrawal, made, history>>

\* The new booking is CONFIRMED at any time the caller likes.
RescheduleInsert(p) ==
    /\ req[p].pc = "rescheduleInsert"
    /\ \E b \in Booking, t \in Starts :
          /\ booking[b].status = "none" /\ IsUnused(b)
          /\ booking' = [booking EXCEPT ![b] = [req[p].draft EXCEPT !.status = "confirmed", !.start = t]]
          /\ moved' = moved \cup {b}
    /\ End(p)
    /\ UNCHANGED <<role, profile, hours, reviews, package, withdrawal, made, earned, met, mishap>>

(***************************************************************************)
(* Reviews and packages                                                    *)
(***************************************************************************)
\* createReview(): 'Must complete a session before reviewing'; ...
ReviewFind(p, s) ==
    /\ \E b \in Booking : booking[b].status = "completed" /\ booking[b].student = s
    /\ Begin(p, [Idle EXCEPT !.pc = "reviewInsert"])
    /\ UNCHANGED <<role, profile, hours, booking, reviews, package, withdrawal, history>>

ReviewInsert(p) ==
    /\ req[p].pc = "reviewInsert"
    /\ reviews' = reviews + 1
    /\ Goto(p, "ratingRead")
    /\ UNCHANGED <<role, profile, hours, booking, package, withdrawal, made, history>>

\* ... updateTeacherRating() counts the reviews and writes what it has counted.
RatingRead(p) ==
    /\ req[p].pc = "ratingRead"
    /\ req' = [req EXCEPT ![p].pc = "ratingUpdate", ![p].count = reviews]
    /\ UNCHANGED <<role, profile, hours, booking, reviews, package, withdrawal, made, history>>

RatingUpdate(p) ==
    /\ req[p].pc = "ratingUpdate"
    /\ profile' = [profile EXCEPT !.ratings = req[p].count]
    /\ End(p)
    /\ UNCHANGED <<role, hours, booking, reviews, package, withdrawal, made, history>>

PackageCreate(k) ==
    /\ profile.status # "none"
    /\ package[k] = "none"
    /\ package' = [package EXCEPT ![k] = "active"]
    /\ UNCHANGED <<role, profile, hours, booking, reviews, withdrawal, req, history>>

\* togglePackage(), and updatePackage(), which keeps isActive: find, save.
PackageFind(p, k) ==
    /\ package[k] # "none"
    /\ \E status \in {"active", "inactive"} :
           Begin(p, [Idle EXCEPT !.pc = "packageSave", !.id = k, !.verdict = status])
    /\ UNCHANGED <<role, profile, hours, booking, reviews, package, withdrawal, history>>

PackageSave(p) ==
    /\ req[p].pc = "packageSave"
    /\ package' = [package EXCEPT ![req[p].id] = req[p].verdict]
    /\ End(p)
    /\ UNCHANGED <<role, profile, hours, booking, reviews, withdrawal, made, history>>

(***************************************************************************)
(* The wallet                                                              *)
(***************************************************************************)
\* Nothing in the repository raises a balance: who pays teachers does it in the database.
Credit ==
    /\ profile.status # "none"
    /\ \E amount \in Credits :
          /\ earned + amount <= MaxEarned
          /\ profile' = [profile EXCEPT !.current = @ + amount]
          /\ earned' = earned + amount
    /\ UNCHANGED <<role, hours, booking, reviews, package, withdrawal, req, made, met, moved, mishap>>

Freeze(w) == [profile EXCEPT !.current = @ - AmountOf[w], !.frozen = @ + AmountOf[w]]

\* Mutant: the balance is not part of the UPDATE's condition.
WithdrawFreeze_Unguarded(p, w) ==
    /\ profile.status # "none"
    /\ withdrawal[w] = "none" /\ IsUnused(w)
    /\ profile' = Freeze(w)
    /\ Begin(p, [Idle EXCEPT !.pc = "withdrawInsert", !.id = w])
    /\ UNCHANGED <<role, hours, booking, reviews, package, withdrawal, history>>

\* requestWithdrawal(): one UPDATE ... WHERE currentBalance >= amount, ...
WithdrawFreeze(p, w) ==
    /\ profile.status # "none"
    /\ withdrawal[w] = "none" /\ IsUnused(w)
    /\ profile.current >= AmountOf[w]
    /\ profile' = Freeze(w)
    /\ Begin(p, [Idle EXCEPT !.pc = "withdrawInsert", !.id = w])
    /\ UNCHANGED <<role, hours, booking, reviews, package, withdrawal, history>>

\* ... then the request's insert.
WithdrawInsert(p) ==
    /\ req[p].pc = "withdrawInsert"
    /\ withdrawal' = [withdrawal EXCEPT ![req[p].id] = "pending"]
    /\ End(p)
    /\ UNCHANGED <<role, profile, hours, booking, reviews, package, made, history>>

\* processWithdrawalRequest(): 'Request already processed' unless PENDING; ...
DecideFind(p, w, verdict) ==
    /\ withdrawal[w] = "pending"
    /\ Begin(p, [Idle EXCEPT !.pc = "decideProfile", !.id = w, !.verdict = verdict])
    /\ UNCHANGED <<role, profile, hours, booking, reviews, package, withdrawal, history>>

Settled(r, w, verdict) ==
    IF verdict = "approved"
    THEN [r EXCEPT !.frozen = @ - AmountOf[w], !.withdrawn = @ + AmountOf[w]]
    ELSE [r EXCEPT !.frozen = @ - AmountOf[w], !.current = @ + AmountOf[w]]

\* ... the profile is found and reckoned with in memory; ...
DecideProfile(p) ==
    /\ req[p].pc = "decideProfile"
    /\ req' = [req EXCEPT ![p].pc = "decideSave", ![p].read = profile,
                          ![p].entity = Settled(profile, req[p].id, req[p].verdict)]
    /\ UNCHANGED <<role, profile, hours, booking, reviews, package, withdrawal, made, history>>

\* ... the request is saved, whatever it has become, ...
DecideSave(p) ==
    LET w == req[p].id IN
    /\ req[p].pc = "decideSave"
    /\ withdrawal' = [withdrawal EXCEPT ![w] = req[p].verdict]
    /\ mishap' = IF withdrawal[w] = "pending" THEN mishap ELSE mishap \cup {"twice"}
    /\ Goto(p, "settle")
    /\ UNCHANGED <<role, profile, hours, booking, reviews, package, made, earned, met, moved>>

\* ... and then the profile.
Settle(p) == req[p].pc = "settle" /\ Overwrite(p)

\* The process stops, or the second statement fails: nothing takes the first one back.
Halfway(p) ==
    /\ req[p].pc \in {"withdrawInsert", "settle"}
    /\ mishap' = mishap \cup {"halfway"}
    /\ End(p)
    /\ UNCHANGED <<role, profile, hours, booking, reviews, package, withdrawal, made, earned, met, moved>>

(***************************************************************************)
(* The service                                                             *)
(***************************************************************************)
Continue(p) ==
    \/ AccountPromote(p) \/ AccountFind(p) \/ ProfileInsert(p) \/ ProfileSave(p)
    \/ HoursDelete(p) \/ HoursInsert(p)
    \/ BookHours(p) \/ BookCheck(p) \/ BookRefused(p) \/ BookInsert(p)
    \/ BookingSave(p) \/ CompleteSave(p) \/ CompleteCount(p) \/ RescheduleSave(p) \/ RescheduleInsert(p)
    \/ ReviewInsert(p) \/ RatingRead(p) \/ RatingUpdate(p) \/ PackageSave(p)
    \/ WithdrawInsert(p) \/ DecideProfile(p) \/ DecideSave(p) \/ Settle(p) \/ Halfway(p)

\* The routes of TeachersController that change something.
AccountRoute(p) ==
    \/ AccountBegin(p) \/ ProfileBegin(p) \/ ProfileFind(p)
    \/ \E published \in SUBSET Windows : HoursBegin(p, published)

BookingRoute(p) ==
    \/ \E b \in Booking : \/ \E s \in Student : BookFind(p, b, s)
                         \/ ConfirmFind(p, b) \/ CancelFind(p, b)
                         \/ CompleteFind(p, b) \/ RescheduleFind(p, b)
    \/ \E s \in Student : ReviewFind(p, s)

WalletRoute(p) ==
    \/ \E k \in Package : PackageFind(p, k)
    \/ \E w \in Withdrawal : \/ WithdrawFreeze(p, w)
                            \/ \E verdict \in {"approved", "rejected"} : DecideFind(p, w, verdict)

Route(p) == AccountRoute(p) \/ BookingRoute(p) \/ WalletRoute(p)

Serve(p) == Route(p) /\ made < MaxRequests /\ made' = made + 1
Packages == \E k \in Package : PackageCreate(k) /\ made < MaxRequests /\ made' = made + 1

Next ==
    \/ \E p \in Proc : Serve(p) \/ Continue(p)
    \/ Packages
    \/ Credit

Spec == Init /\ [][Next]_vars

(***************************************************************************)
(* Properties                                                              *)
(***************************************************************************)
\* Every variable holds what its row or a request's memory can hold, and only a teacher
\* has a profile.
TypeOK ==
    /\ role \in {"none", "student", "teacher"}
    /\ profile \in Profile
    /\ profile.status # "none" => role = "teacher"
    /\ hours \subseteq Windows
    /\ booking \in [Booking -> BookingRow]
    /\ reviews \in Nat
    /\ package \in [Package -> PackageStatus]
    /\ withdrawal \in [Withdrawal -> WithdrawalStatus]
    /\ req \in [Proc -> Request]
    /\ \A p \in Proc : /\ req[p].pc \in MoneySteps => req[p].id \in Withdrawal
                       /\ req[p].pc \in DecisionSteps => req[p].verdict \in {"approved", "rejected"}
                       /\ req[p].pc \in BookingSteps \ {"completeCount"} => req[p].id \in Booking
                       /\ req[p].pc = "packageSave" => /\ req[p].id \in Package
                                                       /\ req[p].verdict \in PackageStatus
    /\ made \in Nat /\ earned \in Nat
    /\ met \subseteq Booking \X Booking
    /\ moved \subseteq Booking
    /\ mishap \subseteq {"stale", "twice", "halfway"}

\* The half hours a booking takes.
Occupied(a) == a.start..(a.start + a.length - 1)

\* 'Selected time slot is not available' (createBooking): of two confirmed bookings with
\* a half hour in common, one was put there by a reschedule, which checks nothing, or each was checked
\* when the other was not confirmed; no confirmation, cancellation or second confirmation
\* of a booking that was there before leads to it.
BookedOnceUnlessTogether ==
    \A a, b \in Confirmed : a # b /\ Occupied(booking[a]) \cap Occupied(booking[b]) # {} =>
        \/ {a, b} \cap moved # {}
        \/ {<<a, b>>, <<b, a>>} \cap met = {}

\* Money that is asked for, and the request not decided to the end.
OnHold == {w \in Withdrawal : withdrawal[w] = "pending"}
          \cup {req[p].id : p \in {q \in Proc : req[q].pc \in {"withdrawInsert", "settle"}}}
PaidOut == {w \in Withdrawal : withdrawal[w] = "approved"} \ OnHold

\* "Atomic balance check + deduction to prevent race conditions", "Finalize deduction",
\* "Refund" (requestWithdrawal, processWithdrawalRequest): the frozen balance is what is
\* asked for and undecided, the withdrawn total what was approved, all of it was paid in and
\* nobody has withdrawn more than that: unless a profile was saved over a changed wallet,
\* one request was decided twice, or a request stopped half way.
WalletMatches ==
    mishap = {} =>
        /\ profile.frozen = Total[OnHold]
        /\ profile.withdrawn = Total[PaidOut]
        /\ profile.current + profile.frozen + profile.withdrawn = earned
        /\ profile.current >= 0
=============================================================================
