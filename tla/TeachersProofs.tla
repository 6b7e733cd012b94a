--------------------------- MODULE TeachersProofs ---------------------------
(***************************************************************************)
(* What holds of Teachers for any bookings, withdrawals, amounts, windows, *)
(* requests and bounds.                                                    *)
(***************************************************************************)
EXTENDS Teachers, TLAPS

(***************************************************************************)
(* Types                                                                   *)
(***************************************************************************)
\* Until the account is a teacher's there is nothing to find.
NotYet ==
    role # "teacher" =>
        /\ booking = [b \in Booking |-> NoBooking]
        /\ package = [k \in Package |-> "none"]
        /\ withdrawal = [w \in Withdrawal |-> "none"]
        /\ \A p \in Proc : req[p].pc \in {"idle", "promote"}

Typed == TypeOK /\ NotYet

Others(p) == \A q \in Proc \ {p} : req'[q] = req[q]

LEMMA IdleType == Idle \in Request /\ NoProfile \in Profile /\ NoBooking \in BookingRow
BY DEF Idle, NoProfile, NoBooking, Request, Profile, BookingRow, WithdrawalStatus

LEMMA Replaced ==
    ASSUME TypeOK, NEW p \in Proc, NEW r \in Request, req' = [req EXCEPT ![p] = r]
    PROVE  req' \in [Proc -> Request] /\ Others(p) /\ req'[p] = r
BY DEF TypeOK, Others

LEMMA EndFacts ==
    ASSUME TypeOK, NEW p \in Proc, End(p)
    PROVE  req' \in [Proc -> Request] /\ Others(p) /\ req'[p] = Idle /\ req'[p].pc = "idle"
BY IdleType, Replaced DEF End, Idle

LEMMA GotoFacts ==
    ASSUME TypeOK, NEW p \in Proc, NEW step, [req[p] EXCEPT !.pc = step] \in Request, Goto(p, step)
    PROVE  /\ req' \in [Proc -> Request] /\ Others(p)
           /\ req'[p] = [req[p] EXCEPT !.pc = step]
BY DEF TypeOK, Goto, Others

\* The steps a request can be at, and what TypeOK asks of one there.
PcSet == {"idle", "packageSave"} \cup AccountSteps \cup HourSteps \cup BookingSteps \cup ReviewSteps \cup MoneySteps
WellTyped(r) ==
    /\ r \in Request
    /\ r.pc \in MoneySteps => r.id \in Withdrawal
    /\ r.pc \in BookingSteps \ {"completeCount"} => r.id \in Booking
    /\ r.pc \in DecisionSteps => r.verdict \in {"approved", "rejected"}
    /\ r.pc = "packageSave" => r.id \in Package /\ r.verdict \in PackageStatus

LEMMA IdleWellTyped == WellTyped(Idle)
BY IdleType DEF WellTyped, Idle, MoneySteps, DecisionSteps, BookingSteps

\* A step of p, put together.
LEMMA Assembled ==
    ASSUME Typed, NEW p \in Proc, NEW r, WellTyped(r), req' = [req EXCEPT ![p] = r],
           role' \in {"none", "student", "teacher"}, profile' \in Profile,
           profile'.status # "none" => role' = "teacher",
           hours' \subseteq Windows, booking' \in [Booking -> BookingRow], reviews' \in Nat,
           package' \in [Package -> PackageStatus], withdrawal' \in [Withdrawal -> WithdrawalStatus],
           made' \in Nat, earned' \in Nat, met' \subseteq Booking \X Booking, moved' \subseteq Booking,
           mishap' \subseteq {"stale", "twice", "halfway"},
           role = "teacher" => role' = "teacher",
           role' # "teacher" => r.pc \in {"idle", "promote"} /\ UNCHANGED <<booking, package, withdrawal>>
    PROVE  Typed'
<1>1. req' \in [Proc -> Request] /\ Others(p) /\ req'[p] = r
  BY Replaced DEF Typed, WellTyped
<1>2. \A q \in Proc : WellTyped(req'[q])
  <2> SUFFICES ASSUME NEW q \in Proc PROVE WellTyped(req'[q])
    OBVIOUS
  <2>1. CASE q = p
    BY <1>1, <2>1
  <2>2. CASE q # p
    BY <1>1, <2>2 DEF Others, Typed, TypeOK, WellTyped
  <2> QED BY <2>1, <2>2
<1>3. TypeOK'
  BY <1>1, <1>2 DEF TypeOK, WellTyped
<1>4. NotYet'
  BY <1>1 DEF Typed, NotYet, Others
<1> QED BY <1>3, <1>4 DEF Typed

LEMMA TypeFacts ==
    ASSUME Typed
    PROVE  /\ TypeOK
           /\ role \in {"none", "student", "teacher"} /\ profile \in Profile
           /\ profile.status # "none" => role = "teacher"
           /\ hours \subseteq Windows /\ booking \in [Booking -> BookingRow] /\ reviews \in Nat
           /\ package \in [Package -> PackageStatus] /\ withdrawal \in [Withdrawal -> WithdrawalStatus]
           /\ made \in Nat /\ earned \in Nat /\ met \subseteq Booking \X Booking /\ moved \subseteq Booking
           /\ mishap \subseteq {"stale", "twice", "halfway"}
           /\ \A p \in Proc : WellTyped(req[p]) /\ (role # "teacher" => req[p].pc \in {"idle", "promote"})
BY DEF Typed, TypeOK, NotYet, WellTyped

\* A request that changes nothing but itself.
LEMMA RequestOnly ==
    ASSUME Typed, NEW p \in Proc, NEW r, WellTyped(r), req' = [req EXCEPT ![p] = r], made' \in Nat,
           role = "teacher" \/ r.pc \in {"idle", "promote"},
           UNCHANGED <<role, profile, hours, booking, reviews, package, withdrawal, history>>
    PROVE  Typed'
BY Assembled, TypeFacts DEF history

\* Moving money leaves a profile well typed.
LEMMA MoneyTyped ==
    ASSUME NEW r \in Profile, NEW a \in Nat
    PROVE  /\ [r EXCEPT !.current = @ - a, !.frozen = @ + a] \in Profile
           /\ [r EXCEPT !.frozen = @ - a, !.withdrawn = @ + a] \in Profile
           /\ [r EXCEPT !.frozen = @ - a, !.current = @ + a] \in Profile
<1>1. /\ r.current \in Int /\ r.frozen \in Int /\ r.withdrawn \in Int
      /\ r.current - a \in Int /\ r.current + a \in Int /\ r.frozen - a \in Int
      /\ r.frozen + a \in Int /\ r.withdrawn + a \in Int
  BY DEF Profile
<1>2. \A x, y \in Int : /\ [r EXCEPT !.current = x, !.frozen = y] \in Profile
                       /\ [r EXCEPT !.frozen = x, !.withdrawn = y] \in Profile
                       /\ [r EXCEPT !.frozen = x, !.current = y] \in Profile
  BY DEF Profile
<1> QED BY <1>1, <1>2

LEMMA ProfileBeginTyped ==
    ASSUME Typed, NEW p \in Proc, made' \in Nat, ProfileBegin(p)
    PROVE  Typed'
<1> DEFINE r == [Idle EXCEPT !.pc = "insert"]
<1>1. WellTyped(r)
  BY IdleType, TypeFacts DEF WellTyped, Idle, Request, AccountSteps, HourSteps, BookingSteps, ReviewSteps, MoneySteps, DecisionSteps
<1>2. req' = [req EXCEPT ![p] = r]
  BY DEF ProfileBegin, Begin, Goto, End
<1>3. role = "teacher" \/ r.pc \in {"idle", "promote"}
  BY TypeFacts DEF ProfileBegin, Idle, Request
<1> HIDE DEF r
<1> QED BY <1>1, <1>2, <1>3, TypeFacts, RequestOnly DEF ProfileBegin, history

LEMMA HoursBeginTyped ==
    ASSUME Typed, NEW p \in Proc, NEW published \in SUBSET Windows, made' \in Nat, HoursBegin(p, published)
    PROVE  Typed'
<1> DEFINE r == [Idle EXCEPT !.pc = "hoursDelete", !.hours = published]
<1>1. WellTyped(r)
  BY IdleType, TypeFacts DEF WellTyped, Idle, Request, AccountSteps, HourSteps, BookingSteps, ReviewSteps, MoneySteps, DecisionSteps
<1>2. req' = [req EXCEPT ![p] = r]
  BY DEF HoursBegin, Begin, Goto, End
<1>3. role = "teacher" \/ r.pc \in {"idle", "promote"}
  BY TypeFacts DEF HoursBegin, Idle, Request
<1> HIDE DEF r
<1> QED BY <1>1, <1>2, <1>3, TypeFacts, RequestOnly DEF HoursBegin, history

LEMMA ReviewFindTyped ==
    ASSUME Typed, NEW p \in Proc, NEW s \in Student, made' \in Nat, ReviewFind(p, s)
    PROVE  Typed'
<1> DEFINE r == [Idle EXCEPT !.pc = "reviewInsert"]
<1>1. WellTyped(r)
  BY IdleType, TypeFacts DEF WellTyped, Idle, Request, AccountSteps, HourSteps, BookingSteps, ReviewSteps, MoneySteps, DecisionSteps
<1>2. req' = [req EXCEPT ![p] = r]
  BY DEF ReviewFind, Begin, Goto, End
<1>3. role = "teacher" \/ r.pc \in {"idle", "promote"}
  BY TypeFacts DEF ReviewFind, Idle, Request, Typed, NotYet, NoBooking
<1> HIDE DEF r
<1> QED BY <1>1, <1>2, <1>3, TypeFacts, RequestOnly DEF ReviewFind, history

LEMMA DecideFindTyped ==
    ASSUME Typed, NEW p \in Proc, NEW w \in Withdrawal, NEW verdict \in {"approved", "rejected"}, made' \in Nat, DecideFind(p, w, verdict)
    PROVE  Typed'
<1> DEFINE r == [Idle EXCEPT !.pc = "decideProfile", !.id = w, !.verdict = verdict]
<1>1. WellTyped(r)
  BY IdleType, TypeFacts DEF WellTyped, Idle, Request, AccountSteps, HourSteps, BookingSteps, ReviewSteps, MoneySteps, DecisionSteps, WithdrawalStatus
<1>2. req' = [req EXCEPT ![p] = r]
  BY DEF DecideFind, Begin, Goto, End
<1>3. role = "teacher" \/ r.pc \in {"idle", "promote"}
  BY TypeFacts DEF DecideFind, Idle, Request, Typed, NotYet
<1> HIDE DEF r
<1> QED BY <1>1, <1>2, <1>3, TypeFacts, RequestOnly DEF DecideFind, history

LEMMA ProfileFindTyped ==
    ASSUME Typed, NEW p \in Proc, made' \in Nat, ProfileFind(p)
    PROVE  Typed'
<1>0. PICK status \in {profile.status, "approved", "suspended"} :
        /\ req' = [req EXCEPT ![p] = [Idle EXCEPT !.pc = "profileSave", !.read = profile,
                                                  !.entity = [profile EXCEPT !.status = status]]]
        /\ profile.status # "none"
  BY DEF ProfileFind, Begin
<1> DEFINE e == [profile EXCEPT !.status = status]
           r == [Idle EXCEPT !.pc = "profileSave", !.read = profile, !.entity = e]
<1>1. e \in Profile
  BY <1>0, TypeFacts DEF Profile
<1>2. req' = [req EXCEPT ![p] = r]
  BY <1>0
<1> HIDE DEF e
<1>3. r \in Request
  BY <1>1, IdleType, TypeFacts DEF Request, AccountSteps
<1>4. r.pc = "profileSave"
  BY DEF Idle
<1>5. WellTyped(r)
  BY <1>3, <1>4 DEF WellTyped, MoneySteps, BookingSteps, DecisionSteps
<1>6. role = "teacher" \/ r.pc \in {"idle", "promote"}
  BY <1>0, TypeFacts
<1> HIDE DEF r
<1> QED BY <1>2, <1>5, <1>6, TypeFacts, RequestOnly DEF ProfileFind, history

LEMMA PackageFindTyped ==
    ASSUME Typed, NEW p \in Proc, NEW k \in Package, made' \in Nat, PackageFind(p, k)
    PROVE  Typed'
<1>0. PICK status \in {"active", "inactive"} :
        req' = [req EXCEPT ![p] = [Idle EXCEPT !.pc = "packageSave", !.id = k, !.verdict = status]]
  BY DEF PackageFind, Begin
<1> DEFINE r == [Idle EXCEPT !.pc = "packageSave", !.id = k, !.verdict = status]
<1>1. WellTyped(r)
  BY <1>0, IdleType, TypeFacts DEF WellTyped, Idle, Request, AccountSteps, HourSteps, BookingSteps, ReviewSteps, MoneySteps, DecisionSteps, PackageStatus
<1>2. req' = [req EXCEPT ![p] = r]
  BY <1>0 DEF PackageFind, Begin, Goto, End
<1>3. role = "teacher" \/ r.pc \in {"idle", "promote"}
  BY <1>0, TypeFacts DEF PackageFind, Idle, Request, Typed, NotYet
<1> HIDE DEF r
<1> QED BY <1>1, <1>2, <1>3, TypeFacts, RequestOnly DEF PackageFind, history

LEMMA BookFindTyped ==
    ASSUME Typed, NEW p \in Proc, NEW b \in Booking, NEW s \in Student, made' \in Nat, BookFind(p, b, s)
    PROVE  Typed'
<1>0. PICK t \in Starts, n \in Durations :
        req' = [req EXCEPT ![p] = [Idle EXCEPT !.pc = "bookHours", !.id = b,
                   !.draft = [status |-> "pending", student |-> s, start |-> t, length |-> n]]]
  BY DEF BookFind, Begin
<1> DEFINE d == [status |-> "pending", student |-> s, start |-> t, length |-> n]
<1>5. d \in BookingRow
  BY TimesAssumption DEF BookingRow
<1> DEFINE r == [Idle EXCEPT !.pc = "bookHours", !.id = b, !.draft = d]
<1>1. WellTyped(r)
  BY <1>0, <1>5, IdleType, TypeFacts DEF WellTyped, Idle, Request, AccountSteps, HourSteps, BookingSteps, ReviewSteps, MoneySteps, DecisionSteps
<1>2. req' = [req EXCEPT ![p] = r]
  BY <1>0 DEF BookFind, Begin, Goto, End
<1>3. role = "teacher" \/ r.pc \in {"idle", "promote"}
  BY <1>0, TypeFacts DEF BookFind, Idle, Request
<1> HIDE DEF r
<1> QED BY <1>1, <1>2, <1>3, TypeFacts, RequestOnly DEF BookFind, history

LEMMA BookingFindTyped ==
    ASSUME Typed, NEW p \in Proc, NEW b \in Booking, NEW status \in {"confirmed", "cancelled", "completed", "rescheduled"}, NEW step \in {"bookingSave", "completeSave", "rescheduleSave"}, made' \in Nat, BookingFind(p, b, status, step)
    PROVE  Typed'
<1> DEFINE d == [booking[b] EXCEPT !.status = status]
<1>0. d \in BookingRow
  BY TypeFacts DEF BookingRow
<1> DEFINE r == [Idle EXCEPT !.pc = step, !.id = b, !.draft = d]
<1>1. WellTyped(r)
  BY <1>0, IdleType, TypeFacts DEF WellTyped, Idle, Request, AccountSteps, HourSteps, BookingSteps, ReviewSteps, MoneySteps, DecisionSteps
<1>2. req' = [req EXCEPT ![p] = r]
  BY DEF BookingFind, Begin, Goto, End
<1>3. role = "teacher" \/ r.pc \in {"idle", "promote"}
  BY <1>0, TypeFacts DEF BookingFind, Idle, Request, Typed, NotYet, NoBooking
<1> HIDE DEF r
<1> QED BY <1>1, <1>2, <1>3, TypeFacts, RequestOnly DEF BookingFind, history

LEMMA AccountFindTyped ==
    ASSUME Typed, NEW p \in Proc, AccountFind(p)
    PROVE  Typed'
<1>0. req[p] \in Request /\ WellTyped(req[p]) /\ (role # "teacher" => req[p].pc \in {"idle", "promote"})
  BY TypeFacts DEF WellTyped
<1> DEFINE r == IF profile.status = "none" THEN [req[p] EXCEPT !.pc = "accountInsert"] ELSE Idle
<1>1. WellTyped(r)
  BY <1>0, IdleType, TypeFacts DEF WellTyped, Idle, Request, AccountSteps, HourSteps, BookingSteps, ReviewSteps, MoneySteps, DecisionSteps, AccountFind
<1>2. req' = [req EXCEPT ![p] = r]
  BY <1>0 DEF AccountFind, Goto, End, Idle
<1>3. role = "teacher" \/ r.pc \in {"idle", "promote"}
  BY <1>0, TypeFacts DEF AccountFind, Idle, Request
<1> HIDE DEF r
<1> QED BY <1>1, <1>2, <1>3, TypeFacts, RequestOnly DEF AccountFind, history

LEMMA BookHoursTyped ==
    ASSUME Typed, NEW p \in Proc, BookHours(p)
    PROVE  Typed'
<1>0. req[p] \in Request /\ WellTyped(req[p]) /\ (role # "teacher" => req[p].pc \in {"idle", "promote"})
  BY TypeFacts DEF WellTyped
<1> DEFINE r == [req[p] EXCEPT !.pc = "bookCheck", !.hours = hours]
<1>1. WellTyped(r)
  BY <1>0, IdleType, TypeFacts DEF WellTyped, Idle, Request, AccountSteps, HourSteps, BookingSteps, ReviewSteps, MoneySteps, DecisionSteps, BookHours
<1>2. req' = [req EXCEPT ![p] = r]
  BY <1>0 DEF BookHours, Goto, End, Idle
<1>3. role = "teacher" \/ r.pc \in {"idle", "promote"}
  BY <1>0, TypeFacts DEF BookHours, Idle, Request
<1> HIDE DEF r
<1> QED BY <1>1, <1>2, <1>3, TypeFacts, RequestOnly DEF BookHours, history

LEMMA BookRefusedTyped ==
    ASSUME Typed, NEW p \in Proc, BookRefused(p)
    PROVE  Typed'
<1>0. req[p] \in Request /\ WellTyped(req[p]) /\ (role # "teacher" => req[p].pc \in {"idle", "promote"})
  BY TypeFacts DEF WellTyped
<1> DEFINE r == Idle
<1>1. WellTyped(r)
  BY <1>0, IdleType, TypeFacts DEF WellTyped, Idle, Request, AccountSteps, HourSteps, BookingSteps, ReviewSteps, MoneySteps, DecisionSteps
<1>2. req' = [req EXCEPT ![p] = r]
  BY <1>0 DEF BookRefused, Goto, End, Idle
<1>3. role = "teacher" \/ r.pc \in {"idle", "promote"}
  BY <1>0, TypeFacts DEF BookRefused, Idle, Request
<1> HIDE DEF r
<1> QED BY <1>1, <1>2, <1>3, TypeFacts, RequestOnly DEF BookRefused, history

LEMMA RatingReadTyped ==
    ASSUME Typed, NEW p \in Proc, RatingRead(p)
    PROVE  Typed'
<1>0. req[p] \in Request /\ WellTyped(req[p]) /\ (role # "teacher" => req[p].pc \in {"idle", "promote"})
  BY TypeFacts DEF WellTyped
<1> DEFINE r == [req[p] EXCEPT !.pc = "ratingUpdate", !.count = reviews]
<1>1. WellTyped(r)
  BY <1>0, IdleType, TypeFacts DEF WellTyped, Idle, Request, AccountSteps, HourSteps, BookingSteps, ReviewSteps, MoneySteps, DecisionSteps, RatingRead
<1>2. req' = [req EXCEPT ![p] = r]
  BY <1>0 DEF RatingRead, Goto, End, Idle
<1>3. role = "teacher" \/ r.pc \in {"idle", "promote"}
  BY <1>0, TypeFacts DEF RatingRead, Idle, Request
<1> HIDE DEF r
<1> QED BY <1>1, <1>2, <1>3, TypeFacts, RequestOnly DEF RatingRead, history

LEMMA BookCheckTyped ==
    ASSUME Typed, NEW p \in Proc, BookCheck(p)
    PROVE  Typed'
<1>0. req[p] \in Request /\ WellTyped(req[p]) /\ (role # "teacher" => req[p].pc \in {"idle", "promote"})
  BY TypeFacts DEF WellTyped
<1> DEFINE r == [req[p] EXCEPT !.pc = "bookInsert", !.hours = {}]
<1>1. WellTyped(r)
  BY <1>0, IdleType, TypeFacts DEF WellTyped, Idle, Request, AccountSteps, HourSteps, BookingSteps, ReviewSteps, MoneySteps, DecisionSteps, BookCheck
<1>2. req' = [req EXCEPT ![p] = r]
  BY <1>0 DEF BookCheck, Goto, End, Idle
<1>3. role = "teacher" \/ r.pc \in {"idle", "promote"}
  BY <1>0, TypeFacts DEF BookCheck, Idle, Request
<1>4. met' \subseteq Booking \X Booking
  BY <1>0, TypeFacts DEF BookCheck, Confirmed, WellTyped, BookingSteps
<1> HIDE DEF r
<1> QED BY <1>1, <1>2, <1>3, <1>4, TypeFacts, Assembled DEF BookCheck, history

LEMMA AccountPromoteTyped ==
    ASSUME Typed, NEW p \in Proc, AccountPromote(p)
    PROVE  Typed'
<1>0. req[p] \in Request /\ WellTyped(req[p]) /\ (role # "teacher" => req[p].pc \in {"idle", "promote"})
  BY TypeFacts DEF WellTyped
<1> DEFINE r == [req[p] EXCEPT !.pc = "accountFind"]
<1>1. WellTyped(r)
  BY <1>0, IdleType, TypeFacts DEF WellTyped, Idle, Request, AccountSteps, HourSteps, BookingSteps, ReviewSteps, MoneySteps, DecisionSteps, AccountPromote
<1>2. req' = [req EXCEPT ![p] = r]
  BY <1>0 DEF AccountPromote, Goto, End, Idle
<1>3. role' = "teacher"
  BY DEF AccountPromote
<1> HIDE DEF r
<1> QED BY <1>1, <1>2, <1>3, TypeFacts, Assembled DEF AccountPromote, history

LEMMA HoursInsertTyped ==
    ASSUME Typed, NEW p \in Proc, HoursInsert(p)
    PROVE  Typed'
<1>0. req[p] \in Request /\ WellTyped(req[p]) /\ (role # "teacher" => req[p].pc \in {"idle", "promote"})
  BY TypeFacts DEF WellTyped
<1> DEFINE r == Idle
<1>1. WellTyped(r)
  BY <1>0, IdleType, TypeFacts DEF WellTyped, Idle, Request, AccountSteps, HourSteps, BookingSteps, ReviewSteps, MoneySteps, DecisionSteps
<1>2. req' = [req EXCEPT ![p] = r]
  BY <1>0 DEF HoursInsert, Goto, End, Idle
<1>3. role = "teacher" \/ r.pc \in {"idle", "promote"}
  BY <1>0, TypeFacts DEF HoursInsert, Idle, Request
<1>4. hours' \subseteq Windows
  BY <1>0, TypeFacts DEF HoursInsert, Request
<1> HIDE DEF r
<1> QED BY <1>1, <1>2, <1>3, <1>4, TypeFacts, Assembled DEF HoursInsert, history

LEMMA HoursDeleteTyped ==
    ASSUME Typed, NEW p \in Proc, HoursDelete(p)
    PROVE  Typed'
<1>0. req[p] \in Request /\ WellTyped(req[p]) /\ (role # "teacher" => req[p].pc \in {"idle", "promote"})
  BY TypeFacts DEF WellTyped
<1> DEFINE r == [req[p] EXCEPT !.pc = "hoursInsert"]
<1>1. WellTyped(r)
  BY <1>0, IdleType, TypeFacts DEF WellTyped, Idle, Request, AccountSteps, HourSteps, BookingSteps, ReviewSteps, MoneySteps, DecisionSteps, HoursDelete
<1>2. req' = [req EXCEPT ![p] = r]
  BY <1>0 DEF HoursDelete, Goto, End, Idle
<1>3. role = "teacher" \/ r.pc \in {"idle", "promote"}
  BY <1>0, TypeFacts DEF HoursDelete, Idle, Request
<1>4. hours' \subseteq Windows
  BY TypeFacts DEF HoursDelete
<1> HIDE DEF r
<1> QED BY <1>1, <1>2, <1>3, <1>4, TypeFacts, Assembled DEF HoursDelete, history

LEMMA BookInsertTyped ==
    ASSUME Typed, NEW p \in Proc, BookInsert(p)
    PROVE  Typed'
<1>0. req[p] \in Request /\ WellTyped(req[p]) /\ (role # "teacher" => req[p].pc \in {"idle", "promote"})
  BY TypeFacts DEF WellTyped
<1> DEFINE r == Idle
<1>1. WellTyped(r)
  BY <1>0, IdleType, TypeFacts DEF WellTyped, Idle, Request, AccountSteps, HourSteps, BookingSteps, ReviewSteps, MoneySteps, DecisionSteps, BookInsert
<1>2. req' = [req EXCEPT ![p] = r]
  BY <1>0 DEF BookInsert, Goto, End, Idle
<1>3. role = "teacher" \/ r.pc \in {"idle", "promote"}
  BY <1>0, TypeFacts DEF BookInsert, Idle, Request
<1>4. booking' \in [Booking -> BookingRow] /\ role = "teacher"
  BY <1>0, TypeFacts DEF BookInsert, Request, WellTyped, BookingSteps
<1> HIDE DEF r
<1> QED BY <1>1, <1>2, <1>3, <1>4, TypeFacts, Assembled DEF BookInsert, history

LEMMA BookingSaveTyped ==
    ASSUME Typed, NEW p \in Proc, BookingSave(p)
    PROVE  Typed'
<1>0. req[p] \in Request /\ WellTyped(req[p]) /\ (role # "teacher" => req[p].pc \in {"idle", "promote"})
  BY TypeFacts DEF WellTyped
<1> DEFINE r == Idle
<1>1. WellTyped(r)
  BY <1>0, IdleType, TypeFacts DEF WellTyped, Idle, Request, AccountSteps, HourSteps, BookingSteps, ReviewSteps, MoneySteps, DecisionSteps, BookingSave
<1>2. req' = [req EXCEPT ![p] = r]
  BY <1>0 DEF BookingSave, Goto, End, Idle
<1>3. role = "teacher" \/ r.pc \in {"idle", "promote"}
  BY <1>0, TypeFacts DEF BookingSave, Idle, Request
<1>4. booking' \in [Booking -> BookingRow] /\ role = "teacher"
  BY <1>0, TypeFacts DEF BookingSave, Request, WellTyped, BookingSteps
<1> HIDE DEF r
<1> QED BY <1>1, <1>2, <1>3, <1>4, TypeFacts, Assembled DEF BookingSave, history

LEMMA CompleteSaveTyped ==
    ASSUME Typed, NEW p \in Proc, CompleteSave(p)
    PROVE  Typed'
<1>0. req[p] \in Request /\ WellTyped(req[p]) /\ (role # "teacher" => req[p].pc \in {"idle", "promote"})
  BY TypeFacts DEF WellTyped
<1> DEFINE r == [Idle EXCEPT !.pc = "completeCount"]
<1>1. WellTyped(r)
  BY <1>0, IdleType, TypeFacts DEF WellTyped, Idle, Request, AccountSteps, HourSteps, BookingSteps, ReviewSteps, MoneySteps, DecisionSteps, CompleteSave
<1>2. req' = [req EXCEPT ![p] = r]
  BY <1>0 DEF CompleteSave, Goto, End, Idle
<1>3. role = "teacher" \/ r.pc \in {"idle", "promote"}
  BY <1>0, TypeFacts DEF CompleteSave, Idle, Request
<1>4. booking' \in [Booking -> BookingRow] /\ role = "teacher"
  BY <1>0, TypeFacts DEF CompleteSave, Request, WellTyped, BookingSteps
<1> HIDE DEF r
<1> QED BY <1>1, <1>2, <1>3, <1>4, TypeFacts, Assembled DEF CompleteSave, history

LEMMA RescheduleSaveTyped ==
    ASSUME Typed, NEW p \in Proc, RescheduleSave(p)
    PROVE  Typed'
<1>0. req[p] \in Request /\ WellTyped(req[p]) /\ (role # "teacher" => req[p].pc \in {"idle", "promote"})
  BY TypeFacts DEF WellTyped
<1> DEFINE r == [req[p] EXCEPT !.pc = "rescheduleInsert"]
<1>1. WellTyped(r)
  BY <1>0, IdleType, TypeFacts DEF WellTyped, Idle, Request, AccountSteps, HourSteps, BookingSteps, ReviewSteps, MoneySteps, DecisionSteps, RescheduleSave
<1>2. req' = [req EXCEPT ![p] = r]
  BY <1>0 DEF RescheduleSave, Goto, End, Idle
<1>3. role = "teacher" \/ r.pc \in {"idle", "promote"}
  BY <1>0, TypeFacts DEF RescheduleSave, Idle, Request
<1>4. booking' \in [Booking -> BookingRow] /\ role = "teacher"
  BY <1>0, TypeFacts DEF RescheduleSave, Request, WellTyped, BookingSteps
<1> HIDE DEF r
<1> QED BY <1>1, <1>2, <1>3, <1>4, TypeFacts, Assembled DEF RescheduleSave, history

LEMMA RescheduleInsertTyped ==
    ASSUME Typed, NEW p \in Proc, RescheduleInsert(p)
    PROVE  Typed'
<1>0. req[p] \in Request /\ WellTyped(req[p]) /\ (role # "teacher" => req[p].pc \in {"idle", "promote"})
  BY TypeFacts DEF WellTyped
<1> DEFINE r == Idle
<1>1. WellTyped(r)
  BY <1>0, IdleType, TypeFacts DEF WellTyped, Idle, Request, AccountSteps, HourSteps, BookingSteps, ReviewSteps, MoneySteps, DecisionSteps
<1>2. req' = [req EXCEPT ![p] = r]
  BY <1>0 DEF RescheduleInsert, Goto, End, Idle
<1>3. role = "teacher" \/ r.pc \in {"idle", "promote"}
  BY <1>0, TypeFacts DEF RescheduleInsert, Idle, Request
<1>4. booking' \in [Booking -> BookingRow] /\ moved' \subseteq Booking /\ role = "teacher"
  <2>1. PICK b \in Booking, t \in Starts :
          /\ booking' = [booking EXCEPT ![b] = [req[p].draft EXCEPT !.status = "confirmed", !.start = t]]
          /\ moved' = moved \cup {b}
    BY DEF RescheduleInsert
  <2>2. [req[p].draft EXCEPT !.status = "confirmed", !.start = t] \in BookingRow
    BY <1>0, TimesAssumption DEF Request, BookingRow
  <2> QED BY <2>1, <2>2, <1>0, TypeFacts DEF RescheduleInsert
<1> HIDE DEF r
<1> QED BY <1>1, <1>2, <1>3, <1>4, TypeFacts, Assembled DEF RescheduleInsert, history

LEMMA CompleteCountTyped ==
    ASSUME Typed, NEW p \in Proc, CompleteCount(p)
    PROVE  Typed'
<1>0. req[p] \in Request /\ WellTyped(req[p]) /\ (role # "teacher" => req[p].pc \in {"idle", "promote"})
  BY TypeFacts DEF WellTyped
<1> DEFINE r == Idle
<1>1. WellTyped(r)
  BY <1>0, IdleType, TypeFacts DEF WellTyped, Idle, Request, AccountSteps, HourSteps, BookingSteps, ReviewSteps, MoneySteps, DecisionSteps
<1>2. req' = [req EXCEPT ![p] = r]
  BY <1>0 DEF CompleteCount, Goto, End, Idle
<1>3. role = "teacher" \/ r.pc \in {"idle", "promote"}
  BY <1>0, TypeFacts DEF CompleteCount, Idle, Request
<1>4. profile' \in Profile /\ profile'.status = profile.status
  BY TypeFacts DEF CompleteCount, Profile
<1> HIDE DEF r
<1> QED BY <1>1, <1>2, <1>3, <1>4, TypeFacts, Assembled DEF CompleteCount, history

LEMMA RatingUpdateTyped ==
    ASSUME Typed, NEW p \in Proc, RatingUpdate(p)
    PROVE  Typed'
<1>0. req[p] \in Request /\ WellTyped(req[p]) /\ (role # "teacher" => req[p].pc \in {"idle", "promote"})
  BY TypeFacts DEF WellTyped
<1> DEFINE r == Idle
<1>1. WellTyped(r)
  BY <1>0, IdleType, TypeFacts DEF WellTyped, Idle, Request, AccountSteps, HourSteps, BookingSteps, ReviewSteps, MoneySteps, DecisionSteps
<1>2. req' = [req EXCEPT ![p] = r]
  BY <1>0 DEF RatingUpdate, Goto, End, Idle
<1>3. role = "teacher" \/ r.pc \in {"idle", "promote"}
  BY <1>0, TypeFacts DEF RatingUpdate, Idle, Request
<1>4. profile' \in Profile /\ profile'.status = profile.status
  BY <1>0, TypeFacts DEF RatingUpdate, Profile, Request
<1> HIDE DEF r
<1> QED BY <1>1, <1>2, <1>3, <1>4, TypeFacts, Assembled DEF RatingUpdate, history

LEMMA ReviewInsertTyped ==
    ASSUME Typed, NEW p \in Proc, ReviewInsert(p)
    PROVE  Typed'
<1>0. req[p] \in Request /\ WellTyped(req[p]) /\ (role # "teacher" => req[p].pc \in {"idle", "promote"})
  BY TypeFacts DEF WellTyped
<1> DEFINE r == [req[p] EXCEPT !.pc = "ratingRead"]
<1>1. WellTyped(r)
  BY <1>0, IdleType, TypeFacts DEF WellTyped, Idle, Request, AccountSteps, HourSteps, BookingSteps, ReviewSteps, MoneySteps, DecisionSteps, ReviewInsert
<1>2. req' = [req EXCEPT ![p] = r]
  BY <1>0 DEF ReviewInsert, Goto, End, Idle
<1>3. role = "teacher" \/ r.pc \in {"idle", "promote"}
  BY <1>0, TypeFacts DEF ReviewInsert, Idle, Request
<1>4. reviews' \in Nat
  BY TypeFacts DEF ReviewInsert
<1> HIDE DEF r
<1> QED BY <1>1, <1>2, <1>3, <1>4, TypeFacts, Assembled DEF ReviewInsert, history

LEMMA PackageSaveTyped ==
    ASSUME Typed, NEW p \in Proc, PackageSave(p)
    PROVE  Typed'
<1>0. req[p] \in Request /\ WellTyped(req[p]) /\ (role # "teacher" => req[p].pc \in {"idle", "promote"})
  BY TypeFacts DEF WellTyped
<1> DEFINE r == Idle
<1>1. WellTyped(r)
  BY <1>0, IdleType, TypeFacts DEF WellTyped, Idle, Request, AccountSteps, HourSteps, BookingSteps, ReviewSteps, MoneySteps, DecisionSteps
<1>2. req' = [req EXCEPT ![p] = r]
  BY <1>0 DEF PackageSave, Goto, End, Idle
<1>3. role = "teacher" \/ r.pc \in {"idle", "promote"}
  BY <1>0, TypeFacts DEF PackageSave, Idle, Request
<1>4. package' \in [Package -> PackageStatus] /\ role = "teacher"
  BY <1>0, TypeFacts DEF PackageSave, WellTyped
<1> HIDE DEF r
<1> QED BY <1>1, <1>2, <1>3, <1>4, TypeFacts, Assembled DEF PackageSave, history

LEMMA WithdrawInsertTyped ==
    ASSUME Typed, NEW p \in Proc, WithdrawInsert(p)
    PROVE  Typed'
<1>0. req[p] \in Request /\ WellTyped(req[p]) /\ (role # "teacher" => req[p].pc \in {"idle", "promote"})
  BY TypeFacts DEF WellTyped
<1> DEFINE r == Idle
<1>1. WellTyped(r)
  BY <1>0, IdleType, TypeFacts DEF WellTyped, Idle, Request, AccountSteps, HourSteps, BookingSteps, ReviewSteps, MoneySteps, DecisionSteps
<1>2. req' = [req EXCEPT ![p] = r]
  BY <1>0 DEF WithdrawInsert, Goto, End, Idle
<1>3. role = "teacher" \/ r.pc \in {"idle", "promote"}
  BY <1>0, TypeFacts DEF WithdrawInsert, Idle, Request
<1>4. withdrawal' \in [Withdrawal -> WithdrawalStatus] /\ role = "teacher"
  BY <1>0, TypeFacts DEF WithdrawInsert, WellTyped, WithdrawalStatus
<1> HIDE DEF r
<1> QED BY <1>1, <1>2, <1>3, <1>4, TypeFacts, Assembled DEF WithdrawInsert, history

LEMMA DecideSaveTyped ==
    ASSUME Typed, NEW p \in Proc, DecideSave(p)
    PROVE  Typed'
<1>0. req[p] \in Request /\ WellTyped(req[p]) /\ (role # "teacher" => req[p].pc \in {"idle", "promote"})
  BY TypeFacts DEF WellTyped
<1> DEFINE r == [req[p] EXCEPT !.pc = "settle"]
<1>1. WellTyped(r)
  BY <1>0, IdleType, TypeFacts DEF WellTyped, Idle, Request, AccountSteps, HourSteps, BookingSteps, ReviewSteps, MoneySteps, DecisionSteps, DecideSave
<1>2. req' = [req EXCEPT ![p] = r]
  BY <1>0 DEF DecideSave, Goto, End, Idle
<1>3. role = "teacher" \/ r.pc \in {"idle", "promote"}
  BY <1>0, TypeFacts DEF DecideSave, Idle, Request
<1>4. /\ withdrawal' \in [Withdrawal -> WithdrawalStatus] /\ role = "teacher"
      /\ mishap' \subseteq {"stale", "twice", "halfway"}
  BY <1>0, TypeFacts DEF DecideSave, WellTyped, WithdrawalStatus, MoneySteps, DecisionSteps
<1> HIDE DEF r
<1> QED BY <1>1, <1>2, <1>3, <1>4, TypeFacts, Assembled DEF DecideSave, history

LEMMA AccountBeginTyped ==
    ASSUME Typed, NEW p \in Proc, made' \in Nat, AccountBegin(p)
    PROVE  Typed'
<1> DEFINE r == [Idle EXCEPT !.pc = "promote"]
<1>1. WellTyped(r)
  BY IdleType, TypeFacts DEF WellTyped, Idle, Request, AccountSteps, HourSteps, BookingSteps, ReviewSteps, MoneySteps, DecisionSteps
<1>2. req' = [req EXCEPT ![p] = r]
  BY DEF AccountBegin, Begin, Goto, End
<1>3. r.pc = "promote" /\ role' = "student" /\ role = "none"
  BY DEF AccountBegin, Idle
<1> HIDE DEF r
<1> QED BY <1>1, <1>2, <1>3, TypeFacts, Assembled DEF AccountBegin, Idle, history

LEMMA DecideProfileTyped ==
    ASSUME Typed, NEW p \in Proc, DecideProfile(p)
    PROVE  Typed'
<1>0. req[p] \in Request /\ WellTyped(req[p]) /\ (role # "teacher" => req[p].pc \in {"idle", "promote"})
  BY TypeFacts DEF WellTyped
<1> DEFINE e == Settled(profile, req[p].id, req[p].verdict)
<1>1. e \in Profile
  <2>1. AmountOf[req[p].id] \in Nat /\ profile \in Profile
    BY <1>0, TypeFacts, AmountAssumption DEF DecideProfile, WellTyped, MoneySteps, DecisionSteps
  <2> QED BY <2>1, MoneyTyped DEF Settled
<1> DEFINE r == [req[p] EXCEPT !.pc = "decideSave", !.read = profile, !.entity = e]
<1>2. WellTyped(r)
  <2> HIDE DEF e
  <2> QED BY <1>0, <1>1, IdleType, TypeFacts DEF WellTyped, Idle, Request, AccountSteps, HourSteps, BookingSteps, ReviewSteps, MoneySteps, DecisionSteps, DecideProfile
<1>3. req' = [req EXCEPT ![p] = r]
  BY <1>0 DEF DecideProfile, Goto, End, Idle
<1>4. role = "teacher" \/ r.pc \in {"idle", "promote"}
  BY <1>0, TypeFacts DEF DecideProfile, Idle, Request
<1> HIDE DEF r
<1> QED BY <1>2, <1>3, <1>4, TypeFacts, RequestOnly DEF DecideProfile, history

LEMMA WithdrawFreezeTyped ==
    ASSUME Typed, NEW p \in Proc, NEW w \in Withdrawal, made' \in Nat, WithdrawFreeze(p, w)
    PROVE  Typed'
<1> DEFINE r == [Idle EXCEPT !.pc = "withdrawInsert", !.id = w]
<1>1. WellTyped(r)
  BY IdleType, TypeFacts DEF WellTyped, Idle, Request, AccountSteps, HourSteps, BookingSteps, ReviewSteps, MoneySteps, DecisionSteps
<1>2. req' = [req EXCEPT ![p] = r]
  BY DEF WithdrawFreeze, Begin, Goto, End
<1>3. role = "teacher" \/ r.pc \in {"idle", "promote"}
  BY TypeFacts DEF WithdrawFreeze, Idle, Request
<1>4. profile' \in Profile /\ profile'.status = profile.status
  <2>1. AmountOf[w] \in Nat /\ profile \in Profile
    BY TypeFacts, AmountAssumption
  <2>2. profile' = Freeze(w)
    BY DEF WithdrawFreeze
  <2> QED BY ONLY <2>1, <2>2, MoneyTyped DEF Freeze, Profile
<1> HIDE DEF r
<1> QED BY <1>1, <1>2, <1>3, <1>4, TypeFacts, Assembled DEF WithdrawFreeze, history

LEMMA ProfileInsertTyped ==
    ASSUME Typed, NEW p \in Proc, ProfileInsert(p)
    PROVE  Typed'
<1>0. req[p] \in Request /\ WellTyped(req[p]) /\ (role # "teacher" => req[p].pc \in {"idle", "promote"})
  BY TypeFacts DEF WellTyped
<1> DEFINE new == [NoProfile EXCEPT !.status = "pending"]
<1> DEFINE approved == [new EXCEPT !.status = "approved"]
<1>5. new \in Profile /\ approved \in Profile
  BY IdleType DEF Profile
<1> DEFINE r == IF profile.status = "none" /\ req[p].pc = "accountInsert"
                THEN [Idle EXCEPT !.pc = "profileSave", !.read = new, !.entity = approved]
                ELSE Idle
<1>1. WellTyped(r)
  <2> HIDE DEF new, approved
  <2>1. CASE ~(profile.status = "none" /\ req[p].pc = "accountInsert")
    BY <2>1, IdleWellTyped
  <2>2. CASE profile.status = "none" /\ req[p].pc = "accountInsert"
    BY <2>2, <1>5, IdleType DEF WellTyped, Idle, Request, AccountSteps, HourSteps, BookingSteps, ReviewSteps, MoneySteps, DecisionSteps
  <2> QED BY <2>1, <2>2
<1>2. req' = [req EXCEPT ![p] = r]
  BY <1>0 DEF ProfileInsert, Goto, End, Idle
<1>3. role = "teacher" \/ r.pc \in {"idle", "promote"}
  BY <1>0, TypeFacts DEF ProfileInsert, Idle, Request
<1>4. profile' \in Profile /\ role = "teacher"
  BY <1>0, TypeFacts, IdleType DEF ProfileInsert, Profile, NoProfile
<1> HIDE DEF r
<1> QED BY <1>1, <1>2, <1>3, <1>4, TypeFacts, Assembled DEF ProfileInsert, history

LEMMA HalfwayTyped ==
    ASSUME Typed, NEW p \in Proc, Halfway(p)
    PROVE  Typed'
<1>0. req[p] \in Request /\ WellTyped(req[p]) /\ (role # "teacher" => req[p].pc \in {"idle", "promote"})
  BY TypeFacts DEF WellTyped
<1> DEFINE r == Idle
<1>1. WellTyped(r)
  BY <1>0, IdleType, TypeFacts DEF WellTyped, Idle, Request, AccountSteps, HourSteps, BookingSteps, ReviewSteps, MoneySteps, DecisionSteps
<1>2. req' = [req EXCEPT ![p] = r]
  BY <1>0 DEF Halfway, Goto, End, Idle
<1>3. role = "teacher" \/ r.pc \in {"idle", "promote"}
  BY <1>0, TypeFacts DEF Halfway, Idle, Request
<1>4. mishap' \subseteq {"stale", "twice", "halfway"}
  BY TypeFacts DEF Halfway
<1> HIDE DEF r
<1> QED BY <1>1, <1>2, <1>3, <1>4, TypeFacts, Assembled DEF Halfway, history

LEMMA ProfileSaveTyped ==
    ASSUME Typed, NEW p \in Proc, ProfileSave(p)
    PROVE  Typed'
<1>0. req[p] \in Request /\ WellTyped(req[p]) /\ (role # "teacher" => req[p].pc \in {"idle", "promote"})
  BY TypeFacts DEF WellTyped
<1> DEFINE r == Idle
<1>1. WellTyped(r)
  BY <1>0, IdleType, TypeFacts DEF WellTyped, Idle, Request, AccountSteps, HourSteps, BookingSteps, ReviewSteps, MoneySteps, DecisionSteps
<1>2. req' = [req EXCEPT ![p] = r]
  BY <1>0 DEF ProfileSave, Goto, End, Idle, Overwrite
<1>3. role = "teacher" \/ r.pc \in {"idle", "promote"}
  BY <1>0, TypeFacts DEF ProfileSave, Idle, Request
<1>4. /\ profile' \in Profile /\ role = "teacher"
      /\ mishap' \subseteq {"stale", "twice", "halfway"}
  BY <1>0, TypeFacts DEF ProfileSave, Overwrite, Request
<1> HIDE DEF r
<1> QED BY <1>1, <1>2, <1>3, <1>4, TypeFacts, Assembled DEF ProfileSave, Overwrite, history

LEMMA SettleTyped ==
    ASSUME Typed, NEW p \in Proc, Settle(p)
    PROVE  Typed'
<1>0. req[p] \in Request /\ WellTyped(req[p]) /\ (role # "teacher" => req[p].pc \in {"idle", "promote"})
  BY TypeFacts DEF WellTyped
<1> DEFINE r == Idle
<1>1. WellTyped(r)
  BY <1>0, IdleType, TypeFacts DEF WellTyped, Idle, Request, AccountSteps, HourSteps, BookingSteps, ReviewSteps, MoneySteps, DecisionSteps
<1>2. req' = [req EXCEPT ![p] = r]
  BY <1>0 DEF Settle, Goto, End, Idle, Overwrite
<1>3. role = "teacher" \/ r.pc \in {"idle", "promote"}
  BY <1>0, TypeFacts DEF Settle, Idle, Request
<1>4. /\ profile' \in Profile /\ role = "teacher"
      /\ mishap' \subseteq {"stale", "twice", "halfway"}
  BY <1>0, TypeFacts DEF Settle, Overwrite, Request
<1> HIDE DEF r
<1> QED BY <1>1, <1>2, <1>3, <1>4, TypeFacts, Assembled DEF Settle, Overwrite, history

\* The steps that are no request's.
LEMMA NotRequested ==
    ASSUME Typed, made' \in Nat,
           (Credit /\ UNCHANGED made) \/ (\E k \in Package : PackageCreate(k))
    PROVE  Typed'
<1>1. CASE Credit
  <2>1. PICK amount \in Credits : profile' = [profile EXCEPT !.current = @ + amount] /\ earned' = earned + amount
    BY <1>1 DEF Credit
  <2>2. profile' \in Profile /\ profile'.status = profile.status /\ earned' \in Nat
    BY <2>1, CreditAssumption, TypeFacts DEF Profile
  <2>3. TypeOK'
    BY <1>1, <2>2 DEF Typed, TypeOK, Credit
  <2> QED BY <1>1, <2>3 DEF Typed, NotYet, Credit
<1>2. ASSUME NEW k \in Package, PackageCreate(k) PROVE Typed'
  <2>1. package' \in [Package -> PackageStatus] /\ role = "teacher"
    BY <1>2, TypeFacts DEF PackageCreate, PackageStatus
  <2>2. TypeOK'
    BY <1>2, <2>1 DEF Typed, TypeOK, PackageCreate, history
  <2> QED BY <1>2, <2>1, <2>2 DEF Typed, NotYet, PackageCreate
<1> QED BY <1>1, <1>2

LEMMA RouteTyped ==
    ASSUME Typed, NEW p \in Proc, Route(p), made' \in Nat
    PROVE  Typed'
<1>1. CASE AccountBegin(p) \/ ProfileBegin(p) \/ ProfileFind(p)
  BY <1>1, AccountBeginTyped, ProfileBeginTyped, ProfileFindTyped
<1>2. CASE \E published \in SUBSET Windows : HoursBegin(p, published)
  BY <1>2, HoursBeginTyped
<1>3. CASE \E b \in Booking : \E s \in Student : BookFind(p, b, s)
  BY <1>3, BookFindTyped
<1>4. CASE \E b \in Booking : ConfirmFind(p, b) \/ CancelFind(p, b) \/ CompleteFind(p, b) \/ RescheduleFind(p, b)
  BY <1>4, BookingFindTyped DEF ConfirmFind, CancelFind, CompleteFind, RescheduleFind
<1>5. CASE (\E s \in Student : ReviewFind(p, s)) \/ (\E k \in Package : PackageFind(p, k))
  BY <1>5, ReviewFindTyped, PackageFindTyped
<1>6. CASE \E w \in Withdrawal : WithdrawFreeze(p, w) \/ \E verdict \in {"approved", "rejected"} : DecideFind(p, w, verdict)
  BY <1>6, WithdrawFreezeTyped, DecideFindTyped
<1> QED BY <1>1, <1>2, <1>3, <1>4, <1>5, <1>6 DEF Route, AccountRoute, BookingRoute, WalletRoute

LEMMA ContinueTyped ==
    ASSUME Typed, NEW p \in Proc, Continue(p)
    PROVE  Typed'
<1>1. CASE AccountPromote(p) \/ AccountFind(p) \/ ProfileInsert(p) \/ ProfileSave(p) \/ HoursDelete(p) \/ HoursInsert(p)
  BY <1>1, AccountPromoteTyped, AccountFindTyped, ProfileInsertTyped, ProfileSaveTyped, HoursDeleteTyped, HoursInsertTyped
<1>2. CASE BookHours(p) \/ BookCheck(p) \/ BookRefused(p) \/ BookInsert(p) \/ BookingSave(p) \/ CompleteSave(p)
  BY <1>2, BookHoursTyped, BookCheckTyped, BookRefusedTyped, BookInsertTyped, BookingSaveTyped, CompleteSaveTyped
<1>3. CASE CompleteCount(p) \/ RescheduleSave(p) \/ RescheduleInsert(p) \/ ReviewInsert(p) \/ RatingRead(p) \/ RatingUpdate(p)
  BY <1>3, CompleteCountTyped, RescheduleSaveTyped, RescheduleInsertTyped, ReviewInsertTyped, RatingReadTyped, RatingUpdateTyped
<1>4. CASE PackageSave(p) \/ WithdrawInsert(p) \/ DecideProfile(p) \/ DecideSave(p) \/ Settle(p) \/ Halfway(p)
  BY <1>4, PackageSaveTyped, WithdrawInsertTyped, DecideProfileTyped, DecideSaveTyped, SettleTyped, HalfwayTyped
<1> QED BY <1>1, <1>2, <1>3, <1>4 DEF Continue

LEMMA InitTyped == Init => Typed
<1> SUFFICES ASSUME Init PROVE Typed
  OBVIOUS
<1>1. profile \in Profile /\ (profile.status # "none" => role = "teacher") /\ role \in {"none", "student", "teacher"}
  BY IdleType DEF Init, Profile, NoProfile
<1>2. hours \subseteq Windows /\ booking \in [Booking -> BookingRow]
  BY IdleType DEF Init
<1>3. req \in [Proc -> Request] /\ \A p \in Proc : req[p].pc = "idle"
  BY IdleType DEF Init, Idle
<1>4. TypeOK
  BY <1>1, <1>2, <1>3 DEF Init, TypeOK, PackageStatus, WithdrawalStatus, MoneySteps, DecisionSteps, BookingSteps
<1> QED BY <1>3, <1>4 DEF Init, Typed, NotYet

LEMMA NextTyped == Typed /\ [Next]_vars => Typed'
<1> SUFFICES ASSUME Typed, [Next]_vars PROVE Typed'
  OBVIOUS
<1>1. ASSUME NEW p \in Proc, Serve(p) PROVE Typed'
  BY <1>1, RouteTyped, TypeFacts DEF Serve
<1>2. ASSUME NEW p \in Proc, Continue(p) PROVE Typed'
  BY <1>2, ContinueTyped
<1>3. CASE Packages \/ Credit
  BY <1>3, NotRequested, TypeFacts DEF Packages, Credit
<1>4. CASE UNCHANGED vars
  BY <1>4 DEF vars, history, Typed, TypeOK, NotYet
<1> QED BY <1>1, <1>2, <1>3, <1>4 DEF Next

\* Every reachable state is well typed, and only a teacher has a profile: for any bookings,
\* withdrawals, packages, amounts, windows, requests and bounds.
THEOREM Types == Spec => []TypeOK
<1>1. Spec => []Typed
  BY InitTyped, NextTyped, PTL DEF Spec
<1>2. Typed => TypeOK
  BY DEF Typed
<1> QED BY <1>1, <1>2, PTL

(***************************************************************************)
(* Bookings                                                                *)
(***************************************************************************)
\* A request that is making a booking, or changing one.
Making == {"bookHours", "bookCheck", "bookInsert"}
Changing == {"bookingSave", "completeSave", "rescheduleSave"}

\* A booking that is being made is nobody else's and not there yet; a change leaves its time.
Held(p) ==
    /\ req[p].pc \in Making => booking[req[p].id].status = "none" /\ req[p].draft.status = "pending"
    /\ req[p].pc \in Changing =>
         LET row == booking[req[p].id] IN
         /\ row.status # "none" /\ req[p].draft.status # "none"
         /\ req[p].draft.start = row.start /\ req[p].draft.length = row.length
Alone == \A p, q \in Proc :
    req[p].pc \in Making /\ req[q].pc \in Making /\ req[p].id = req[q].id => p = q

Inserting(b) == {p \in Proc : req[p].pc = "bookInsert" /\ req[p].id = b}
\* The bookings b met when it was checked are there, and b's time is none of theirs.
Checked(a, b) ==
    /\ booking[a].status # "none"
    /\ booking[b].status # "none" \/ Inserting(b) # {}
    /\ booking[b].status # "none" => b \in moved \/ ~Overlap(booking[a], booking[b])
    /\ \A p \in Inserting(b) : ~Overlap(booking[a], req[p].draft)

Booked == Typed /\ (\A p \in Proc : Held(p)) /\ Alone /\ \A a, b \in Booking : <<a, b>> \in met => Checked(a, b)

\* A step that has nothing to do with bookings.
Elsewhere(p) ==
    /\ Others(p) /\ UNCHANGED <<booking, met, moved>>
    /\ req[p].pc \notin {"bookInsert"} \cup Changing /\ req'[p].pc \notin Making \cup Changing

LEMMA ElsewhereBooked ==
    ASSUME Booked, NEW p \in Proc, Typed', Elsewhere(p)
    PROVE  Booked'
<1>1. \A q \in Proc : Held(q)'
  BY DEF Booked, Elsewhere, Others, Held, Making, Changing
<1>2. Alone'
  BY DEF Booked, Elsewhere, Others, Alone
<1>3. \A b \in Booking : Inserting(b)' = Inserting(b)
  BY DEF Elsewhere, Others, Inserting, Making
<1>4. \A a, b \in Booking : <<a, b>> \in met' => Checked(a, b)'
  <2> SUFFICES ASSUME NEW a \in Booking, NEW b \in Booking, <<a, b>> \in met PROVE Checked(a, b)'
    BY DEF Elsewhere
  <2>1. Checked(a, b)
    BY DEF Booked
  <2>2. \A q \in Inserting(b) : req'[q] = req[q]
    BY DEF Inserting, Elsewhere, Others
  <2> QED BY <1>3, <2>1, <2>2 DEF Checked, Elsewhere
<1> QED BY <1>1, <1>2, <1>4 DEF Booked

LEMMA BeginElsewhere ==
    ASSUME Typed, NEW p \in Proc, NEW r, Begin(p, r), r.pc \notin Making \cup Changing,
           UNCHANGED <<booking, met, moved>>
    PROVE  Elsewhere(p)
BY DEF Typed, TypeOK, Begin, Elsewhere, Others, Making, Changing

LEMMA RouteElsewhere ==
    ASSUME Typed, NEW p \in Proc,
           \/ AccountBegin(p) \/ ProfileBegin(p) \/ ProfileFind(p)
           \/ \E published \in SUBSET Windows : HoursBegin(p, published)
           \/ \E s \in Student : ReviewFind(p, s)
           \/ \E k \in Package : PackageFind(p, k)
           \/ \E w \in Withdrawal : \/ WithdrawFreeze(p, w)
                                   \/ \E verdict \in {"approved", "rejected"} : DecideFind(p, w, verdict)
    PROVE  Elsewhere(p)
<1>1. ASSUME AccountBegin(p) PROVE Elsewhere(p)
  <2> DEFINE r == [Idle EXCEPT !.pc = "promote"]
  <2>1. Begin(p, r) /\ UNCHANGED <<booking, met, moved>>
    BY <1>1 DEF AccountBegin, history
  <2>2. r.pc = "promote"
    BY DEF Idle
  <2> HIDE DEF r
  <2> QED BY <2>1, <2>2, BeginElsewhere DEF Making, Changing
<1>2. ASSUME ProfileBegin(p) PROVE Elsewhere(p)
  <2> DEFINE r == [Idle EXCEPT !.pc = "insert"]
  <2>1. Begin(p, r) /\ UNCHANGED <<booking, met, moved>>
    BY <1>2 DEF ProfileBegin, history
  <2>2. r.pc = "insert"
    BY DEF Idle
  <2> HIDE DEF r
  <2> QED BY <2>1, <2>2, BeginElsewhere DEF Making, Changing
<1>3. ASSUME ProfileFind(p) PROVE Elsewhere(p)
  <2>0. PICK status \in {profile.status, "approved", "suspended"} : Begin(p, [Idle EXCEPT !.pc = "profileSave", !.read = profile, !.entity = [profile EXCEPT !.status = status]])
    BY <1>3 DEF ProfileFind
  <2> DEFINE r == [Idle EXCEPT !.pc = "profileSave", !.read = profile, !.entity = [profile EXCEPT !.status = status]]
  <2>1. Begin(p, r) /\ UNCHANGED <<booking, met, moved>>
    BY <1>3, <2>0 DEF ProfileFind, history
  <2>2. r.pc = "profileSave"
    BY DEF Idle
  <2> HIDE DEF r
  <2> QED BY <2>1, <2>2, BeginElsewhere DEF Making, Changing
<1>4. ASSUME NEW published \in SUBSET Windows, HoursBegin(p, published) PROVE Elsewhere(p)
  <2> DEFINE r == [Idle EXCEPT !.pc = "hoursDelete", !.hours = published]
  <2>1. Begin(p, r) /\ UNCHANGED <<booking, met, moved>>
    BY <1>4 DEF HoursBegin, history
  <2>2. r.pc = "hoursDelete"
    BY DEF Idle
  <2> HIDE DEF r
  <2> QED BY <2>1, <2>2, BeginElsewhere DEF Making, Changing
<1>5. ASSUME NEW s \in Student, ReviewFind(p, s) PROVE Elsewhere(p)
  <2> DEFINE r == [Idle EXCEPT !.pc = "reviewInsert"]
  <2>1. Begin(p, r) /\ UNCHANGED <<booking, met, moved>>
    BY <1>5 DEF ReviewFind, history
  <2>2. r.pc = "reviewInsert"
    BY DEF Idle
  <2> HIDE DEF r
  <2> QED BY <2>1, <2>2, BeginElsewhere DEF Making, Changing
<1>6. ASSUME NEW k \in Package, PackageFind(p, k) PROVE Elsewhere(p)
  <2>0. PICK status \in {"active", "inactive"} : Begin(p, [Idle EXCEPT !.pc = "packageSave", !.id = k, !.verdict = status])
    BY <1>6 DEF PackageFind
  <2> DEFINE r == [Idle EXCEPT !.pc = "packageSave", !.id = k, !.verdict = status]
  <2>1. Begin(p, r) /\ UNCHANGED <<booking, met, moved>>
    BY <1>6, <2>0 DEF PackageFind, history
  <2>2. r.pc = "packageSave"
    BY DEF Idle
  <2> HIDE DEF r
  <2> QED BY <2>1, <2>2, BeginElsewhere DEF Making, Changing
<1>7. ASSUME NEW w \in Withdrawal, WithdrawFreeze(p, w) PROVE Elsewhere(p)
  <2> DEFINE r == [Idle EXCEPT !.pc = "withdrawInsert", !.id = w]
  <2>1. Begin(p, r) /\ UNCHANGED <<booking, met, moved>>
    BY <1>7 DEF WithdrawFreeze, history
  <2>2. r.pc = "withdrawInsert"
    BY DEF Idle
  <2> HIDE DEF r
  <2> QED BY <2>1, <2>2, BeginElsewhere DEF Making, Changing
<1>8. ASSUME NEW w \in Withdrawal, NEW verdict \in {"approved", "rejected"}, DecideFind(p, w, verdict) PROVE Elsewhere(p)
  <2> DEFINE r == [Idle EXCEPT !.pc = "decideProfile", !.id = w, !.verdict = verdict]
  <2>1. Begin(p, r) /\ UNCHANGED <<booking, met, moved>>
    BY <1>8 DEF DecideFind, history
  <2>2. r.pc = "decideProfile"
    BY DEF Idle
  <2> HIDE DEF r
  <2> QED BY <2>1, <2>2, BeginElsewhere DEF Making, Changing
<1> QED BY <1>1, <1>2, <1>3, <1>4, <1>5, <1>6, <1>7, <1>8

LEMMA StepElsewhere ==
    ASSUME Typed, NEW p \in Proc,
           \/ AccountPromote(p) \/ AccountFind(p) \/ ProfileInsert(p) \/ ProfileSave(p)
           \/ HoursDelete(p) \/ HoursInsert(p) \/ BookRefused(p) \/ CompleteCount(p)
           \/ ReviewInsert(p) \/ RatingRead(p) \/ RatingUpdate(p) \/ PackageSave(p)
           \/ WithdrawInsert(p) \/ DecideProfile(p) \/ DecideSave(p) \/ Settle(p) \/ Halfway(p)
    PROVE  Elsewhere(p)
<1> USE DEF Elsewhere, Making, Changing, history
<1>0. /\ TypeOK /\ req \in [Proc -> Request]
      /\ End(p) => Others(p) /\ req'[p].pc = "idle"
      /\ \A step \in {"accountFind", "accountInsert", "hoursInsert", "ratingRead", "settle"} :
             Goto(p, step) => Others(p) /\ req'[p].pc = step
  BY TypeFacts DEF End, Goto, Others, Idle, TypeOK, Request
<1>1. CASE AccountPromote(p) \/ AccountFind(p) \/ ProfileSave(p) \/ HoursDelete(p) \/ HoursInsert(p) \/ BookRefused(p)
  BY <1>0, <1>1 DEF AccountPromote, AccountFind, ProfileSave, Overwrite, HoursDelete, HoursInsert, BookRefused
<1>2. CASE ProfileInsert(p)
  BY <1>0, <1>2 DEF ProfileInsert, Others, Idle
<1>3. CASE CompleteCount(p) \/ ReviewInsert(p) \/ RatingUpdate(p) \/ PackageSave(p)
  BY <1>0, <1>3 DEF CompleteCount, ReviewInsert, RatingUpdate, PackageSave
<1>4. CASE RatingRead(p) \/ DecideProfile(p)
  BY <1>0, <1>4 DEF RatingRead, DecideProfile, Others, Request
<1>5. CASE WithdrawInsert(p) \/ DecideSave(p) \/ Settle(p) \/ Halfway(p)
  BY <1>0, <1>5 DEF WithdrawInsert, DecideSave, Settle, Overwrite, Halfway
<1> QED BY <1>1, <1>2, <1>3, <1>4, <1>5

\* A booking is begun under an id that nobody has ...
LEMMA BookFindBooked ==
    ASSUME Booked, NEW p \in Proc, NEW b \in Booking, NEW s \in Student, Typed', BookFind(p, b, s)
    PROVE  Booked'
<1>1. PICK t \in Starts, n \in Durations :
        Begin(p, [Idle EXCEPT !.pc = "bookHours", !.id = b,
                   !.draft = [status |-> "pending", student |-> s, start |-> t, length |-> n]])
  BY DEF BookFind
<1> DEFINE d == [status |-> "pending", student |-> s, start |-> t, length |-> n]
<1> DEFINE r == [Idle EXCEPT !.pc = "bookHours", !.id = b, !.draft = d]
<1>2. r.pc = "bookHours" /\ r.id = b /\ r.draft.status = "pending"
  BY DEF Idle
<1>3. Others(p) /\ req'[p] = r /\ req[p].pc = "idle"
  BY <1>1 DEF Begin, Booked, Typed, TypeOK, Others
<1> HIDE DEF r
<1>4. booking[b].status = "none" /\ IsUnused(b) /\ UNCHANGED <<booking, met, moved>>
  BY DEF BookFind, history
<1>5. \A q \in Proc : Held(q)'
  BY <1>2, <1>3, <1>4 DEF Booked, Others, Held, Making, Changing
<1>6. Alone'
  BY <1>2, <1>3, <1>4 DEF Booked, Others, Alone, IsUnused
<1>7. \A x \in Booking : Inserting(x)' = Inserting(x) /\ \A q \in Inserting(x) : req'[q] = req[q]
  BY <1>2, <1>3 DEF Others, Inserting
<1>8. \A x, y \in Booking : <<x, y>> \in met' => Checked(x, y)'
  BY <1>4, <1>7 DEF Booked, Checked
<1> QED BY <1>5, <1>6, <1>8 DEF Booked

LEMMA BookHoursBooked ==
    ASSUME Booked, NEW p \in Proc, Typed', BookHours(p)
    PROVE  Booked'
<1>1. /\ Others(p) /\ req[p].pc = "bookHours" /\ req'[p].pc = "bookCheck"
      /\ req'[p].id = req[p].id /\ req'[p].draft = req[p].draft /\ UNCHANGED <<booking, met, moved>>
  BY DEF BookHours, Booked, Typed, TypeOK, Others, history, Request
<1>2. \A q \in Proc : Held(q)'
  BY <1>1 DEF Booked, Others, Held, Making, Changing
<1>3. Alone'
  BY <1>1 DEF Booked, Others, Alone, Making
<1>4. \A x \in Booking : Inserting(x)' = Inserting(x) /\ \A q \in Inserting(x) : req'[q] = req[q]
  BY <1>1 DEF Others, Inserting
<1>5. \A x, y \in Booking : <<x, y>> \in met' => Checked(x, y)'
  BY <1>1, <1>4 DEF Booked, Checked
<1> QED BY <1>2, <1>3, <1>5 DEF Booked

\* ... meets the confirmed ones, ...
LEMMA BookCheckBooked ==
    ASSUME Booked, NEW p \in Proc, Typed', BookCheck(p)
    PROVE  Booked'
<1> DEFINE b == req[p].id
<1>1. /\ Others(p) /\ req[p].pc = "bookCheck" /\ req'[p].pc = "bookInsert"
      /\ req'[p].id = b /\ req'[p].draft = req[p].draft /\ UNCHANGED <<booking, moved>>
      /\ met' = met \cup (Confirmed \X {b})
      /\ \A a \in Confirmed : ~Overlap(booking[a], req[p].draft)
  BY DEF BookCheck, Booked, Typed, TypeOK, Others, Request, IsAvailable
<1>0. b \in Booking /\ booking[b].status = "none"
  BY <1>1 DEF Booked, Typed, TypeOK, Held, Making, BookingSteps
<1>2. \A q \in Proc : Held(q)'
  BY <1>1 DEF Booked, Others, Held, Making, Changing
<1>3. Alone'
  BY <1>1 DEF Booked, Others, Alone, Making
<1>4. /\ Inserting(b) = {} /\ Inserting(b)' = {p}
      /\ \A x \in Booking \ {b} : Inserting(x)' = Inserting(x) /\ \A q \in Inserting(x) : req'[q] = req[q]
  BY <1>1 DEF Booked, Others, Alone, Inserting, Making
<1>5. ASSUME NEW x \in Booking, NEW y \in Booking, <<x, y>> \in met' PROVE Checked(x, y)'
  <2>1. CASE y # b
    <3>1. <<x, y>> \in met /\ Checked(x, y)
      BY <1>1, <1>5, <2>1 DEF Booked
    <3> QED BY <1>1, <1>4, <2>1, <3>1 DEF Checked
  <2>2. CASE y = b
    <3>1. <<x, y>> \notin met
      BY <1>0, <1>4, <2>2 DEF Booked, Checked
    <3>2. x \in Confirmed
      BY <1>1, <1>5, <3>1
    <3> QED BY <1>0, <1>1, <1>4, <2>2, <3>2 DEF Checked, Confirmed
  <2> QED BY <2>1, <2>2
<1> QED BY <1>2, <1>3, <1>5 DEF Booked

\* ... and is inserted.
LEMMA BookInsertBooked ==
    ASSUME Booked, NEW p \in Proc, Typed', BookInsert(p)
    PROVE  Booked'
<1>b. PICK b \in Booking : b = req[p].id
  BY TypeFacts DEF BookInsert, Booked, Typed, TypeOK, BookingSteps
<1>1. /\ Others(p) /\ req[p].pc = "bookInsert" /\ req'[p].pc = "idle" /\ UNCHANGED <<met, moved>>
      /\ booking' = [booking EXCEPT ![b] = req[p].draft]
  BY <1>b, EndFacts DEF BookInsert, Booked, Typed, history
<1>0. /\ b \in Booking /\ booking[b].status = "none" /\ req[p].draft.status = "pending"
      /\ booking'[b] = req[p].draft /\ \A x \in Booking \ {b} : booking'[x] = booking[x]
  BY <1>b, <1>1 DEF Booked, Typed, TypeOK, Held, Making
<1>2. ASSUME NEW q \in Proc PROVE Held(q)'
  <2>1. CASE q = p
    BY <1>1, <2>1 DEF Held, Making, Changing
  <2>2. CASE q # p
    <3>1. req'[q] = req[q] /\ Held(q) /\ WellTyped(req[q])
      BY <2>2, <1>1, TypeFacts DEF Others, Booked
    <3>2. req[q].pc \in Making => req[q].id # b
      BY <1>b, <1>1, <2>2 DEF Booked, Alone, Making
    <3>3. req[q].pc \in Changing => req[q].id # b
      BY <1>0, <3>1 DEF Held
    <3>4. req[q].pc \in Making \cup Changing => req[q].id \in Booking
      BY <3>1 DEF WellTyped, Making, Changing, BookingSteps
    <3> QED BY <1>0, <3>1, <3>2, <3>3, <3>4 DEF Held
  <2> QED BY <2>1, <2>2
<1>3. Alone'
  BY <1>1 DEF Booked, Others, Alone, Making
<1>4. /\ Inserting(b) = {p} /\ Inserting(b)' = {}
      /\ \A x \in Booking \ {b} : Inserting(x)' = Inserting(x) /\ \A q \in Inserting(x) : req'[q] = req[q]
  BY <1>b, <1>1 DEF Booked, Others, Alone, Inserting, Making
<1>5. ASSUME NEW x \in Booking, NEW y \in Booking, <<x, y>> \in met' PROVE Checked(x, y)'
  <2>0. Checked(x, y) /\ x # b
    BY <1>0, <1>1, <1>5 DEF Booked, Checked
  <2>1. CASE y # b
    BY <1>0, <1>1, <1>4, <2>0, <2>1 DEF Checked
  <2>2. CASE y = b
    BY <1>0, <1>1, <1>4, <2>0, <2>2 DEF Checked
  <2> QED BY <2>1, <2>2
<1> QED BY <1>2, <1>3, <1>5 DEF Booked


LEMMA BookingFindBooked ==
    ASSUME Booked, NEW p \in Proc, NEW b \in Booking, Typed',
           NEW status \in {"confirmed", "cancelled", "completed", "rescheduled"},
           NEW step \in Changing, BookingFind(p, b, status, step)
    PROVE  Booked'
<1> DEFINE d == [booking[b] EXCEPT !.status = status]
<1> DEFINE r == [Idle EXCEPT !.pc = step, !.id = b, !.draft = d]
<1>0. booking[b] \in BookingRow
  BY DEF Booked, Typed, TypeOK
<1>1. d.status = status /\ d.start = booking[b].start /\ d.length = booking[b].length
  BY <1>0 DEF BookingRow
<1>2. /\ booking[b].status # "none" /\ Begin(p, r) /\ UNCHANGED <<booking, met, moved>>
  BY DEF BookingFind, history
<1> HIDE DEF d
<1>3. r.pc = step /\ r.id = b /\ r.draft = d
  BY DEF Idle
<1>4. Others(p) /\ req'[p] = r /\ req[p].pc = "idle"
  BY <1>2 DEF Begin, Booked, Typed, TypeOK, Others
<1> HIDE DEF r
<1>5. \A q \in Proc : Held(q)'
  <2> SUFFICES ASSUME NEW q \in Proc PROVE Held(q)'
    OBVIOUS
  <2>1. CASE q = p
    BY <1>1, <1>2, <1>3, <1>4, <2>1 DEF Held, Making, Changing
  <2>2. CASE q # p
    BY <1>2, <1>4, <2>2 DEF Booked, Others, Held
  <2> QED BY <2>1, <2>2
<1>6. Alone'
  BY <1>3, <1>4 DEF Booked, Others, Alone, Making, Changing
<1>7. \A x \in Booking : Inserting(x)' = Inserting(x) /\ \A q \in Inserting(x) : req'[q] = req[q]
  BY <1>3, <1>4 DEF Others, Inserting, Changing
<1>8. \A x, y \in Booking : <<x, y>> \in met' => Checked(x, y)'
  BY <1>2, <1>7 DEF Booked, Checked
<1> QED BY <1>5, <1>6, <1>8 DEF Booked

\* A saved booking keeps its time, whatever has become of it meanwhile.
LEMMA BookingSaveBooked ==
    ASSUME Booked, NEW p \in Proc, Typed', BookingSave(p) \/ CompleteSave(p) \/ RescheduleSave(p)
    PROVE  Booked'
<1>b. PICK b \in Booking : b = req[p].id
  BY TypeFacts DEF BookingSave, CompleteSave, RescheduleSave, Booked, Typed, TypeOK, BookingSteps
<1>1. /\ req[p].pc \in Changing /\ booking' = [booking EXCEPT ![b] = req[p].draft]
      /\ UNCHANGED <<met, moved>>
  BY <1>b DEF BookingSave, CompleteSave, RescheduleSave, Changing, history
<1>2. Others(p) /\ req'[p].pc \in {"idle", "completeCount", "rescheduleInsert"}
  <2>1. CASE BookingSave(p)
    BY <2>1, EndFacts DEF BookingSave, Booked, Typed
  <2>2. CASE CompleteSave(p)
    BY <2>2 DEF CompleteSave, Booked, Typed, TypeOK, Others, Idle
  <2>3. CASE RescheduleSave(p)
    BY <2>3 DEF RescheduleSave, Goto, Booked, Typed, TypeOK, Others, Request
  <2> QED BY <2>1, <2>2, <2>3
<1>3. /\ booking[b].status # "none" /\ booking'[b].status # "none"
      /\ booking'[b].start = booking[b].start /\ booking'[b].length = booking[b].length
      /\ \A x \in Booking \ {b} : booking'[x] = booking[x]
  BY <1>b, <1>1 DEF Booked, Typed, TypeOK, Held
<1>4. ASSUME NEW q \in Proc PROVE Held(q)'
  <2>1. CASE q = p
    BY <1>2, <2>1 DEF Held, Making, Changing
  <2>2. CASE q # p
    <3>1. req'[q] = req[q] /\ Held(q) /\ WellTyped(req[q])
      BY <2>2, <1>2, TypeFacts DEF Others, Booked
    <3>2. req[q].pc \in Making => req[q].id # b
      BY <1>3, <3>1 DEF Held
    <3>3. req[q].pc \in Making \cup Changing => req[q].id \in Booking
      BY <3>1 DEF WellTyped, Making, Changing, BookingSteps
    <3> QED BY <1>3, <3>1, <3>2, <3>3 DEF Held
  <2> QED BY <2>1, <2>2
<1>5. Alone'
  BY <1>2 DEF Booked, Others, Alone, Making
<1>6. \A x \in Booking : Inserting(x)' = Inserting(x) /\ \A q \in Inserting(x) : req'[q] = req[q]
  BY <1>1, <1>2 DEF Others, Inserting, Changing
<1>7. ASSUME NEW x \in Booking, NEW y \in Booking, <<x, y>> \in met' PROVE Checked(x, y)'
  <2>1. Checked(x, y)
    BY <1>1, <1>7 DEF Booked
  <2>2. \A z \in Booking : /\ booking'[z].start = booking[z].start /\ booking'[z].length = booking[z].length
                           /\ (booking'[z].status # "none") = (booking[z].status # "none")
    BY <1>3
  <2>3. /\ Overlap(booking[x], booking[y])' = Overlap(booking[x], booking[y])
        /\ \A q \in Inserting(y) : Overlap(booking[x], req[q].draft)' = Overlap(booking[x], req[q].draft)
    BY <1>6, <2>2 DEF Overlap
  <2> QED BY <1>1, <1>6, <2>1, <2>2, <2>3 DEF Checked
<1> QED BY <1>4, <1>5, <1>7 DEF Booked

\* What a reschedule puts there is moved, and nobody has checked it.
LEMMA RescheduleInsertBooked ==
    ASSUME Booked, NEW p \in Proc, Typed', RescheduleInsert(p)
    PROVE  Booked'
<1>1. PICK b \in Booking, t \in Starts :
         /\ booking[b].status = "none" /\ IsUnused(b)
         /\ booking' = [booking EXCEPT ![b] = [req[p].draft EXCEPT !.status = "confirmed", !.start = t]]
         /\ moved' = moved \cup {b}
  BY DEF RescheduleInsert
<1> DEFINE d == [req[p].draft EXCEPT !.status = "confirmed", !.start = t]
<1>2. d.status = "confirmed"
  BY DEF Booked, Typed, TypeOK, Request, BookingRow
<1>3. booking'[b] = d /\ \A x \in Booking \ {b} : booking'[x] = booking[x]
  BY <1>1 DEF Booked, Typed, TypeOK
<1> HIDE DEF d
<1>4. req[p].pc = "rescheduleInsert" /\ Others(p) /\ req'[p].pc = "idle" /\ met' = met
  BY EndFacts DEF RescheduleInsert, Booked, Typed
<1>5. ASSUME NEW q \in Proc PROVE Held(q)'
  <2>1. CASE q = p
    BY <1>4, <2>1 DEF Held, Making, Changing
  <2>2. CASE q # p
    <3>1. req'[q] = req[q] /\ Held(q) /\ WellTyped(req[q]) /\ req[q].id # b
      BY <2>2, <1>1, <1>4, TypeFacts DEF Others, Booked, IsUnused
    <3>2. req[q].pc \in Making \cup Changing => req[q].id \in Booking
      BY <3>1 DEF WellTyped, Making, Changing, BookingSteps
    <3> QED BY <1>3, <3>1, <3>2 DEF Held
  <2> QED BY <2>1, <2>2
<1>6. Alone'
  BY <1>4 DEF Booked, Others, Alone, Making
<1>7. \A x \in Booking : Inserting(x)' = Inserting(x) /\ \A q \in Inserting(x) : req'[q] = req[q]
  BY <1>4 DEF Others, Inserting
<1>8. ASSUME NEW x \in Booking, NEW y \in Booking, <<x, y>> \in met' PROVE Checked(x, y)'
  <2>1. Checked(x, y)
    BY <1>4, <1>8 DEF Booked
  <2>2. x # b
    BY <1>1, <2>1 DEF Checked
  <2>3. y # b
    BY <1>1, <2>1 DEF Checked, Inserting, IsUnused
  <2> QED BY <1>1, <1>3, <1>7, <2>1, <2>2, <2>3 DEF Checked
<1> QED BY <1>5, <1>6, <1>8 DEF Booked

LEMMA NextBooked == Booked /\ [Next]_vars => Booked'
<1> SUFFICES ASSUME Booked, [Next]_vars PROVE Booked'
  OBVIOUS
<1>0. Typed' /\ Typed
  BY NextTyped DEF Booked
<1>1. ASSUME NEW p \in Proc, Serve(p) PROVE Booked'
  <2>1. CASE \E b \in Booking, s \in Student : BookFind(p, b, s)
    BY <1>0, <2>1, BookFindBooked
  <2>2. CASE \E b \in Booking : ConfirmFind(p, b) \/ CancelFind(p, b) \/ CompleteFind(p, b) \/ RescheduleFind(p, b)
    BY <1>0, <2>2, BookingFindBooked DEF ConfirmFind, CancelFind, CompleteFind, RescheduleFind, Changing
  <2>3. CASE /\ ~\E b \in Booking, s \in Student : BookFind(p, b, s)
             /\ ~\E b \in Booking : ConfirmFind(p, b) \/ CancelFind(p, b) \/ CompleteFind(p, b) \/ RescheduleFind(p, b)
    BY <1>0, <1>1, <2>3, RouteElsewhere, ElsewhereBooked DEF Serve, Route, AccountRoute, BookingRoute, WalletRoute
  <2> QED BY <2>1, <2>2, <2>3
<1>2. ASSUME NEW p \in Proc, Continue(p) PROVE Booked'
  <2>1. CASE BookHours(p) \/ BookCheck(p) \/ BookInsert(p)
    BY <1>0, <2>1, BookHoursBooked, BookCheckBooked, BookInsertBooked
  <2>2. CASE BookingSave(p) \/ CompleteSave(p) \/ RescheduleSave(p) \/ RescheduleInsert(p)
    BY <1>0, <2>2, BookingSaveBooked, RescheduleInsertBooked
  <2>3. CASE \/ AccountPromote(p) \/ AccountFind(p) \/ ProfileInsert(p) \/ ProfileSave(p)
             \/ HoursDelete(p) \/ HoursInsert(p) \/ BookRefused(p) \/ CompleteCount(p)
             \/ ReviewInsert(p) \/ RatingRead(p) \/ RatingUpdate(p) \/ PackageSave(p)
             \/ WithdrawInsert(p) \/ DecideProfile(p) \/ DecideSave(p) \/ Settle(p) \/ Halfway(p)
    BY <1>0, <2>3, StepElsewhere, ElsewhereBooked
  <2> QED BY <1>2, <2>1, <2>2, <2>3 DEF Continue
<1>3. ASSUME UNCHANGED <<booking, req, met, moved>> PROVE Booked'
  BY <1>0, <1>3 DEF Booked, Held, Alone, Checked, Inserting
<1>4. CASE Packages \/ Credit
  BY <1>3, <1>4 DEF Packages, PackageCreate, Credit, history
<1>5. CASE UNCHANGED vars
  BY <1>3, <1>5 DEF vars
<1> QED BY <1>1, <1>2, <1>4, <1>5 DEF Next

LEMMA BookedOnce == Booked => BookedOnceUnlessTogether
<1> SUFFICES ASSUME Booked, NEW a \in Confirmed, NEW b \in Confirmed, <<a, b>> \in met,
                    {a, b} \cap moved = {}, NEW i \in Occupied(booking[a]), i \in Occupied(booking[b])
             PROVE  FALSE
  BY DEF BookedOnceUnlessTogether
<1>1. a \in Booking /\ b \in Booking /\ booking[b].status = "confirmed"
  BY DEF Confirmed
<1>2. ~Overlap(booking[a], booking[b])
  BY <1>1 DEF Booked, Checked
<1>3. booking[a] \in BookingRow /\ booking[b] \in BookingRow
  BY <1>1 DEF Booked, Typed, TypeOK
<1> QED BY <1>2, <1>3 DEF Occupied, Overlap, BookingRow

\* Of two confirmed bookings with a half hour in common one was rescheduled, or neither was
\* confirmed when the other was checked.
THEOREM BookedOnceHolds == Spec => []BookedOnceUnlessTogether
<1>1. Init => Booked
  BY InitTyped DEF Booked, Held, Alone, Init, Idle, Making, Changing
<1>2. Spec => []Booked
  BY <1>1, NextBooked, PTL DEF Spec
<1> QED BY <1>2, BookedOnce, PTL

(***************************************************************************)
(* The wallet: the balances add up                                         *)
(***************************************************************************)
\* Requests whose withdrawal is on hold, whatever its row says.
Moving == {"withdrawInsert", "settle"}

\* What a request is about to save of the profile.
Reckoned(r) ==
    /\ r.pc = "profileSave" => Money(r.entity) = Money(r.read)
    /\ r.pc \in {"decideSave", "settle"} => Money(r.entity) = Money(Settled(r.read, r.id, r.verdict))
    /\ r.pc \in {"profileSave", "decideSave", "settle"} => r.entity.status # "none"

\* Where there is no profile there is no money, and nobody asks for any.
Unopened ==
    /\ Money(profile) = <<0, 0, 0>>
    /\ \A w \in Withdrawal : withdrawal[w] = "none"
    /\ \A p \in Proc : req[p].pc \notin MoneySteps

\* Money that was frozen is asked for by one request, of which there is no row yet; ...
Asked == \A p \in Proc : req[p].pc = "withdrawInsert" =>
    /\ withdrawal[req[p].id] = "none"
    /\ \A q \in Proc : req[q].pc \in MoneySteps /\ req[q].id = req[p].id => q = p
\* ... and a decision that was saved is settled by one.
Decided == \A p \in Proc : req[p].pc = "settle" =>
    /\ withdrawal[req[p].id] = req[p].verdict
    /\ \A q \in Proc : req[q].pc = "settle" /\ req[q].id = req[p].id => q = p

Wallet ==
    /\ Typed
    /\ \A p \in Proc : Reckoned(req[p])
    /\ profile.status = "none" => Unopened
    /\ Asked
    /\ mishap = {} => Decided
    /\ WalletMatches

LEMMA WalletFacts ==
    ASSUME Wallet
    PROVE  /\ Typed /\ TypeOK /\ Asked
           /\ profile.current \in Int /\ profile.frozen \in Int /\ profile.withdrawn \in Int /\ earned \in Nat
           /\ \A p \in Proc : Reckoned(req[p]) /\ WellTyped(req[p])
BY TypeFacts DEF Wallet, Profile

LEMMA WithdrawalsHeld ==
    ASSUME Wallet
    PROVE  OnHold \subseteq Withdrawal /\ PaidOut \subseteq Withdrawal
BY WalletFacts DEF OnHold, PaidOut, WellTyped, MoneySteps, DecisionSteps

(***************************************************************************)
(* Steps that leave the money alone                                        *)
(***************************************************************************)
\* A step of p that neither moves money nor takes part in moving it; or moves it, and is
\* noted as a mishap.
Quiet(p) ==
    /\ Others(p) /\ UNCHANGED <<withdrawal, earned>>
    /\ mishap' = {} => mishap = {} /\ Money(profile') = Money(profile)
    /\ profile'.status = "none" =>
           profile.status = "none" /\ Money(profile') = Money(profile) /\ req'[p].pc \notin MoneySteps
    /\ req[p].pc \notin Moving /\ req'[p].pc \notin Moving
    /\ Reckoned(req'[p])
    /\ req'[p].pc \in MoneySteps =>
           \/ req[p].pc \in MoneySteps /\ req'[p].id = req[p].id
           \/ withdrawal[req'[p].id] = "pending"

LEMMA QuietWallet ==
    ASSUME Wallet, NEW p \in Proc, Typed', Quiet(p)
    PROVE  Wallet'
<1>1. \A q \in Proc : Reckoned(req[q])'
  BY WalletFacts DEF Quiet, Others, Reckoned
<1>2. (profile.status = "none" => Unopened)'
  BY DEF Wallet, Quiet, Others, Unopened
<1>3. Asked'
  <2> SUFFICES ASSUME NEW q \in Proc, req'[q].pc = "withdrawInsert", NEW r \in Proc,
                      req'[r].pc \in MoneySteps, req'[r].id = req'[q].id, r # q
               PROVE  FALSE
    <3>1. ASSUME NEW q \in Proc, req'[q].pc = "withdrawInsert" PROVE withdrawal'[req'[q].id] = "none"
      BY <3>1, WalletFacts DEF Quiet, Others, Moving, Asked
    <3> QED BY <3>1 DEF Asked
  <2>1. q # p /\ req'[q] = req[q] /\ req[q].pc = "withdrawInsert" /\ withdrawal[req[q].id] = "none"
    BY WalletFacts DEF Quiet, Others, Moving, Asked
  <2>2. CASE r = p
    BY <2>1, <2>2, WalletFacts DEF Quiet, Asked
  <2>3. CASE r # p
    BY <2>1, <2>3, WalletFacts DEF Quiet, Others, Asked
  <2> QED BY <2>2, <2>3
<1>4. (mishap = {} => Decided)'
  BY DEF Wallet, Quiet, Others, Moving, Decided
<1>5. OnHold' = OnHold /\ PaidOut' = PaidOut
  <2>1. \A q \in Proc : req'[q].pc \in Moving \/ req[q].pc \in Moving => req'[q] = req[q]
    BY DEF Quiet, Others
  <2> QED BY <2>1 DEF Quiet, OnHold, PaidOut, Moving
<1>6. WalletMatches'
  BY <1>5, WalletFacts DEF Wallet, Quiet, WalletMatches, Money
<1> QED BY <1>1, <1>2, <1>3, <1>4, <1>6 DEF Wallet

\* What has nothing to do with the wallet at all.
LEMMA PlainQuiet ==
    ASSUME Typed, NEW p \in Proc, Others(p), UNCHANGED <<withdrawal, earned, mishap>>,
           Money(profile') = Money(profile), profile'.status = "none" => profile.status = "none",
           req[p].pc \notin Moving, req'[p].pc \notin MoneySteps \cup {"profileSave"}
    PROVE  Quiet(p)
BY DEF Quiet, Reckoned, MoneySteps, DecisionSteps, Moving

LEMMA BeginPlain ==
    ASSUME Typed, NEW p \in Proc, NEW r, Begin(p, r), r.pc \notin MoneySteps \cup {"profileSave"},
           UNCHANGED <<profile, withdrawal, history>>
    PROVE  Quiet(p)
<1>1. Others(p) /\ req'[p] = r /\ req[p].pc = "idle"
  BY TypeFacts DEF Begin, TypeOK, Others
<1> QED BY <1>1, PlainQuiet DEF history, Moving

\* The routes that only find something.
LEMMA RouteQuiet ==
    ASSUME Typed, NEW p \in Proc,
           \/ AccountBegin(p) \/ ProfileBegin(p)
           \/ \E published \in SUBSET Windows : HoursBegin(p, published)
           \/ \E s \in Student : ReviewFind(p, s)
           \/ \E k \in Package : PackageFind(p, k)
           \/ \E b \in Booking : \/ \E s \in Student : BookFind(p, b, s)
                                \/ ConfirmFind(p, b) \/ CancelFind(p, b)
                                \/ CompleteFind(p, b) \/ RescheduleFind(p, b)
    PROVE  Quiet(p)
<1> DEFINE Found(r) == Begin(p, r) /\ UNCHANGED <<profile, withdrawal, history>>
<1>0. ASSUME NEW r, Found(r), r.pc \in PcSet \ (MoneySteps \cup {"profileSave"}) PROVE Quiet(p)
  BY <1>0, BeginPlain
<1>1. ASSUME AccountBegin(p) \/ ProfileBegin(p) PROVE Quiet(p)
  <2>1. \E step \in {"promote", "insert"} : Found([Idle EXCEPT !.pc = step])
    BY <1>1 DEF AccountBegin, ProfileBegin
  <2>2. PICK step \in {"promote", "insert"} : Found([Idle EXCEPT !.pc = step])
    BY <2>1
  <2>3. [Idle EXCEPT !.pc = step].pc = step
    BY DEF Idle
  <2> QED BY <2>2, <2>3, <1>0 DEF PcSet, AccountSteps, MoneySteps, DecisionSteps
<1>2. ASSUME NEW published \in SUBSET Windows, HoursBegin(p, published) PROVE Quiet(p)
  <2>1. Found([Idle EXCEPT !.pc = "hoursDelete", !.hours = published])
    BY <1>2 DEF HoursBegin
  <2>2. [Idle EXCEPT !.pc = "hoursDelete", !.hours = published].pc = "hoursDelete"
    BY DEF Idle
  <2> QED BY <2>1, <2>2, <1>0 DEF PcSet, HourSteps, MoneySteps, DecisionSteps
<1>3. ASSUME NEW s \in Student, ReviewFind(p, s) PROVE Quiet(p)
  <2>1. Found([Idle EXCEPT !.pc = "reviewInsert"])
    BY <1>3 DEF ReviewFind
  <2>2. [Idle EXCEPT !.pc = "reviewInsert"].pc = "reviewInsert"
    BY DEF Idle
  <2> QED BY <2>1, <2>2, <1>0 DEF PcSet, ReviewSteps, MoneySteps, DecisionSteps
<1>4. ASSUME NEW k \in Package, PackageFind(p, k) PROVE Quiet(p)
  <2>1. PICK status \in {"active", "inactive"} : Found([Idle EXCEPT !.pc = "packageSave", !.id = k, !.verdict = status])
    BY <1>4 DEF PackageFind
  <2>2. [Idle EXCEPT !.pc = "packageSave", !.id = k, !.verdict = status].pc = "packageSave"
    BY DEF Idle
  <2> QED BY <2>1, <2>2, <1>0 DEF PcSet, MoneySteps, DecisionSteps
<1>5. ASSUME NEW b \in Booking, NEW s \in Student, BookFind(p, b, s) PROVE Quiet(p)
  <2>1. PICK t \in Starts, n \in Durations :
            Found([Idle EXCEPT !.pc = "bookHours", !.id = b,
                               !.draft = [status |-> "pending", student |-> s, start |-> t, length |-> n]])
    BY <1>5 DEF BookFind
  <2>2. \A d : [Idle EXCEPT !.pc = "bookHours", !.id = b, !.draft = d].pc = "bookHours"
    BY DEF Idle
  <2> QED BY <2>1, <2>2, <1>0 DEF PcSet, BookingSteps, MoneySteps, DecisionSteps
<1>6. ASSUME NEW b \in Booking, NEW status, NEW step \in Changing, BookingFind(p, b, status, step) PROVE Quiet(p)
  <2>1. Found([Idle EXCEPT !.pc = step, !.id = b, !.draft = [booking[b] EXCEPT !.status = status]])
    BY <1>6 DEF BookingFind
  <2>2. \A d : [Idle EXCEPT !.pc = step, !.id = b, !.draft = d].pc = step
    BY DEF Idle
  <2> QED BY <2>1, <2>2, <1>0 DEF PcSet, BookingSteps, Changing, MoneySteps, DecisionSteps
<1> QED BY <1>1, <1>2, <1>3, <1>4, <1>5, <1>6 DEF ConfirmFind, CancelFind, CompleteFind, RescheduleFind, Changing

\* A profile that is found is as it was, but for its status; ...
LEMMA ProfileFindQuiet ==
    ASSUME Typed, NEW p \in Proc, ProfileFind(p)
    PROVE  Quiet(p)
<1>1. PICK status \in {profile.status, "approved", "suspended"} :
          Begin(p, [Idle EXCEPT !.pc = "profileSave", !.read = profile, !.entity = [profile EXCEPT !.status = status]])
  BY DEF ProfileFind
<1> DEFINE e == [profile EXCEPT !.status = status]
<1> DEFINE r == [Idle EXCEPT !.pc = "profileSave", !.read = profile, !.entity = e]
<1>2. e.status # "none" /\ Money(e) = Money(profile)
  BY TypeFacts DEF ProfileFind, Profile, Money
<1> HIDE DEF e
<1>3. r.pc = "profileSave" /\ r.read = profile /\ r.entity = e
  BY DEF Idle
<1>4. Others(p) /\ req'[p] = r /\ req[p].pc = "idle"
  BY <1>1, TypeFacts DEF Begin, TypeOK, Others, e
<1> HIDE DEF r
<1>5. profile.status # "none" /\ UNCHANGED <<profile, withdrawal, history>>
  BY DEF ProfileFind
<1> QED BY <1>2, <1>3, <1>4, <1>5 DEF Quiet, Reckoned, Moving, MoneySteps, DecisionSteps, history

\* ... a request to decide meets a pending withdrawal, ...
LEMMA DecideFindQuiet ==
    ASSUME Wallet, NEW p \in Proc, NEW w \in Withdrawal, NEW verdict \in {"approved", "rejected"},
           DecideFind(p, w, verdict)
    PROVE  Quiet(p)
<1> DEFINE r == [Idle EXCEPT !.pc = "decideProfile", !.id = w, !.verdict = verdict]
<1>1. Begin(p, r) /\ withdrawal[w] = "pending" /\ UNCHANGED <<profile, withdrawal, history>>
  BY DEF DecideFind
<1>2. r.pc = "decideProfile" /\ r.id = w
  BY DEF Idle
<1> HIDE DEF r
<1>3. Others(p) /\ req'[p] = r /\ req[p].pc = "idle"
  BY <1>1, WalletFacts DEF Begin, TypeOK, Others
<1>4. profile.status # "none"
  BY <1>1 DEF Wallet, Unopened
<1> QED BY <1>1, <1>2, <1>3, <1>4 DEF Quiet, Reckoned, Moving, MoneySteps, DecisionSteps, history

(***************************************************************************)
(* Requests that go on                                                     *)
(***************************************************************************)
\* A request at a step that has nothing to do with the wallet, in whatever it changes else.
LEMMA StepQuiet ==
    ASSUME Typed, NEW p \in Proc,
           \/ AccountPromote(p) \/ AccountFind(p) \/ HoursDelete(p) \/ HoursInsert(p)
           \/ BookHours(p) \/ BookCheck(p) \/ BookRefused(p) \/ BookInsert(p)
           \/ BookingSave(p) \/ CompleteSave(p) \/ CompleteCount(p) \/ RescheduleSave(p) \/ RescheduleInsert(p)
           \/ ReviewInsert(p) \/ RatingRead(p) \/ RatingUpdate(p) \/ PackageSave(p)
    PROVE  Quiet(p)
<1> DEFINE Ends == {"idle", "accountFind", "accountInsert", "hoursInsert", "bookCheck", "bookInsert",
                    "completeCount", "rescheduleInsert", "ratingRead", "ratingUpdate"}
<1>0. /\ TypeOK /\ req \in [Proc -> Request]
      /\ End(p) => Others(p) /\ req'[p].pc = "idle"
      /\ \A step \in Ends : Goto(p, step) => Others(p) /\ req'[p].pc = step
  BY TypeFacts DEF End, Goto, Others, Idle, TypeOK, Request
<1>1. Ends \cap (MoneySteps \cup {"profileSave"}) = {}
  BY DEF MoneySteps, DecisionSteps
<1>2. ASSUME Others(p), req'[p].pc \in Ends, req[p].pc \notin Moving, UNCHANGED <<withdrawal, earned, mishap>>,
             UNCHANGED profile \/ CompleteCount(p) \/ RatingUpdate(p)
      PROVE  Quiet(p)
  <2>1. Money(profile') = Money(profile) /\ profile'.status = profile.status
    BY <1>2, TypeFacts DEF CompleteCount, RatingUpdate, Profile, Money
  <2> QED BY <1>1, <1>2, <2>1, PlainQuiet
<1>3. CASE AccountPromote(p) \/ AccountFind(p) \/ HoursDelete(p) \/ HoursInsert(p) \/ BookRefused(p)
  BY <1>0, <1>2, <1>3 DEF AccountPromote, AccountFind, HoursDelete, HoursInsert, BookRefused, history, Moving
<1>4. CASE BookHours(p) \/ BookCheck(p) \/ RatingRead(p)
  <2>1. Others(p) /\ req'[p].pc \in {"bookCheck", "bookInsert", "ratingUpdate"}
    BY <1>0, <1>4 DEF BookHours, BookCheck, RatingRead, Others, Request
  <2> QED BY <2>1, <1>2, <1>4 DEF BookHours, BookCheck, RatingRead, history, Moving
<1>5. CASE CompleteSave(p)
  <2>1. Others(p) /\ req'[p].pc = "completeCount"
    BY <1>0, <1>5 DEF CompleteSave, Others, Idle
  <2> QED BY <2>1, <1>2, <1>5 DEF CompleteSave, history, Moving
<1>6. CASE BookInsert(p) \/ BookingSave(p) \/ RescheduleSave(p) \/ RescheduleInsert(p)
  BY <1>0, <1>2, <1>6 DEF BookInsert, BookingSave, RescheduleSave, RescheduleInsert, history, Moving
<1>7. CASE CompleteCount(p) \/ RatingUpdate(p) \/ ReviewInsert(p) \/ PackageSave(p)
  BY <1>0, <1>2, <1>7 DEF CompleteCount, RatingUpdate, ReviewInsert, PackageSave, history, Moving
<1> QED BY <1>3, <1>4, <1>5, <1>6, <1>7

\* A new profile has no money; one that is there stays as it is.
LEMMA ProfileInsertQuiet ==
    ASSUME Wallet, NEW p \in Proc, ProfileInsert(p)
    PROVE  Quiet(p)
<1> DEFINE new == [NoProfile EXCEPT !.status = "pending"]
<1> DEFINE e == [new EXCEPT !.status = "approved"]
<1> DEFINE r == [Idle EXCEPT !.pc = "profileSave", !.read = new, !.entity = e]
<1>1. /\ Money(new) = <<0, 0, 0>> /\ Money(e) = <<0, 0, 0>>
      /\ new.status = "pending" /\ e.status = "approved"
  BY DEF NoProfile, Money
<1>2. /\ req[p].pc \in {"insert", "accountInsert"}
      /\ profile' = IF profile.status = "none" THEN new ELSE profile
      /\ UNCHANGED <<withdrawal, earned, mishap>>
      /\ \/ profile.status = "none" /\ req' = [req EXCEPT ![p] = r]
         \/ End(p)
  BY DEF ProfileInsert, history
<1> HIDE DEF new, e
<1>3. r.pc = "profileSave" /\ r.read = new /\ r.entity = e
  BY DEF Idle
<1> HIDE DEF r
<1>4. Money(profile') = Money(profile) /\ profile'.status # "none"
  BY <1>1, <1>2 DEF Wallet, Unopened
<1>5. CASE req' = [req EXCEPT ![p] = r]
  <2>1. Others(p) /\ req'[p] = r
    BY <1>5, WalletFacts DEF TypeOK, Others
  <2> QED BY <1>1, <1>2, <1>3, <1>4, <2>1 DEF Quiet, Reckoned, Moving, MoneySteps, DecisionSteps
<1>6. CASE End(p)
  <2>1. Others(p) /\ req'[p].pc = "idle"
    BY <1>6, EndFacts, WalletFacts
  <2> QED BY <1>2, <1>4, <2>1, WalletFacts, PlainQuiet DEF Moving, MoneySteps, DecisionSteps
<1> QED BY <1>2, <1>5, <1>6

\* A profile saved over the wallet it was read with leaves that alone; over another, it is stale.
LEMMA ProfileSaveQuiet ==
    ASSUME Wallet, NEW p \in Proc, ProfileSave(p)
    PROVE  Quiet(p)
<1>1. Others(p) /\ req'[p].pc = "idle" /\ req[p].pc = "profileSave"
  BY EndFacts, WalletFacts DEF ProfileSave, Overwrite
<1>2. Money(req[p].entity) = Money(req[p].read) /\ req[p].entity.status # "none"
  BY <1>1, WalletFacts DEF Reckoned
<1> QED BY <1>1, <1>2 DEF ProfileSave, Overwrite, Quiet, Reckoned, Moving, MoneySteps, DecisionSteps

\* ... is reckoned with in memory.
LEMMA DecideProfileQuiet ==
    ASSUME Wallet, NEW p \in Proc, DecideProfile(p)
    PROVE  Quiet(p)
<1> DEFINE e == Settled(profile, req[p].id, req[p].verdict)
<1>1. /\ req[p].pc = "decideProfile" /\ UNCHANGED <<profile, withdrawal, history>>
      /\ req' = [req EXCEPT ![p].pc = "decideSave", ![p].read = profile, ![p].entity = e]
  BY DEF DecideProfile
<1>2. e.status = profile.status /\ profile.status # "none"
  BY <1>1, WalletFacts DEF Settled, Profile, TypeOK, Wallet, Unopened, MoneySteps, DecisionSteps
<1>3. /\ Others(p) /\ req'[p].pc = "decideSave" /\ req'[p].id = req[p].id /\ req'[p].verdict = req[p].verdict
      /\ req'[p].read = profile /\ req'[p].entity = e
  BY <1>1, WalletFacts DEF TypeOK, Others, Request
<1>4. Reckoned(req'[p])
  BY <1>2, <1>3 DEF Reckoned
<1> HIDE DEF e
<1> QED BY <1>1, <1>2, <1>3, <1>4 DEF Quiet, Moving, MoneySteps, DecisionSteps, history

(***************************************************************************)
(* Steps that move money                                                   *)
(***************************************************************************)
LEMMA TotalAdds ==
    ASSUME NEW S \in SUBSET Withdrawal, NEW w \in Withdrawal \ S
    PROVE  /\ Total[S \cup {w}] = Total[S] + AmountOf[w]
           /\ Total[S] \in Nat /\ AmountOf[w] \in Nat
BY TotalAssumption, AmountAssumption

\* What a withdrawal that is asked for, and a decision, make of the three balances.
LEMMA Balances ==
    ASSUME NEW r \in Profile, NEW w \in Withdrawal, NEW verdict \in {"approved", "rejected"}
    PROVE  LET a == AmountOf[w]
               f == [r EXCEPT !.current = @ - a, !.frozen = @ + a]
               s == Settled(r, w, verdict)
           IN  /\ f.current = r.current - a /\ f.frozen = r.frozen + a /\ f.withdrawn = r.withdrawn
               /\ f.status = r.status
               /\ s.frozen = r.frozen - a
               /\ verdict = "approved" => s.withdrawn = r.withdrawn + a /\ s.current = r.current
               /\ verdict = "rejected" => s.withdrawn = r.withdrawn /\ s.current = r.current + a
BY DEF Profile, Settled

\* The money is taken from what there is, for a withdrawal nobody has asked for yet; ...
LEMMA WithdrawFreezeWallet ==
    ASSUME Wallet, NEW p \in Proc, NEW w \in Withdrawal, Typed', WithdrawFreeze(p, w)
    PROVE  Wallet'
<1> DEFINE r == [Idle EXCEPT !.pc = "withdrawInsert", !.id = w]
<1>1. /\ profile.status # "none" /\ withdrawal[w] = "none" /\ IsUnused(w) /\ profile.current >= AmountOf[w]
      /\ profile' = Freeze(w) /\ Begin(p, r) /\ UNCHANGED <<withdrawal, earned, mishap>>
  BY DEF WithdrawFreeze, history
<1>2. r.pc = "withdrawInsert" /\ r.id = w
  BY DEF Idle
<1> HIDE DEF r
<1>3. Others(p) /\ req'[p] = r /\ req[p].pc = "idle"
  BY <1>1, WalletFacts DEF Begin, TypeOK, Others
<1>4. /\ profile'.current = profile.current - AmountOf[w] /\ profile'.frozen = profile.frozen + AmountOf[w]
      /\ profile'.withdrawn = profile.withdrawn /\ profile'.status # "none"
  BY <1>1, Balances, WalletFacts DEF Freeze, TypeOK
<1>5. \A q \in Proc : Reckoned(req[q])'
  BY <1>2, <1>3, WalletFacts DEF Others, Reckoned
<1>6. Asked'
  BY <1>1, <1>2, <1>3, WalletFacts DEF Others, Asked, IsUnused
<1>7. (mishap = {} => Decided)'
  BY <1>1, <1>2, <1>3 DEF Wallet, Others, Decided
<1>8. OnHold' = OnHold \cup {w} /\ w \notin OnHold
  BY <1>1, <1>2, <1>3 DEF Others, OnHold, IsUnused
<1>9. PaidOut' = PaidOut
  BY <1>1, <1>8 DEF PaidOut
<1>10. WalletMatches'
  BY <1>1, <1>4, <1>8, <1>9, WalletFacts, WithdrawalsHeld, TotalAdds DEF Wallet, WalletMatches
<1> QED BY <1>4, <1>5, <1>6, <1>7, <1>10 DEF Wallet

\* ... whose row takes the place of the request.
LEMMA WithdrawInsertWallet ==
    ASSUME Wallet, NEW p \in Proc, Typed', WithdrawInsert(p)
    PROVE  Wallet'
<1> DEFINE w == req[p].id
<1>1. /\ req[p].pc = "withdrawInsert" /\ w \in Withdrawal /\ withdrawal[w] = "none"
      /\ \A q \in Proc : req[q].pc \in MoneySteps /\ req[q].id = w => q = p
  BY WalletFacts DEF WithdrawInsert, WellTyped, Asked, MoneySteps
<1>2. Others(p) /\ req'[p].pc = "idle" /\ UNCHANGED <<profile, earned, mishap>>
  BY EndFacts, WalletFacts DEF WithdrawInsert, history
<1>3. withdrawal'[w] = "pending" /\ \A x \in Withdrawal \ {w} : withdrawal'[x] = withdrawal[x]
  BY <1>1, WalletFacts DEF WithdrawInsert, TypeOK
<1>4. \A q \in Proc : Reckoned(req[q])'
  BY <1>2, WalletFacts DEF Others, Reckoned
<1>5. profile.status # "none"
  BY <1>1 DEF Wallet, Unopened, MoneySteps
<1>6. ASSUME NEW q \in Proc, req'[q].pc \in MoneySteps
      PROVE  q # p /\ req'[q] = req[q] /\ req[q].id \in Withdrawal \ {w}
  BY <1>1, <1>2, <1>6, WalletFacts DEF Others, WellTyped, MoneySteps, DecisionSteps
<1>7. Asked'
  BY <1>3, <1>6, WalletFacts DEF Asked, MoneySteps
<1>8. (mishap = {} => Decided)'
  BY <1>2, <1>3, <1>6 DEF Wallet, Decided, MoneySteps, DecisionSteps
<1>9. OnHold' = OnHold /\ PaidOut' = PaidOut
  <2>1. OnHold' = OnHold
    BY <1>1, <1>2, <1>3 DEF Others, OnHold
  <2> QED BY <1>1, <1>3, <2>1 DEF PaidOut
<1> QED BY <1>2, <1>4, <1>5, <1>7, <1>8, <1>9 DEF Wallet, WalletMatches

\* A decision that meets the withdrawal pending is the only one; it is on hold until it is settled.
LEMMA DecideSaveWallet ==
    ASSUME Wallet, NEW p \in Proc, Typed', DecideSave(p)
    PROVE  Wallet'
<1> DEFINE w == req[p].id
<1>1. req[p].pc = "decideSave" /\ w \in Withdrawal /\ req[p].verdict \in {"approved", "rejected"}
  BY WalletFacts DEF DecideSave, WellTyped, MoneySteps, DecisionSteps
<1>2. /\ Others(p) /\ req'[p].pc = "settle" /\ UNCHANGED <<profile, earned>>
      /\ req'[p].id = w /\ req'[p].verdict = req[p].verdict
      /\ req'[p].read = req[p].read /\ req'[p].entity = req[p].entity
  BY WalletFacts DEF DecideSave, Goto, TypeOK, Others, Request
<1>3. withdrawal'[w] = req[p].verdict /\ \A x \in Withdrawal \ {w} : withdrawal'[x] = withdrawal[x]
  BY <1>1, WalletFacts DEF DecideSave, TypeOK
<1>4. \A q \in Proc : Reckoned(req[q])'
  BY <1>1, <1>2, WalletFacts DEF Others, Reckoned
<1>5. profile.status # "none"
  BY <1>1 DEF Wallet, Unopened, MoneySteps, DecisionSteps
<1>6. Asked'
  <2>1. \A q \in Proc : req'[q].pc = "withdrawInsert" => req'[q] = req[q] /\ req[q].id \in Withdrawal \ {w}
    BY <1>1, <1>2, WalletFacts DEF Others, WellTyped, Asked, MoneySteps, DecisionSteps
  <2>2. \A q \in Proc : req'[q].pc \in MoneySteps => req[q].pc \in MoneySteps /\ req'[q].id = req[q].id
    BY <1>1, <1>2 DEF Others, MoneySteps, DecisionSteps
  <2> QED BY <1>3, <2>1, <2>2, WalletFacts DEF Asked
<1>7. ASSUME mishap' = {} PROVE mishap = {} /\ withdrawal[w] = "pending"
  BY <1>7 DEF DecideSave
<1>8. (mishap = {} => Decided)'
  <2> SUFFICES ASSUME mishap' = {} PROVE Decided'
    OBVIOUS
  <2>1. \A q \in Proc \ {p} : req'[q].pc = "settle" => req'[q] = req[q] /\ req[q].id \in Withdrawal \ {w}
    BY <1>1, <1>2, <1>7, WalletFacts DEF Wallet, Others, Decided, WellTyped, MoneySteps, DecisionSteps
  <2> QED BY <1>2, <1>3, <1>7, <2>1 DEF Wallet, Decided
<1>9. ASSUME mishap' = {} PROVE OnHold' = OnHold /\ PaidOut' = PaidOut
  <2>1. OnHold' = OnHold
    BY <1>1, <1>2, <1>3, <1>7, <1>9 DEF Others, OnHold
  <2>2. w \in OnHold
    BY <1>1, <1>7, <1>9 DEF OnHold
  <2> QED BY <1>3, <2>1, <2>2 DEF PaidOut
<1>10. WalletMatches'
  BY <1>2, <1>7, <1>9 DEF Wallet, WalletMatches
<1> QED BY <1>2, <1>4, <1>5, <1>6, <1>8, <1>10 DEF Wallet

\* Settled over the wallet it was reckoned from, it leaves what is on hold for what is paid
\* out, or goes back; over another, it is stale.
LEMMA SettleWallet ==
    ASSUME Wallet, NEW p \in Proc, Typed', Settle(p)
    PROVE  Wallet'
<1> DEFINE w == req[p].id
           v == req[p].verdict
<1>1. req[p].pc = "settle" /\ w \in Withdrawal /\ v \in {"approved", "rejected"}
  BY WalletFacts DEF Settle, WellTyped, MoneySteps, DecisionSteps
<1>2. /\ Others(p) /\ req'[p].pc = "idle" /\ UNCHANGED <<withdrawal, earned>>
      /\ profile' = req[p].entity
  BY EndFacts, WalletFacts DEF Settle, Overwrite
<1>3. /\ Money(req[p].entity) = Money(Settled(req[p].read, w, v)) /\ req[p].entity.status # "none"
      /\ req[p].read \in Profile
  BY <1>1, WalletFacts DEF Reckoned, TypeOK, Request
<1>4. ASSUME mishap' = {} PROVE mishap = {} /\ Money(profile) = Money(req[p].read) /\ Decided
  BY <1>4 DEF Settle, Overwrite, Wallet
<1>5. \A q \in Proc : Reckoned(req[q])'
  BY <1>2, WalletFacts DEF Others, Reckoned
<1>6. Asked'
  BY <1>2, WalletFacts DEF Others, Asked, MoneySteps, DecisionSteps
<1>7. (mishap = {} => Decided)'
  BY <1>2, <1>4 DEF Others, Decided
<1>8. ASSUME mishap' = {}
      PROVE  /\ OnHold' = OnHold \ {w} /\ w \in OnHold
             /\ PaidOut' = IF v = "approved" THEN PaidOut \cup {w} ELSE PaidOut
             /\ w \notin PaidOut
  <2>1. withdrawal[w] = v /\ \A q \in Proc : req[q].pc = "settle" /\ req[q].id = w => q = p
    BY <1>1, <1>4, <1>8 DEF Decided
  <2>2. \A q \in Proc : req[q].pc = "withdrawInsert" => req[q].id # w
    BY <1>1, <2>1, WalletFacts DEF Asked, MoneySteps, DecisionSteps
  <2>3. OnHold' = OnHold \ {w} /\ w \in OnHold
    BY <1>1, <1>2, <2>1, <2>2 DEF Others, OnHold
  <2> QED BY <1>1, <1>2, <2>1, <2>3 DEF PaidOut
<1>9. WalletMatches'
  <2> SUFFICES ASSUME mishap' = {} PROVE WalletMatches'
    BY DEF WalletMatches
  <2>1. /\ profile'.frozen = profile.frozen - AmountOf[w]
        /\ v = "approved" => profile'.withdrawn = profile.withdrawn + AmountOf[w] /\ profile'.current = profile.current
        /\ v = "rejected" => profile'.withdrawn = profile.withdrawn /\ profile'.current = profile.current + AmountOf[w]
    BY <1>1, <1>2, <1>3, <1>4, Balances DEF Money
  <2>2. OnHold = OnHold' \cup {w} /\ w \notin OnHold' /\ OnHold' \subseteq Withdrawal
    BY <1>8, WithdrawalsHeld
  <2>3. Total[OnHold] = Total[OnHold'] + AmountOf[w] /\ Total[OnHold'] \in Nat /\ AmountOf[w] \in Nat
    BY <1>1, <2>2, TotalAdds
  <2>4. Total[PaidOut \cup {w}] = Total[PaidOut] + AmountOf[w] /\ Total[PaidOut] \in Nat
    BY <1>1, <1>8, WithdrawalsHeld, TotalAdds
  <2>5. WalletMatches /\ mishap = {} /\ earned' = earned
    BY <1>2, <1>4 DEF Wallet
  <2>6. CASE v = "approved"
    <3>1. PaidOut' = PaidOut \cup {w}
      BY <1>8, <2>6
    <3>2. Total[PaidOut'] = Total[PaidOut] + AmountOf[w]
      BY <2>4, <3>1
    <3>3. /\ profile.frozen = Total[OnHold] /\ profile.withdrawn = Total[PaidOut] /\ profile.current >= 0
          /\ profile.current + profile.frozen + profile.withdrawn = earned
      BY <2>5 DEF WalletMatches
    <3>4. /\ profile'.frozen = Total[OnHold'] /\ profile'.withdrawn = Total[PaidOut'] /\ profile'.current >= 0
          /\ profile'.current + profile'.frozen + profile'.withdrawn = earned'
      BY <2>1, <2>3, <2>4, <2>5, <2>6, <3>2, <3>3, WalletFacts
    <3> QED BY <3>4 DEF WalletMatches
  <2>7. CASE v = "rejected"
    BY <1>8, <2>1, <2>3, <2>5, <2>7, WalletFacts DEF WalletMatches
  <2> QED BY <1>1, <2>6, <2>7
<1> QED BY <1>2, <1>3, <1>5, <1>6, <1>7, <1>9 DEF Wallet

LEMMA HalfwayWallet ==
    ASSUME Wallet, NEW p \in Proc, Typed', Halfway(p)
    PROVE  Wallet'
<1>1. Others(p) /\ req'[p].pc = "idle" /\ mishap' # {} /\ UNCHANGED <<profile, withdrawal>>
  BY EndFacts, WalletFacts DEF Halfway
<1>2. \A q \in Proc : Reckoned(req[q])'
  BY <1>1, WalletFacts DEF Others, Reckoned
<1>3. Asked' /\ (profile.status = "none" => Unopened)'
  BY <1>1, WalletFacts DEF Wallet, Others, Asked, Unopened, MoneySteps, DecisionSteps
<1> QED BY <1>1, <1>2, <1>3 DEF Wallet, WalletMatches

LEMMA CreditWallet ==
    ASSUME Wallet, Typed', Credit
    PROVE  Wallet'
<1>1. PICK amount \in Credits : profile' = [profile EXCEPT !.current = @ + amount] /\ earned' = earned + amount
  BY DEF Credit
<1>2. /\ amount \in Nat /\ profile.status # "none" /\ profile'.status = profile.status
      /\ profile'.current = profile.current + amount
      /\ profile'.frozen = profile.frozen /\ profile'.withdrawn = profile.withdrawn
      /\ UNCHANGED <<req, withdrawal, mishap>>
  BY <1>1, CreditAssumption, WalletFacts DEF Credit, TypeOK, Profile
<1>3. OnHold' = OnHold /\ PaidOut' = PaidOut
  BY <1>2 DEF OnHold, PaidOut
<1> QED BY <1>1, <1>2, <1>3, WalletFacts DEF Wallet, Asked, Decided, Reckoned, WalletMatches

(***************************************************************************)
(* The theorem                                                             *)
(***************************************************************************)
LEMMA InitWallet == Init => Wallet
<1> SUFFICES ASSUME Init PROVE Wallet
  OBVIOUS
<1>1. /\ Typed /\ \A p \in Proc : req[p].pc = "idle"
      /\ \A w \in Withdrawal : withdrawal[w] = "none"
      /\ mishap = {} /\ earned = 0
      /\ profile.current = 0 /\ profile.frozen = 0 /\ profile.withdrawn = 0
  BY InitTyped DEF Init, Idle, NoProfile
<1>2. OnHold = {} /\ PaidOut = {}
  BY <1>1 DEF OnHold, PaidOut
<1> QED BY <1>1, <1>2, TotalAssumption DEF Wallet, Reckoned, Unopened, Asked, Decided, WalletMatches, Money,
                                            MoneySteps, DecisionSteps

LEMMA NextWallet == Wallet /\ [Next]_vars => Wallet'
<1> SUFFICES ASSUME Wallet, [Next]_vars PROVE Wallet'
  OBVIOUS
<1>0. Typed' /\ Typed
  BY NextTyped DEF Wallet
<1>1. ASSUME NEW p \in Proc, Quiet(p) PROVE Wallet'
  BY <1>0, <1>1, QuietWallet
<1>2. ASSUME NEW p \in Proc, Serve(p) PROVE Wallet'
  <2>1. CASE \E w \in Withdrawal : WithdrawFreeze(p, w)
    BY <1>0, <2>1, WithdrawFreezeWallet
  <2>2. CASE \E w \in Withdrawal : \E verdict \in {"approved", "rejected"} : DecideFind(p, w, verdict)
    BY <1>1, <2>2, DecideFindQuiet
  <2>3. CASE ProfileFind(p)
    BY <1>0, <1>1, <2>3, ProfileFindQuiet
  <2>4. CASE /\ ~\E w \in Withdrawal : WithdrawFreeze(p, w)
             /\ ~\E w \in Withdrawal : \E verdict \in {"approved", "rejected"} : DecideFind(p, w, verdict)
             /\ ~ProfileFind(p)
    BY <1>0, <1>1, <1>2, <2>4, RouteQuiet DEF Serve, Route, AccountRoute, BookingRoute, WalletRoute
  <2> QED BY <2>1, <2>2, <2>3, <2>4
<1>3. ASSUME NEW p \in Proc, Continue(p) PROVE Wallet'
  <2>1. CASE WithdrawInsert(p) \/ DecideSave(p) \/ Settle(p) \/ Halfway(p)
    BY <1>0, <2>1, WithdrawInsertWallet, DecideSaveWallet, SettleWallet, HalfwayWallet
  <2>2. CASE ProfileInsert(p) \/ ProfileSave(p) \/ DecideProfile(p)
    BY <1>1, <2>2, ProfileInsertQuiet, ProfileSaveQuiet, DecideProfileQuiet
  <2>3. CASE \/ AccountPromote(p) \/ AccountFind(p) \/ HoursDelete(p) \/ HoursInsert(p)
             \/ BookHours(p) \/ BookCheck(p) \/ BookRefused(p) \/ BookInsert(p)
             \/ BookingSave(p) \/ CompleteSave(p) \/ CompleteCount(p) \/ RescheduleSave(p) \/ RescheduleInsert(p)
             \/ ReviewInsert(p) \/ RatingRead(p) \/ RatingUpdate(p) \/ PackageSave(p)
    BY <1>0, <1>1, <2>3, StepQuiet
  <2> QED BY <1>3, <2>1, <2>2, <2>3 DEF Continue
<1>4. ASSUME UNCHANGED <<profile, withdrawal, req, earned, mishap>> PROVE Wallet'
  BY <1>0, <1>4 DEF Wallet, Reckoned, Unopened, Asked, Decided, WalletMatches, OnHold, PaidOut
<1>5. CASE Credit
  BY <1>0, <1>5, CreditWallet
<1>6. CASE Packages \/ UNCHANGED vars
  BY <1>4, <1>6 DEF Packages, PackageCreate, vars, history
<1> QED BY <1>2, <1>3, <1>5, <1>6 DEF Next

\* What is frozen is what is asked for and undecided, what was withdrawn is what was approved,
\* and nobody withdraws more than was paid in, unless a profile was saved over a changed
\* wallet, a request decided twice, or one stopped half way: for any withdrawals, amounts,
\* requests and bounds.
THEOREM WalletHolds == Spec => []WalletMatches
<1>1. Spec => []Wallet
  BY InitWallet, NextWallet, PTL DEF Spec
<1>2. Wallet => WalletMatches
  BY DEF Wallet
<1> QED BY <1>1, <1>2, PTL
=============================================================================
