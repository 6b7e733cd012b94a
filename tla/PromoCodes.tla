----------------------------- MODULE PromoCodes -----------------------------
(***************************************************************************)
(* PromoCodesService: the promo codes an administrator manages and the     *)
(* redemption rows checkouts reserve, complete, release and reverse.       *)
(*                                                                         *)
(* One action per statement of a request that another request can          *)
(* interleave with. promoLock and rowLock are the FOR UPDATE locks of the  *)
(* promo_codes and promo_code_redemptions rows: an UPDATE or DELETE of a   *)
(* row waits for them too. What a database transaction has written is      *)
(* visible when it commits, so its writes are one action and it releases   *)
(* its locks there. A request that throws rolls back: it changes nothing.  *)
(***************************************************************************)
EXTENDS Integers, FiniteSets

CONSTANTS
    Txn,             \* payment transactions, at most one redemption row each
    Code,            \* promo codes
    User,
    Proc,            \* requests and jobs in progress at the same time
    CodeOf,          \* the code a transaction asks for
    UserOf,          \* the user a transaction belongs to
    Offers,          \* the terms administrators give to codes
    ReservationTtl,  \* how long a reservation holds a use
    Horizon,         \* bound: the clock stops here
    Null

ASSUME TxnAssumption == IsFiniteSet(Txn)
ASSUME CodeOfAssumption == CodeOf \in [Txn -> Code]
ASSUME UserOfAssumption == UserOf \in [Txn -> User]
ASSUME TtlAssumption == ReservationTtl \in Nat \ {0}
ASSUME HorizonAssumption == Horizon \in Nat
ASSUME NullAssumption == Null \notin Nat \cup Proc \cup Txn \cup Code

Terms == [maxTotalUses : Nat \cup {Null}, maxUsesPerUser : Nat,
          startsAt : Nat, expiresAt : Nat \cup {Null}]

ASSUME OffersAssumption == Offers \subseteq Terms

VARIABLES
    promo,       \* promo_codes rows
    redemption,  \* promo_code_redemptions rows, by transactionId (unique index)
    promoLock,   \* who holds each promo row FOR UPDATE
    rowLock,     \* who holds each redemption row FOR UPDATE
    pc,          \* what each request does next
    arg,         \* the transaction or the code it works on
    draft,       \* the promo entity an administrator's request has in memory
    seen,        \* the status a reversal has read
    now          \* the clock

vars == <<promo, redemption, promoLock, rowLock, pc, arg, draft, seen, now>>

PromoRow == [exists : BOOLEAN, isActive : BOOLEAN, currentUses : Nat, terms : Terms]

Status == {"none", "reserved", "completed", "reversed", "expired"}
RedemptionRow == [status : Status, expiresAt : Nat \cup {Null}]

TxnSteps == {"reserve", "reserveInsert", "redeem", "redeemInsert", "redeemFinish",
             "reverseSave", "reverseCount"}
CodeSteps == {"editSave", "removeDelete"}
Inserting == {"reserveInsert", "redeemInsert"}

(***************************************************************************)
(* Reading the tables                                                      *)
(***************************************************************************)
\* countActiveUses: completed, or reserved and the hold has not run out.
Active(t) ==
    \/ redemption[t].status = "completed"
    \/ redemption[t].status = "reserved" /\ redemption[t].expiresAt > now

Uses(c) == {t \in Txn : CodeOf[t] = c /\ Active(t)}
UsesBy(c, u) == {t \in Uses(c) : UserOf[t] = u}

HasRoom(c, u) ==
    /\ promo[c].terms.maxTotalUses # Null =>
           Cardinality(Uses(c)) < promo[c].terms.maxTotalUses
    /\ Cardinality(UsesBy(c, u)) < promo[c].terms.maxUsesPerUser

\* The code's validity window ends before `now`.
IsPast(row) == row.terms.expiresAt # Null /\ row.terms.expiresAt < now

\* checkEligibilityAndCalculateDiscount, up to the amounts.
Eligible(t) ==
    LET c == CodeOf[t] IN
    /\ promo[c].exists
    /\ promo[c].isActive
    /\ promo[c].terms.startsAt <= now
    /\ ~IsPast(promo[c])
    /\ HasRoom(c, UserOf[t])

RedemptionsOf(c) == {t \in Txn : CodeOf[t] = c /\ redemption[t].status # "none"}

\* Mutant: the comparison the wrong way round.
IsOverdue_Reversed(t) == redemption[t].status = "reserved" /\ redemption[t].expiresAt > now

\* A reservation past its expiry, as redeem() and the cron job test it.
IsOverdue(t) == redemption[t].status = "reserved" /\ redemption[t].expiresAt < now

\* assertPromoCodeRules
RulesHold(terms, uses) ==
    /\ terms.expiresAt # Null => terms.expiresAt > terms.startsAt
    /\ terms.maxTotalUses # Null => /\ terms.maxTotalUses >= terms.maxUsesPerUser
                                    /\ terms.maxTotalUses >= uses

NoRow == [status |-> "none", expiresAt |-> Null]
NoTerms == [maxTotalUses |-> 0, maxUsesPerUser |-> 0, startsAt |-> 0, expiresAt |-> Null]
AbsentRow == [exists |-> FALSE, isActive |-> FALSE, currentUses |-> 0, terms |-> NoTerms]
NewRow(o, active) == [exists |-> TRUE, isActive |-> active, currentUses |-> 0, terms |-> o]

Init ==
    /\ promo = [c \in Code |-> AbsentRow]
    /\ redemption = [t \in Txn |-> NoRow]
    /\ promoLock = [c \in Code |-> Null]
    /\ rowLock = [t \in Txn |-> Null]
    /\ pc = [p \in Proc |-> "idle"]
    /\ arg = [p \in Proc |-> Null]
    /\ draft = [p \in Proc |-> AbsentRow]
    /\ seen = [p \in Proc |-> "none"]
    /\ now = 0

(***************************************************************************)
(* Requests                                                                *)
(***************************************************************************)
Begin(p, step, x) ==
    /\ pc[p] = "idle"
    /\ pc' = [pc EXCEPT ![p] = step]
    /\ arg' = [arg EXCEPT ![p] = x]

\* The request ends, its local variables are gone.
End(p) ==
    /\ pc' = [pc EXCEPT ![p] = "idle"]
    /\ arg' = [arg EXCEPT ![p] = Null]
    /\ draft' = [draft EXCEPT ![p] = AbsentRow]
    /\ seen' = [seen EXCEPT ![p] = "none"]

SetRow(t, s, e) ==
    redemption' = [redemption EXCEPT ![t] = [status |-> s, expiresAt |-> e]]

\* reserve() and redeem() look for the transaction's row first. When there is one,
\* reserve() returns it or throws and changes nothing; redeem() goes on with
\* RedeemLockRow. Without a row both go on to the promo row.
ReserveBegin(p, t) ==
    /\ redemption[t].status = "none"
    /\ Begin(p, "reserve", t)
    /\ UNCHANGED <<promo, redemption, promoLock, rowLock, draft, seen, now>>

RedeemBegin(p, t) ==
    /\ redemption[t].status = "none"
    /\ Begin(p, "redeem", t)
    /\ UNCHANGED <<promo, redemption, promoLock, rowLock, draft, seen, now>>

\* Mutant: the promo row is read without FOR UPDATE.
AdmitLock_Unlocked(p) ==
    LET c == CodeOf[arg[p]] IN
    /\ pc[p] \in {"reserve", "redeem"}
    /\ Eligible(arg[p])
    /\ promoLock' = [promoLock EXCEPT ![c] = p]
    /\ pc' = [pc EXCEPT ![p] = IF pc[p] = "reserve" THEN "reserveInsert" ELSE "redeemInsert"]
    /\ UNCHANGED <<promo, redemption, rowLock, arg, draft, seen, now>>

\* SELECT ... FOR UPDATE of the promo row, then the eligibility checks and the two
\* counts under that lock.
AdmitLock(p) ==
    LET c == CodeOf[arg[p]] IN
    /\ pc[p] \in {"reserve", "redeem"}
    /\ promoLock[c] = Null
    /\ Eligible(arg[p])
    /\ promoLock' = [promoLock EXCEPT ![c] = p]
    /\ pc' = [pc EXCEPT ![p] = IF pc[p] = "reserve" THEN "reserveInsert" ELSE "redeemInsert"]
    /\ UNCHANGED <<promo, redemption, rowLock, arg, draft, seen, now>>

\* No such code, or one of the checks throws: rollback.
AdmitRefuse(p) ==
    /\ pc[p] \in {"reserve", "redeem"}
    /\ promoLock[CodeOf[arg[p]]] = Null
    /\ ~Eligible(arg[p])
    /\ End(p)
    /\ UNCHANGED <<promo, redemption, promoLock, rowLock, now>>

\* Mutant: the duplicate key is caught without a rollback, and the lock is kept.
ReserveInsert_NoRollback(p) ==
    LET t == arg[p] IN
    /\ pc[p] = "reserveInsert"
    /\ IF redemption[t].status = "none"
       THEN /\ SetRow(t, "reserved", now + ReservationTtl)
            /\ promoLock' = [promoLock EXCEPT ![CodeOf[t]] = Null]
       ELSE UNCHANGED <<redemption, promoLock>>
    /\ End(p)
    /\ UNCHANGED <<promo, rowLock, now>>

\* reserve(): insert the row and commit. The unique index on transactionId refuses
\* a second row for the transaction, which rolls back.
ReserveInsert(p) ==
    LET t == arg[p] IN
    /\ pc[p] = "reserveInsert"
    /\ IF redemption[t].status = "none"
       THEN SetRow(t, "reserved", now + ReservationTtl)
       ELSE UNCHANGED redemption
    /\ promoLock' = [promoLock EXCEPT ![CodeOf[t]] = Null]
    /\ End(p)
    /\ UNCHANGED <<promo, rowLock, now>>

\* redeem() without a reservation: insert a completed row, count the use, commit.
RedeemInsert(p) ==
    LET t == arg[p]
        c == CodeOf[t] IN
    /\ pc[p] = "redeemInsert"
    /\ IF redemption[t].status = "none"
       THEN /\ SetRow(t, "completed", Null)
            /\ promo' = [promo EXCEPT ![c].currentUses = @ + 1]
       ELSE UNCHANGED <<promo, redemption>>
    /\ promoLock' = [promoLock EXCEPT ![c] = Null]
    /\ End(p)
    /\ UNCHANGED <<rowLock, now>>

\* redeem() of a reservation: lock the redemption row and test its expiry. A row
\* completed already is returned; an overdue, expired or reversed one throws, and
\* the throw rolls back the EXPIRED that lines 574-576 have written: no change.
RedeemLockRow(p, t) ==
    /\ rowLock[t] = Null
    /\ redemption[t].status = "reserved"
    /\ ~IsOverdue(t)
    /\ Begin(p, "redeemFinish", t)
    /\ rowLock' = [rowLock EXCEPT ![t] = p]
    /\ UNCHANGED <<promo, redemption, promoLock, draft, seen, now>>

\* ... then lock the promo row, complete the redemption, count the use, commit.
RedeemFinish(p) ==
    LET t == arg[p]
        c == CodeOf[t] IN
    /\ pc[p] = "redeemFinish"
    /\ promoLock[c] = Null
    /\ SetRow(t, "completed", Null)
    /\ promo' = [promo EXCEPT ![c].currentUses = @ + 1]
    /\ rowLock' = [rowLock EXCEPT ![t] = Null]
    /\ End(p)
    /\ UNCHANGED <<promoLock, now>>

\* Mutant: any row of the transaction is found, not a RESERVED one.
ReleaseReservation_AnyRow(t) ==
    /\ rowLock[t] = Null
    /\ redemption[t].status # "none"
    /\ redemption' = [redemption EXCEPT ![t].status = "expired"]
    /\ UNCHANGED <<promo, promoLock, rowLock, pc, arg, draft, seen, now>>

\* releaseReservation(): find the RESERVED row FOR UPDATE, expire it, commit.
ReleaseReservation(t) ==
    /\ rowLock[t] = Null
    /\ redemption[t].status = "reserved"
    /\ redemption' = [redemption EXCEPT ![t].status = "expired"]
    /\ UNCHANGED <<promo, promoLock, rowLock, pc, arg, draft, seen, now>>

\* reverseRedemption(): a plain find; REVERSED and EXPIRED rows are skipped.
ReverseRead(p, t) ==
    /\ redemption[t].status \in {"reserved", "completed"}
    /\ Begin(p, "reverseSave", t)
    /\ seen' = [seen EXCEPT ![p] = redemption[t].status]
    /\ UNCHANGED <<promo, redemption, promoLock, rowLock, draft, now>>

\* The save waits for the row, whose status may have changed since it was read. A
\* reversal that read RESERVED commits here; one that read COMPLETED keeps the row
\* and goes on to the counter.
ReverseSave(p) ==
    LET t == arg[p] IN
    /\ pc[p] = "reverseSave"
    /\ rowLock[t] = Null
    /\ \/ /\ seen[p] # "completed"
          /\ redemption' = [redemption EXCEPT ![t].status = "reversed"]
          /\ End(p)
          /\ UNCHANGED rowLock
       \/ /\ seen[p] = "completed"
          /\ rowLock' = [rowLock EXCEPT ![t] = p]
          /\ pc' = [pc EXCEPT ![p] = "reverseCount"]
          /\ UNCHANGED <<redemption, arg, draft, seen>>
    /\ UNCHANGED <<promo, promoLock, now>>

\* Mutant: currentUses - 1 goes below zero when two reversals of one redemption
\* have both read COMPLETED.
ReverseCount_NoFloor(p) ==
    LET t == arg[p]
        c == CodeOf[t] IN
    /\ pc[p] = "reverseCount"
    /\ promoLock[c] = Null
    /\ redemption' = [redemption EXCEPT ![t].status = "reversed"]
    /\ promo' = [promo EXCEPT ![c].currentUses = @ - 1]
    /\ rowLock' = [rowLock EXCEPT ![t] = Null]
    /\ End(p)
    /\ UNCHANGED <<promoLock, now>>

\* UPDATE promo_codes SET currentUses = GREATEST(currentUses - 1, 0), commit.
ReverseCount(p) ==
    LET t == arg[p]
        c == CodeOf[t] IN
    /\ pc[p] = "reverseCount"
    /\ promoLock[c] = Null
    /\ redemption' = [redemption EXCEPT ![t].status = "reversed"]
    /\ promo' = [promo EXCEPT ![c].currentUses = IF @ > 0 THEN @ - 1 ELSE 0]
    /\ rowLock' = [rowLock EXCEPT ![t] = Null]
    /\ End(p)
    /\ UNCHANGED <<promoLock, now>>

(***************************************************************************)
(* Administration                                                          *)
(***************************************************************************)
\* create() and generateBatch(): the unique index on code allows one row.
Create(c) ==
    /\ ~promo[c].exists
    /\ \E o \in Offers, active \in BOOLEAN : RulesHold(o, 0) /\ promo' = [promo EXCEPT ![c] = NewRow(o, active)]
    /\ UNCHANGED <<redemption, promoLock, rowLock, pc, arg, draft, seen, now>>

\* update(): new terms, startsAt stays; the rules are checked against the
\* currentUses of the entity just read.
Updated(row) ==
    {r \in {[row EXCEPT !.terms = [o EXCEPT !.startsAt = row.terms.startsAt]] : o \in Offers} :
        RulesHold(r.terms, row.currentUses)}

\* deactivate() and reactivate()
Deactivated(row) == IF row.isActive THEN {[row EXCEPT !.isActive = FALSE]} ELSE {}
Reactivated(row) == IF ~row.isActive /\ ~IsPast(row) THEN {[row EXCEPT !.isActive = TRUE]} ELSE {}

\* The entity is read without a lock, changed in memory ...
EditRead(p, c) ==
    /\ promo[c].exists
    /\ Begin(p, "editSave", c)
    /\ \E r \in Updated(promo[c]) \cup Deactivated(promo[c]) \cup Reactivated(promo[c]) :
           draft' = [draft EXCEPT ![p] = r]
    /\ UNCHANGED <<promo, redemption, promoLock, rowLock, seen, now>>

\* ... and saved whole: every column the entity holds overwrites the row's, and a
\* row removed meanwhile is inserted again.
EditSave(p) ==
    /\ pc[p] = "editSave"
    /\ promoLock[arg[p]] = Null
    /\ promo' = [promo EXCEPT ![arg[p]] = draft[p]]
    /\ End(p)
    /\ UNCHANGED <<redemption, promoLock, rowLock, now>>

\* remove(): refuses when a redemption exists ...
RemoveRead(p, c) ==
    /\ promo[c].exists
    /\ RedemptionsOf(c) = {}
    /\ Begin(p, "removeDelete", c)
    /\ UNCHANGED <<promo, redemption, promoLock, rowLock, draft, seen, now>>

\* ... then deletes; the foreign key of the redemptions (RESTRICT) has the last word.
RemoveDelete(p) ==
    LET c == arg[p] IN
    /\ pc[p] = "removeDelete"
    /\ promoLock[c] = Null
    /\ promo' = IF RedemptionsOf(c) = {} THEN [promo EXCEPT ![c] = AbsentRow] ELSE promo
    /\ End(p)
    /\ UNCHANGED <<redemption, promoLock, rowLock, now>>

(***************************************************************************)
(* Jobs and time                                                           *)
(***************************************************************************)
\* One UPDATE each: it waits for the locked rows among those it changes.
CleanupExpiredCodes ==
    LET past == {c \in Code : promo[c].exists /\ promo[c].isActive /\ IsPast(promo[c])} IN
    /\ past # {}
    /\ \A c \in past : promoLock[c] = Null
    /\ promo' = [c \in Code |-> IF c \in past THEN [promo[c] EXCEPT !.isActive = FALSE]
                                ELSE promo[c]]
    /\ UNCHANGED <<redemption, promoLock, rowLock, pc, arg, draft, seen, now>>

CleanupExpiredReservations ==
    LET overdue == {t \in Txn : IsOverdue(t)} IN
    /\ overdue # {}
    /\ \A t \in overdue : rowLock[t] = Null
    /\ redemption' = [t \in Txn |-> IF t \in overdue
                                    THEN [redemption[t] EXCEPT !.status = "expired"]
                                    ELSE redemption[t]]
    /\ UNCHANGED <<promo, promoLock, rowLock, pc, arg, draft, seen, now>>

Tick ==
    /\ now < Horizon
    /\ now' = now + 1
    /\ UNCHANGED <<promo, redemption, promoLock, rowLock, pc, arg, draft, seen>>

\* What a request that has begun does next.
Continue(p) ==
    \/ AdmitLock(p) \/ AdmitRefuse(p) \/ ReserveInsert(p) \/ RedeemInsert(p)
    \/ RedeemFinish(p) \/ ReverseSave(p) \/ ReverseCount(p)
    \/ EditSave(p) \/ RemoveDelete(p)

Next ==
    \/ \E p \in Proc :
          \/ \E t \in Txn : \/ ReserveBegin(p, t) \/ RedeemBegin(p, t)
                            \/ RedeemLockRow(p, t) \/ ReverseRead(p, t)
          \/ \E c \in Code : EditRead(p, c) \/ RemoveRead(p, c)
          \/ Continue(p)
    \/ \E t \in Txn : ReleaseReservation(t)
    \/ \E c \in Code : Create(c)
    \/ CleanupExpiredCodes
    \/ CleanupExpiredReservations
    \/ Tick

\* The event loop and the database carry on with a request that has begun, the
\* clock runs and @nestjs/schedule runs the job; nobody has to make a request.
Fairness ==
    /\ \A p \in Proc : WF_vars(Continue(p))
    /\ WF_vars(Tick)
    /\ WF_vars(CleanupExpiredReservations)

Spec == Init /\ [][Next]_vars
FairSpec == Spec /\ Fairness

(***************************************************************************)
(* Properties                                                              *)
(***************************************************************************)
\* Every variable holds what its column or local variable can hold.
TypeOK ==
    /\ promo \in [Code -> PromoRow]
    /\ redemption \in [Txn -> RedemptionRow]
    /\ promoLock \in [Code -> Proc \cup {Null}]
    /\ rowLock \in [Txn -> Proc \cup {Null}]
    /\ pc \in [Proc -> {"idle"} \cup TxnSteps \cup CodeSteps]
    /\ arg \in [Proc -> Txn \cup Code \cup {Null}]
    /\ \A p \in Proc : /\ pc[p] \in TxnSteps => arg[p] \in Txn
                       /\ pc[p] \in CodeSteps => arg[p] \in Code
    /\ draft \in [Proc -> PromoRow]
    /\ seen \in [Proc -> Status]
    /\ now \in Nat
    /\ \A t \in Txn : redemption[t].status = "reserved" => redemption[t].expiresAt \in Nat

\* A request that adds a redemption row leaves the code, and the user, within the
\* limits the promo row then has, and the code is active: the promo-row lock makes
\* one decision of "count, compare, insert" (reserve() and redeem()), however
\* many checkouts, reversals and administrators run at the same time.
AdmissionWithinLimit ==
    [][\A t \in Txn :
          redemption[t].status = "none" /\ redemption'[t].status # "none" =>
              LET c == CodeOf[t] IN
              /\ promo'[c].exists /\ promo'[c].isActive
              /\ promo'[c].terms.maxTotalUses # Null =>
                     Cardinality(Uses(c)') <= promo'[c].terms.maxTotalUses
              /\ Cardinality(UsesBy(c, UserOf[t])') <= promo'[c].terms.maxUsesPerUser]_vars

\* The service, with its unlocked reads, its locks and its clock, behaves as if
\* every request were one step of PromoLedger.
Ledger == INSTANCE PromoLedger WITH
    status <- [t \in Txn |-> redemption[t].status],
    live <- {t \in Txn : Active(t)},
    limit <- [c \in Code |-> promo[c].terms.maxTotalUses],
    perUser <- [c \in Code |-> promo[c].terms.maxUsesPerUser],
    open <- [c \in Code |-> promo[c].exists /\ promo[c].isActive]
ImplementsLedger == Ledger!Spec

\* No request waits for ever: the redemption row is always locked before the promo
\* row, and every way out of a request gives its locks back.
RequestsFinish == \A p \in Proc : pc[p] # "idle" ~> pc[p] = "idle"

\* A reservation whose hold has run out does not stay RESERVED: it is completed by a
\* redeem() already under way, released, reversed, or expired by the cron job.
OverdueReservationsEnd ==
    \A t \in Txn : (redemption[t].status = "reserved" /\ redemption[t].expiresAt < Horizon)
                       ~> redemption[t].status # "reserved"

\* What the message 'This promo code has reached its maximum number of uses' and the
\* limit of the promo_codes row promise: never more uses than maxTotalUses. While no
\* administrator lowers the limit this could only fail by completing a reservation
\* that no longer counts, and redeem() does that: it tests the expiry before it
\* waits for the promo row, and `<` where countActiveUses has `>`.
UsesWithinLimit ==
    \A c \in Code : promo[c].exists /\ promo[c].terms.maxTotalUses # Null =>
        Cardinality(Uses(c)) <= promo[c].terms.maxTotalUses
=============================================================================
