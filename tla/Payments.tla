------------------------------ MODULE Payments ------------------------------
(***************************************************************************)
(* PaymentsService: checkouts, provider webhooks, fulfilment, refunds.     *)
(*                                                                         *)
(* A request is a Node async function: it holds a Transaction entity in    *)
(* memory across awaits while other requests change the row. An action is  *)
(* one awaited call: a read, a guarded UPDATE, a promo-code operation (one *)
(* database transaction, a step of PromoLedger), or a save, which writes   *)
(* every column the entity has in memory over the row.                     *)
(***************************************************************************)
EXTENDS Naturals, FiniteSets, Sequences

CONSTANTS
    Txn,         \* transaction ids, drawn by checkouts
    User,
    Proc,        \* requests in progress at the same time
    UserOf,      \* the user whose checkout draws an id
    Code, CodeOf, PromoLimit, PromoPerUser,  \* the promo code and its terms
    Ref,         \* what is sold: courses, subscription plans, sessions
    KindOf,      \* "course", "plan" or "session"
    Scenarios,   \* what each transaction buys, through whom, with what promo
    MaxNews,     \* bound: webhooks delivered in a behaviour
    MaxCrashes,  \* bound: transactions a request dies on
    Null

Kinds == {"course", "plan", "session"}
\* The promo code takes no, a part or all of the price off; "zero" is a plan without a price.
Order == [ref : Ref, provider : {"paymob", "fawaterk"}, promo : {"no", "part", "full", "zero"}]

ASSUME TxnAssumption == IsFiniteSet(Txn)
ASSUME UserOfAssumption == UserOf \in [Txn -> User]
ASSUME CodeOfAssumption == CodeOf \in [Txn -> Code]
ASSUME KindOfAssumption == KindOf \in [Ref -> Kinds]
\* A session checkout takes no promo code, and a course has a price.
ASSUME ScenariosAssumption ==
    /\ Scenarios \subseteq [Txn -> Order]
    /\ \A o \in Scenarios : \A t \in Txn :
           /\ KindOf[o[t].ref] = "session" => o[t].promo = "no"
           /\ o[t].promo = "zero" => KindOf[o[t].ref] = "plan"
ASSUME BoundsAssumption == MaxNews \in Nat /\ MaxCrashes \in Nat
ASSUME NullAssumption == Null \notin Txn

VARIABLES
    order,        \* the scenario: never changes
    txn,          \* transactions rows
    enrollment,   \* enrollments rows, one per user and course
    subs,         \* subscriptions rows of each paymentId, oldest first
    seat,         \* session_attendees rows
    redemption,   \* the promo redemption row of each transaction
    live,         \* those that count against the code's limits
    money,        \* the provider's account of each payment
    req,          \* the requests in progress
    news,         \* how many webhooks have been delivered
    fulfilments,  \* history: how often each transaction was claimed for fulfilment
    overwritten,  \* history: rows whose newer contents a stale entity overwrote
    crashed       \* history: transactions a request stopped working on half way

vars == <<order, txn, enrollment, subs, seat, redemption, live, money, req,
          news, fulfilments, overwritten, crashed>>
access == <<enrollment, subs, seat>>
promo == <<redemption, live>>
history == <<news, fulfilments, overwritten, crashed>>

Ledger == INSTANCE PromoLedger WITH
    status <- redemption,
    limit <- [c \in Code |-> PromoLimit],
    perUser <- [c \in Code |-> PromoPerUser],
    open <- [c \in Code |-> TRUE]

(***************************************************************************)
(* Rows and requests                                                       *)
(***************************************************************************)
TxnStatus == {"none", "pending", "success", "failed", "refunded"}
\* The metadata keys the service reads back or an operator looks for.
MetaKey == {"fulfilled", "fulfillmentError"}
TxnRow == [status : TxnStatus, meta : SUBSET MetaKey]

EnrollmentStatus == {"none", "active", "cancelled"}
SubStatus == {"active", "cancelled"}
Money == {"unopened", "open", "paid", "wrong", "refunded"}

\* declined stands for declined, failed and voided payments, mismatch for a success
\* with another amount or currency than the transaction's.
Event == {"success", "mismatch", "declined", "pending", "refund"}

CheckoutSteps == {"cancelFind", "cancelRelease", "cancelUpdate", "insert", "reserve",
                  "initiate", "abortRelease", "abortSave",
                  "freeInsert", "freeReserve", "freeRedeem", "freeUndo", "freeFail"}
HookSteps == {"hookSave", "failRelease", "failSave",
              "refundClaim", "refundRevoke", "refundMark", "refundReverse"}
FulfilSteps == {"claim", "redeem", "grantFind", "grantWrite", "mark", "markError"}
Step == CheckoutSteps \cup HookSteps \cup FulfilSteps

\* status and meta are the entity's columns as they were read, ev the webhook's news,
\* look what the last read of the enrollments found, stale the superseded rows.
Request == [pc : Step \cup {"idle"}, txn : Txn \cup {Null}, ev : Event \cup {Null},
            status : TxnStatus, meta : SUBSET MetaKey,
            look : EnrollmentStatus, stale : SUBSET Txn]

Idle == [pc |-> "idle", txn |-> Null, ev |-> Null, status |-> "none", meta |-> {},
         look |-> "none", stale |-> {}]

Kind(t) == KindOf[order[t].ref]
HasPromo(t) == order[t].promo \in {"part", "full"}
\* Nothing is left to pay.
IsFree(t) == order[t].promo \in {"full", "zero"}
\* The unique key of the enrollment and of the attendee row.
Holder(t) == <<UserOf[t], order[t].ref>>

HasActiveSub(t) == \E i \in DOMAIN subs[t] : subs[t][i] = "active"
\* All plans sold here are of one grade, for which a user has one subscription.
HasActivePlan(u) == \E x \in Txn : UserOf[x] = u /\ HasActiveSub(x)

Init ==
    /\ order \in Scenarios
    /\ txn = [t \in Txn |-> [status |-> "none", meta |-> {}]]
    /\ enrollment = [h \in User \X Ref |-> "none"]
    /\ subs = [t \in Txn |-> << >>]
    /\ seat = [h \in User \X Ref |-> FALSE]
    /\ redemption = [t \in Txn |-> "none"]
    /\ live = {}
    /\ money = [t \in Txn |-> "unopened"]
    /\ req = [p \in Proc |-> Idle]
    /\ news = 0
    /\ fulfilments = [t \in Txn |-> 0]
    /\ overwritten = {}
    /\ crashed = {}

Busy(t) == \E p \in Proc : req[p].txn = t

Goto(p, step) == req' = [req EXCEPT ![p].pc = step]
End(p) == req' = [req EXCEPT ![p] = Idle]

\* The row is not what the entity in memory says it was.
IsStale(p) ==
    LET t == req[p].txn IN
    txn[t].status # req[p].status \/ txn[t].meta # req[p].meta

\* save(entity), its status set to s: a row that has changed since is overwritten.
Save(p, s) ==
    LET t == req[p].txn IN
    /\ txn' = [txn EXCEPT ![t] = [status |-> s, meta |-> req[p].meta]]
    /\ overwritten' = IF IsStale(p) THEN overwritten \cup {t} ELSE overwritten
    /\ UNCHANGED <<news, fulfilments, crashed>>

\* update(id, { metadata: { ...entity.metadata, key } }): the other columns stay.
UpdateMeta(p, keys) ==
    LET t == req[p].txn IN
    /\ txn' = [txn EXCEPT ![t].meta = req[p].meta \cup keys]
    /\ overwritten' = IF txn[t].meta # req[p].meta THEN overwritten \cup {t} ELSE overwritten
    /\ UNCHANGED <<news, fulfilments, crashed>>

(***************************************************************************)
(* Checkout                                                                *)
(***************************************************************************)
\* The database draws an id nobody has.
IsFresh(t) == txn[t].status = "none" /\ money[t] = "unopened" /\ ~Busy(t)

\* The validations: what is bought exists, a course is not the user's yet, and the
\* promo code applies.
CheckoutBegin(p, t) ==
    /\ req[p].pc = "idle"
    /\ IsFresh(t)
    /\ Kind(t) = "course" => enrollment[Holder(t)] # "active"
    /\ HasPromo(t) => Ledger!HasRoom(CodeOf[t], UserOf[t])
    /\ req' = [req EXCEPT ![p] = [Idle EXCEPT !.txn = t, !.status = "pending",
                                  !.pc = IF IsFree(t) THEN "freeInsert" ELSE "cancelFind"]]
    /\ UNCHANGED <<order, txn, access, promo, money, history>>

\* cancelStalePendingTransactions: find the pending rows of the same purchase, ...
CancelFind(p) ==
    LET t == req[p].txn
        found == {x \in Txn : Holder(x) = Holder(t) /\ txn[x].status = "pending"} IN
    /\ req[p].pc = "cancelFind"
    /\ req' = [req EXCEPT ![p] = [@ EXCEPT !.stale = found,
                                           !.pc = IF found = {} THEN "insert" ELSE "cancelRelease"]]
    /\ UNCHANGED <<order, txn, access, promo, money, history>>

\* ... give their reservations back: one transaction each, all of them awaited at once, ...
CancelRelease(p) ==
    /\ req[p].pc = "cancelRelease"
    /\ Ledger!Release({x \in req[p].stale : redemption[x] = "reserved"})
    /\ Goto(p, "cancelUpdate")
    /\ UNCHANGED <<order, txn, access, money, history>>

\* ... and fail them by id, whatever their status is by now.
CancelUpdate(p) ==
    LET changed == {x \in req[p].stale : txn[x].status # "pending"} IN
    /\ req[p].pc = "cancelUpdate"
    /\ txn' = [x \in Txn |-> IF x \in req[p].stale THEN [txn[x] EXCEPT !.status = "failed"]
                             ELSE txn[x]]
    /\ overwritten' = overwritten \cup changed
    /\ req' = [req EXCEPT ![p] = [@ EXCEPT !.pc = "insert", !.stale = {}]]
    /\ UNCHANGED <<order, access, promo, money, news, fulfilments, crashed>>

Insert(p) ==
    LET t == req[p].txn IN
    /\ req[p].pc = "insert"
    /\ txn' = [txn EXCEPT ![t].status = "pending"]
    /\ Goto(p, IF HasPromo(t) THEN "reserve" ELSE "initiate")
    /\ UNCHANGED <<order, access, promo, money, history>>

Reserve(p) ==
    /\ req[p].pc = "reserve"
    /\ Ledger!Admit(req[p].txn, "reserved")
    /\ Goto(p, "initiate")
    /\ UNCHANGED <<order, txn, access, money, history>>

\* reserve() throws outside the try: the row stays PENDING. An administrator may have
\* closed or changed the code, so this can happen even when there is room.
ReserveRefused(p) ==
    /\ req[p].pc = "reserve"
    /\ End(p)
    /\ UNCHANGED <<order, txn, access, promo, money, history>>

\* The provider opens a payment, and the entity, PENDING as ever, is saved with its id.
Initiate(p) ==
    LET t == req[p].txn IN
    /\ req[p].pc = "initiate"
    /\ money' = [money EXCEPT ![t] = "open"]
    /\ Save(p, "pending")
    /\ End(p)
    /\ UNCHANGED <<order, access, promo>>

\* The provider refuses or does not answer; the row is FAILED at once when Fawaterk
\* answers with an error. A session's checkout has no try/catch and ends here.
InitiateFails(p) ==
    LET t == req[p].txn
        next == IF HasPromo(t) THEN "abortRelease" ELSE "abortSave"
        abort(status) == IF Kind(t) = "session" THEN End(p)
                         ELSE req' = [req EXCEPT ![p].pc = next, ![p].status = status] IN
    /\ req[p].pc = "initiate"
    /\ \/ abort("pending") /\ UNCHANGED <<txn, history>>
       \/ order[t].provider = "fawaterk" /\ Save(p, "failed") /\ abort("failed")
    /\ UNCHANGED <<order, access, promo, money>>

\* releaseReservation: only a RESERVED row changes.
GiveBack(t) ==
    IF redemption[t] = "reserved" THEN Ledger!Release({t}) ELSE UNCHANGED promo

AbortRelease(p) ==
    /\ req[p].pc = "abortRelease"
    /\ GiveBack(req[p].txn)
    /\ Goto(p, "abortSave")
    /\ UNCHANGED <<order, txn, access, money, history>>

AbortSave(p) ==
    /\ req[p].pc = "abortSave"
    /\ Save(p, "failed")
    /\ End(p)
    /\ UNCHANGED <<order, access, promo, money>>

(***************************************************************************)
(* A checkout with nothing left to pay                                     *)
(***************************************************************************)
FreeInsert(p) ==
    LET t == req[p].txn IN
    /\ req[p].pc = "freeInsert"
    /\ txn' = [txn EXCEPT ![t].status = "success"]
    /\ req' = [req EXCEPT ![p] = [@ EXCEPT !.status = "success",
                                           !.pc = IF HasPromo(t) THEN "freeReserve" ELSE "grantFind"]]
    /\ UNCHANGED <<order, access, promo, money, history>>

\* reserve(), then redeem(), both inside the try.
FreePromo(p) ==
    LET t == req[p].txn IN
    /\ \/ /\ req[p].pc = "freeReserve"
          /\ Ledger!Admit(t, "reserved")
          /\ Goto(p, "freeRedeem")
       \/ /\ req[p].pc = "freeRedeem"
          /\ Ledger!Complete(t)
          /\ Goto(p, "grantFind")
    /\ UNCHANGED <<order, txn, access, money, history>>

\* Mutant: completed redemptions are left alone.
TakeBack_ReservedOnly(t) ==
    IF redemption[t] = "reserved" THEN Ledger!Reverse(t) ELSE UNCHANGED promo

\* reverseRedemption: a row RESERVED or COMPLETED is reversed, another one left alone.
TakeBack(t) ==
    IF redemption[t] \in {"reserved", "completed"} THEN Ledger!Reverse(t) ELSE UNCHANGED promo

FreeUndo(p) ==
    /\ req[p].pc = "freeUndo"
    /\ TakeBack(req[p].txn)
    /\ Goto(p, "freeFail")
    /\ UNCHANGED <<order, txn, access, money, history>>

FreeFail(p) ==
    LET t == req[p].txn IN
    /\ req[p].pc = "freeFail"
    /\ txn' = [txn EXCEPT ![t] = [status |-> "failed", meta |-> {"fulfillmentError"}]]
    /\ End(p)
    /\ UNCHANGED <<order, access, promo, money, history>>

(***************************************************************************)
(* Webhooks                                                                *)
(***************************************************************************)
\* What the provider may say of a payment: events arrive any number of times, in any
\* order. Fawaterk speaks of paid and failed payments only; its callback brings no amount to
\* compare, and that it says 'paid' of the full amount alone is an assumption about it.
News(t) ==
    LET p == CASE money[t] = "unopened" -> {}
               [] money[t] = "open" -> {"declined", "pending"}
               [] money[t] = "paid" -> {"declined", "pending", "success"}
               [] money[t] = "wrong" -> {"declined", "pending", "mismatch"}
               [] money[t] = "refunded" -> {"declined", "pending", "success", "refund"}
    IN  IF order[t].provider = "paymob" THEN p ELSE p \cap {"declined", "success"}

\* Mutant: the amount and the currency are not compared.
Reaction_AnyAmount(t, ev, status) ==
    LET fail == IF HasPromo(t) THEN "failRelease" ELSE "failSave" IN
    CASE ev \in {"success", "mismatch"} -> "claim"
      [] ev = "declined" -> IF status = "pending" THEN fail ELSE "idle"
      [] ev = "refund" -> IF status = "success" THEN "refundClaim" ELSE "idle"
      [] OTHER -> "idle"

\* What a handler does with the row it has read: nothing is asked of its status for a
\* success or a mismatch of Paymob's.
Reaction(t, ev, status) ==
    LET fail == IF HasPromo(t) THEN "failRelease" ELSE "failSave" IN
    CASE ev = "success" -> IF order[t].provider = "fawaterk" /\ status = "success"
                           THEN "idle" ELSE "claim"
      [] ev = "mismatch" -> fail
      [] ev = "declined" -> IF status = "pending" THEN fail ELSE "idle"
      [] ev = "refund" -> IF status = "success" THEN "refundClaim" ELSE "idle"
      [] OTHER -> "idle"

\* The handler finds the transaction and keeps the entity.
Deliver(p, t, ev) ==
    LET next == IF order[t].provider = "paymob" THEN "hookSave"
                ELSE Reaction(t, ev, txn[t].status) IN
    /\ req[p].pc = "idle"
    /\ news < MaxNews
    /\ news' = news + 1
    /\ ev \in News(t)
    /\ next # "idle"
    /\ req' = [req EXCEPT ![p] = [Idle EXCEPT !.txn = t, !.ev = ev, !.pc = next,
                                  !.status = txn[t].status, !.meta = txn[t].meta]]
    /\ UNCHANGED <<order, txn, access, promo, money, fulfilments, overwritten, crashed>>

\* Paymob's handler saves the whole entity to keep the raw payload, then acts on it.
HookSave(p) ==
    LET next == Reaction(req[p].txn, req[p].ev, req[p].status) IN
    /\ req[p].pc = "hookSave"
    /\ Save(p, req[p].status)
    /\ IF next = "idle" THEN End(p) ELSE Goto(p, next)
    /\ UNCHANGED <<order, access, promo, money>>

\* Declined, voided, or a success with another amount: give the reservation back, ...
FailRelease(p) ==
    /\ req[p].pc = "failRelease"
    /\ GiveBack(req[p].txn)
    /\ Goto(p, "failSave")
    /\ UNCHANGED <<order, txn, access, money, history>>

\* ... then save the entity FAILED, whatever the row has become.
FailSave(p) ==
    /\ req[p].pc = "failSave"
    /\ Save(p, "failed")
    /\ End(p)
    /\ UNCHANGED <<order, access, promo, money>>

(***************************************************************************)
(* fulfillTransaction                                                      *)
(***************************************************************************)
\* Mutant: the UPDATE asks nothing of the status.
Claim_Unguarded(p) ==
    LET t == req[p].txn IN
    /\ req[p].pc = "claim"
    /\ txn' = [txn EXCEPT ![t].status = "success"]
    /\ IF "fulfilled" \notin req[p].meta
       THEN /\ fulfilments' = [fulfilments EXCEPT ![t] = IF @ < 2 THEN @ + 1 ELSE 2]
            /\ Goto(p, IF HasPromo(t) THEN "redeem" ELSE "grantFind")
       ELSE End(p) /\ UNCHANGED fulfilments
    /\ UNCHANGED <<order, access, promo, money, news, overwritten, crashed>>

\* UPDATE ... SET status = SUCCESS WHERE status <> SUCCESS. A row that was SUCCESS, or
\* an entity that says fulfilled, ends the request.
Claim(p) ==
    LET t == req[p].txn
        claimed == txn[t].status # "success"
        goesOn == claimed /\ "fulfilled" \notin req[p].meta IN
    /\ req[p].pc = "claim"
    /\ txn' = IF claimed THEN [txn EXCEPT ![t].status = "success"] ELSE txn
    /\ IF goesOn
       THEN /\ fulfilments' = [fulfilments EXCEPT ![t] = IF @ < 2 THEN @ + 1 ELSE 2]
            /\ Goto(p, IF HasPromo(t) THEN "redeem" ELSE "grantFind")
       ELSE End(p) /\ UNCHANGED fulfilments
    /\ UNCHANGED <<order, access, promo, money, news, overwritten, crashed>>

\* redeem() completes the reservation, makes a completed row when there is none, and
\* returns a row completed before; it throws otherwise (see Throw).
Redeem(p) ==
    LET t == req[p].txn IN
    /\ req[p].pc = "redeem"
    /\ \/ Ledger!Complete(t)
       \/ Ledger!Admit(t, "completed")
       \/ redemption[t] = "completed" /\ UNCHANGED promo
    /\ Goto(p, "grantFind")
    /\ UNCHANGED <<order, txn, access, money, history>>

\* enrollUserInCourse, createSubscriptionFromPayment, registerAttendee: what is there
\* already? Another active plan of the user throws.
GrantFind(p) ==
    LET t == req[p].txn
        h == Holder(t) IN
    /\ req[p].pc = "grantFind"
    /\ \/ /\ Kind(t) = "course"
          /\ req' = [req EXCEPT ![p] =
                        [@ EXCEPT !.look = enrollment[h],
                                  !.pc = IF enrollment[h] = "active" THEN "mark" ELSE "grantWrite"]]
       \/ /\ Kind(t) = "plan"
          /\ subs[t] = << >> => ~HasActivePlan(UserOf[t])
          /\ Goto(p, IF subs[t] = << >> THEN "grantWrite" ELSE "mark")
       \/ /\ Kind(t) = "session"
          /\ Goto(p, IF seat[h] THEN "mark" ELSE "grantWrite")
    /\ UNCHANGED <<order, txn, access, promo, money, history>>

\* Reactivate the row found, or insert one: the unique keys of enrollments and
\* attendees refuse a second row, subscriptions have no such key.
GrantWrite(p) ==
    LET t == req[p].txn
        h == Holder(t) IN
    /\ req[p].pc = "grantWrite"
    /\ \/ /\ Kind(t) = "course"
          /\ req[p].look = "cancelled" \/ enrollment[h] = "none"
          /\ enrollment' = [enrollment EXCEPT ![h] = "active"]
          /\ UNCHANGED <<subs, seat>>
       \/ /\ Kind(t) = "plan"
          /\ subs' = [subs EXCEPT ![t] = Append(@, "active")]
          /\ UNCHANGED <<enrollment, seat>>
       \/ /\ Kind(t) = "session"
          /\ ~seat[h]
          /\ seat' = [seat EXCEPT ![h] = TRUE]
          /\ UNCHANGED <<enrollment, subs>>
    /\ Goto(p, "mark")
    /\ UNCHANGED <<order, txn, promo, money, history>>

\* Mutant: the error is caught too early and the transaction marked all the same.
Throw_Swallowed(p) ==
    /\ req[p].pc \in {"freeReserve", "freeRedeem", "redeem", "grantFind", "grantWrite", "mark"}
    /\ Goto(p, "mark")
    /\ UNCHANGED <<order, txn, access, promo, money, history>>

\* A call inside the try of fulfillTransaction or of a free checkout throws: an
\* expired reservation, a closed or full code, another active plan, a full session, a
\* duplicate key, a failing query.
Throw(p) ==
    /\ req[p].pc \in {"freeReserve", "freeRedeem", "redeem", "grantFind", "grantWrite", "mark"}
    /\ Goto(p, IF IsFree(req[p].txn) THEN "freeUndo" ELSE "markError")
    /\ UNCHANGED <<order, txn, access, promo, money, history>>

\* Mutant: a misspelt key.
Mark_OtherKey(p) ==
    /\ req[p].pc = "mark"
    /\ UpdateMeta(p, {"fulfiled"})
    /\ End(p)
    /\ UNCHANGED <<order, access, promo, money>>

Mark(p) ==
    /\ req[p].pc = "mark"
    /\ UpdateMeta(p, {"fulfilled"})
    /\ End(p)
    /\ UNCHANGED <<order, access, promo, money>>

\* Mutant: the error is only logged.
MarkError_LogOnly(p) ==
    /\ req[p].pc = "markError"
    /\ UpdateMeta(p, {})
    /\ End(p)
    /\ UNCHANGED <<order, access, promo, money>>

\* The catch block: no retry, the error is noted.
MarkError(p) ==
    /\ req[p].pc = "markError"
    /\ UpdateMeta(p, {"fulfillmentError"})
    /\ End(p)
    /\ UNCHANGED <<order, access, promo, money>>

(***************************************************************************)
(* handleRefund                                                            *)
(***************************************************************************)
\* UPDATE ... SET status = REFUNDED WHERE status = SUCCESS
RefundClaim(p) ==
    LET t == req[p].txn IN
    /\ req[p].pc = "refundClaim"
    /\ IF txn[t].status = "success"
       THEN /\ txn' = [txn EXCEPT ![t].status = "refunded"]
            /\ Goto(p, "refundRevoke")
       ELSE End(p) /\ UNCHANGED txn
    /\ UNCHANGED <<order, access, promo, money, history>>

\* Cancel the user's enrollment in the course, whichever transaction paid for it, or
\* the newest subscription of this payment; a session keeps its attendee. The find and
\* the save behind it are one step: nobody else cancels in between. A failure is
\* logged, and the refund goes on.
RefundRevoke(p) ==
    LET t == req[p].txn
        h == Holder(t)
        n == Len(subs[t]) IN
    /\ req[p].pc = "refundRevoke"
    /\ \/ /\ enrollment' = IF Kind(t) = "course" /\ enrollment[h] = "active"
                           THEN [enrollment EXCEPT ![h] = "cancelled"] ELSE enrollment
          /\ subs' = IF n > 0 THEN [subs EXCEPT ![t][n] = "cancelled"] ELSE subs
       \/ UNCHANGED <<enrollment, subs>>
    /\ Goto(p, "refundMark")
    /\ UNCHANGED <<order, txn, seat, promo, money, history>>

RefundMark(p) ==
    /\ req[p].pc = "refundMark"
    /\ UpdateMeta(p, {})
    /\ IF HasPromo(req[p].txn) THEN Goto(p, "refundReverse") ELSE End(p)
    /\ UNCHANGED <<order, access, promo, money>>

\* Its failure, too, is only logged.
RefundReverse(p) ==
    /\ req[p].pc = "refundReverse"
    /\ TakeBack(req[p].txn) \/ UNCHANGED promo
    /\ End(p)
    /\ UNCHANGED <<order, txn, access, money, history>>

(***************************************************************************)
(* The provider, the clock, the server                                     *)
(***************************************************************************)
\* A user pays while the payment is open at the provider, whatever became of the row;
\* the amount may be another one; the merchant refunds.
Pay(t) ==
    /\ \/ money[t] = "open" /\ money' = [money EXCEPT ![t] = "paid"]
       \/ money[t] = "open" /\ money' = [money EXCEPT ![t] = "wrong"]
       \/ money[t] = "paid" /\ money' = [money EXCEPT ![t] = "refunded"]
    /\ UNCHANGED <<order, txn, access, promo, req, history>>

\* A reservation runs out, and later the cron job of the promo codes expires it.
Lapse(t) ==
    /\ \/ redemption[t] = "reserved" /\ t \in live /\ Ledger!Lapse({t})
       \/ redemption[t] = "reserved" /\ t \notin live /\ Ledger!Release({t})
    /\ UNCHANGED <<order, txn, access, money, req, history>>

\* The process stops, or a call outside a try fails: what the request has written
\* stays, what it was going to do is never done.
Crash(p) ==
    /\ req[p].pc # "idle"
    /\ Cardinality(crashed) < MaxCrashes
    /\ End(p)
    /\ crashed' = crashed \cup {req[p].txn}
    /\ UNCHANGED <<order, txn, access, promo, money, news, fulfilments, overwritten>>

Continue(p) ==
    \/ CancelFind(p) \/ CancelRelease(p) \/ CancelUpdate(p)
    \/ Insert(p) \/ Reserve(p) \/ ReserveRefused(p)
    \/ Initiate(p) \/ InitiateFails(p) \/ AbortRelease(p) \/ AbortSave(p)
    \/ FreeInsert(p) \/ FreePromo(p) \/ FreeUndo(p) \/ FreeFail(p)
    \/ HookSave(p) \/ FailRelease(p) \/ FailSave(p)
    \/ Claim(p) \/ Redeem(p) \/ GrantFind(p) \/ GrantWrite(p) \/ Throw(p)
    \/ Mark(p) \/ MarkError(p)
    \/ RefundClaim(p) \/ RefundRevoke(p) \/ RefundMark(p) \/ RefundReverse(p)

Next ==
    \/ \E p \in Proc :
          \/ \E t \in Txn : CheckoutBegin(p, t) \/ \E ev \in Event : Deliver(p, t, ev)
          \/ Continue(p)
          \/ Crash(p)
    \/ \E t \in Txn : Pay(t) \/ Lapse(t)

Spec == Init /\ [][Next]_vars

(***************************************************************************)
(* Properties                                                              *)
(***************************************************************************)
\* Every variable holds what its table, its column or a request's memory can hold,
\* and a request that works on a transaction has one.
TypeOK ==
    /\ order \in Scenarios
    /\ txn \in [Txn -> TxnRow]
    /\ enrollment \in [User \X Ref -> EnrollmentStatus]
    /\ subs \in [Txn -> Seq(SubStatus)]
    /\ seat \in [User \X Ref -> BOOLEAN]
    /\ redemption \in [Txn -> Ledger!Status]
    /\ live \subseteq Txn
    /\ money \in [Txn -> Money]
    /\ req \in [Proc -> Request]
    /\ \A p \in Proc : req[p].pc # "idle" => req[p].txn \in Txn
    /\ news \in 0..MaxNews
    /\ fulfilments \in [Txn -> 0..2]
    /\ overwritten \subseteq Txn
    /\ crashed \subseteq Txn

\* The provider has the right amount, or there was nothing to pay.
Paid(t) == IsFree(t) \/ money[t] \in {"paid", "refunded"}

\* Nobody gets anything for nothing: whatever the order of webhooks, retries and
\* stale saves, a transaction is SUCCESS or REFUNDED, a course, plan or seat is
\* granted, only when a transaction for it was paid in full.
NothingUnpaid ==
    /\ \A t \in Txn : txn[t].status \in {"success", "refunded"} => Paid(t)
    /\ \A t \in Txn : subs[t] # << >> => Paid(t)
    /\ \A h \in User \X Ref : enrollment[h] # "none" \/ seat[h] =>
           \E t \in Txn : Holder(t) = h /\ Paid(t)

\* "Atomic status update - only one concurrent call can succeed" (fulfillTransaction):
\* a second fulfilment needs a stale entity that was saved over the row, or a refund
\* in between.
FulfilledOnceUnlessOverwritten ==
    \A t \in Txn : fulfilments[t] > 1 => t \in overwritten \/ money[t] = "refunded"

\* Nobody's payment is forgotten: when no request works on a SUCCESS transaction any
\* more, it is fulfilled or says why not, unless a request died on it or a stale
\* entity was saved over it.
SettledUnlessMishap ==
    \A t \in Txn : txn[t].status = "success" /\ ~Busy(t) =>
        txn[t].meta # {} \/ t \in overwritten \cup crashed

\* A transaction marked fulfilled has delivered: its user has the course, the plan or
\* the seat, and its promo code is used up, until a purchase of the same thing is
\* refunded.
FulfilledMeansDelivered ==
    \A t \in Txn :
        /\ "fulfilled" \in txn[t].meta
        /\ \A x \in Txn : Holder(x) = Holder(t) => money[x] # "refunded"
        => /\ Kind(t) = "course" => enrollment[Holder(t)] = "active"
           /\ Kind(t) = "plan" => HasActiveSub(t)
           /\ Kind(t) = "session" => seat[Holder(t)]
           /\ HasPromo(t) => redemption[t] = "completed"

\* A payment that has failed uses no promo code up, whatever requests still work on it or
\* died on it, unless a stale entity was saved over a successful one.
FailedUsesNoPromo ==
    \A t \in Txn : txn[t].status = "failed" => redemption[t] # "completed" \/ t \in overwritten

\* "Atomic status update - only one concurrent call can succeed" and "Mark as
\* fulfilled to prevent double-fulfillment on webhook replay" (fulfillTransaction),
\* taken at their word: no transaction is fulfilled twice.
OnlyOneFulfilment == \A t \in Txn : fulfilments[t] <= 1
=============================================================================
