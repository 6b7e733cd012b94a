--------------------------- MODULE Subscriptions ---------------------------
(***************************************************************************)
(* SubscriptionsService: plans, subscriptions, their expiry, and the Redis *)
(* entry by which access to a grade is answered.                           *)
(*                                                                         *)
(* No statement here is guarded and no row is locked: a request finds an   *)
(* entity, decides, saves it whole, then deletes the cached answer. Each   *)
(* awaited call is an action, and any other request may come in between.   *)
(***************************************************************************)
EXTENDS Naturals

CONSTANTS
    Sub,       \* subscription ids
    User,
    Plan,
    Grade,
    Payment,   \* payment ids: transactions, or what an administrator enters
    Proc,      \* requests in progress at the same time
    UserOf,    \* the user and the plan an id is drawn for
    PlanOf,
    GradeOf,   \* grade and durationDays of a plan: update() cannot change them
    DurationOf,
    CacheTtl,  \* 300 seconds
    Horizon,   \* bound: the clock stops here
    Null

ASSUME UserOfAssumption == UserOf \in [Sub -> User]
ASSUME PlanOfAssumption == PlanOf \in [Sub -> Plan]
ASSUME GradeOfAssumption == GradeOf \in [Plan -> Grade]
ASSUME DurationAssumption == DurationOf \in [Plan -> Nat]
ASSUME TtlAssumption == CacheTtl \in Nat
ASSUME HorizonAssumption == Horizon \in Nat
ASSUME NullAssumption == Null \notin Sub \cup Payment

VARIABLES
    plans,      \* the plans that exist
    sub,        \* subscriptions rows
    cache,      \* sub:<user>:<grade> -> the subscription it answers with, until when
    req,        \* the requests in progress
    now,
    unchecked,  \* history: subscriptions whose check for another active one is void
    missed      \* history: subscriptions whose invalidation missed a cached answer

vars == <<plans, sub, cache, req, now, unchecked, missed>>

Key == User \X Grade
KeyOf(s) == <<UserOf[s], GradeOf[PlanOf[s]]>>

Row == [status : {"none", "pending", "active", "expired", "cancelled"},
        end : Nat, payment : Payment \cup {Null}]
NoRow == [status |-> "none", end |-> 0, payment |-> Null]

Entry == [sub : Sub \cup {Null}, until : Nat]
Miss == [sub |-> Null, until |-> 0]

Creating == {"activeCheck", "insert"}
SubSteps == Creating \cup {"activateSave", "cancelSave", "drop", "fill"}
PlanSteps == {"planSave", "planCount", "planRemove"}
\* entity is the row a request has read or is about to insert.
Request == [pc : {"idle", "find"} \cup SubSteps \cup PlanSteps,
            sub : Sub \cup {Null}, plan : Plan \cup {Null}, key : Key \cup {Null}, entity : Row]
Idle == [pc |-> "idle", sub |-> Null, plan |-> Null, key |-> Null, entity |-> NoRow]

Init ==
    /\ plans = {}
    /\ sub = [s \in Sub |-> NoRow]
    /\ cache = [k \in Key |-> Miss]
    /\ req = [p \in Proc |-> Idle]
    /\ now = 0
    /\ unchecked = {}
    /\ missed = {}

Goto(p, step) == req' = [req EXCEPT ![p].pc = step]
End(p) == req' = [req EXCEPT ![p] = Idle]

\* status = ACTIVE of a user and a grade; findOne() may return any of them.
ActiveRows(k) == {s \in Sub : KeyOf(s) = k /\ sub[s].status = "active"}
\* isExpired(), as of isActive(); the hourly job may not have come by yet.
IsExpired(s) == now > sub[s].end
InDate(k) == {s \in ActiveRows(k) : ~IsExpired(s)}

(***************************************************************************)
(* Plans                                                                   *)
(***************************************************************************)
CreatePlan(pl) ==
    /\ pl \notin plans
    /\ plans' = plans \cup {pl}
    /\ UNCHANGED <<sub, cache, req, now, unchecked, missed>>

\* update() and delete() find the plan ...
PlanFind(p, pl) ==
    /\ req[p].pc = "idle"
    /\ pl \in plans
    /\ \E step \in {"planSave", "planCount"} :
           req' = [req EXCEPT ![p] = [Idle EXCEPT !.pc = step, !.plan = pl]]
    /\ UNCHANGED <<plans, sub, cache, now, unchecked, missed>>

\* ... a plan deleted meanwhile is inserted again by the save, ...
PlanSave(p) ==
    /\ req[p].pc = "planSave"
    /\ plans' = plans \cup {req[p].plan}
    /\ End(p)
    /\ UNCHANGED <<sub, cache, now, unchecked, missed>>

\* ... and delete() refuses while a subscription of the plan is active.
PlanCount(p) ==
    /\ req[p].pc = "planCount"
    /\ IF \E s \in Sub : PlanOf[s] = req[p].plan /\ sub[s].status = "active"
       THEN End(p) ELSE Goto(p, "planRemove")
    /\ UNCHANGED <<plans, sub, cache, now, unchecked, missed>>

\* Mutant: no foreign key.
PlanRemove_NoForeignKey(p) ==
    /\ req[p].pc = "planRemove"
    /\ plans' = plans \ {req[p].plan}
    /\ End(p)
    /\ UNCHANGED <<sub, cache, now, unchecked, missed>>

\* The foreign key (RESTRICT) refuses while any subscription refers to the plan.
PlanRemove(p) ==
    LET pl == req[p].plan IN
    /\ req[p].pc = "planRemove"
    /\ plans' = IF \E s \in Sub : PlanOf[s] = pl /\ sub[s].status # "none"
                THEN plans ELSE plans \ {pl}
    /\ End(p)
    /\ UNCHANGED <<sub, cache, now, unchecked, missed>>

(***************************************************************************)
(* Subscriptions                                                           *)
(***************************************************************************)
Begin(p, step, s, entity) ==
    /\ req[p].pc = "idle"
    /\ req' = [req EXCEPT ![p] = [Idle EXCEPT !.pc = step, !.sub = s, !.entity = entity]]

\* Mutant: the payment is not looked for.
CreateBegin_AnyPayment(p, s, payment) ==
    /\ sub[s].status = "none"
    /\ \A q \in Proc : req[q].sub # s
    /\ PlanOf[s] \in plans
    /\ Begin(p, "activeCheck", s,
             [NoRow EXCEPT !.status = IF payment = Null THEN "pending" ELSE "active",
                           !.payment = payment])
    /\ UNCHANGED <<plans, sub, cache, now, unchecked, missed>>

\* createSubscription(): the plan exists and no subscription has the payment; one that
\* has is returned as it is. An administrator may create one without a payment.
CreateBegin(p, s, payment) ==
    /\ sub[s].status = "none"
    /\ \A q \in Proc : req[q].sub # s
    /\ PlanOf[s] \in plans
    /\ payment # Null => \A r \in Sub : sub[r].payment # payment
    /\ Begin(p, "activeCheck", s,
             [NoRow EXCEPT !.status = IF payment = Null THEN "pending" ELSE "active",
                           !.payment = payment])
    /\ UNCHANGED <<plans, sub, cache, now, unchecked, missed>>

\* Mutant: nothing is asked of the subscriptions the user has.
ActiveCheck_Skipped(p) ==
    LET s == req[p].sub IN
    /\ req[p].pc = "activeCheck"
    /\ req' = [req EXCEPT ![p].pc = "insert", ![p].entity.end = now + DurationOf[PlanOf[s]]]
    /\ UNCHANGED <<plans, sub, cache, now, unchecked, missed>>

\* findOne() of the active subscriptions: go on when there is none, or when the one it
\* returns has run out, whatever the others are.
ActiveCheck(p) ==
    LET s == req[p].sub
        active == ActiveRows(KeyOf(s)) IN
    /\ req[p].pc = "activeCheck"
    /\ active = {} \/ \E r \in active : IsExpired(r)
    /\ unchecked' = IF active = {} THEN unchecked ELSE unchecked \cup {s}
    /\ req' = [req EXCEPT ![p].pc = "insert", ![p].entity.end = now + DurationOf[PlanOf[s]]]
    /\ UNCHANGED <<plans, sub, cache, now, missed>>

\* 'User already has an active subscription for this grade'
ActiveCheckRefuses(p) ==
    /\ req[p].pc = "activeCheck"
    /\ InDate(KeyOf(req[p].sub)) # {}
    /\ End(p)
    /\ UNCHANGED <<plans, sub, cache, now, unchecked, missed>>

\* Requests that are creating a subscription of the same user and grade.
Rivals(p) == {q \in Proc \ {p} : req[q].pc \in Creating /\ KeyOf(req[q].sub) = KeyOf(req[p].sub)}

\* The insert; the foreign key refuses it when the plan is gone.
CreateInsert(p) ==
    LET s == req[p].sub IN
    /\ req[p].pc = "insert"
    /\ IF PlanOf[s] \in plans
       THEN /\ sub' = [sub EXCEPT ![s] = req[p].entity]
            /\ unchecked' = IF Rivals(p) = {} THEN unchecked
                            ELSE unchecked \cup {s} \cup {req[q].sub : q \in Rivals(p)}
            /\ Goto(p, "drop")
       ELSE End(p) /\ UNCHANGED <<sub, unchecked>>
    /\ UNCHANGED <<plans, cache, now, missed>>

\* activateSubscription(): find, PENDING?, save the entity with the payment.
ActivateFind(p, s, payment) ==
    /\ sub[s].status = "pending"
    /\ Begin(p, "activateSave", s, [sub[s] EXCEPT !.status = "active", !.payment = payment])
    /\ UNCHANGED <<plans, sub, cache, now, unchecked, missed>>

\* Nothing is asked of the user's other subscriptions.
ActivateSave(p) ==
    LET s == req[p].sub IN
    /\ req[p].pc = "activateSave"
    /\ sub' = [sub EXCEPT ![s] = req[p].entity]
    /\ unchecked' = unchecked \cup {s}
    /\ Goto(p, "drop")
    /\ UNCHANGED <<plans, cache, now, missed>>

\* cancelSubscription(), by an administrator, the user or a refund: find, ACTIVE?, ...
CancelFind(p, s) ==
    /\ sub[s].status = "active"
    /\ Begin(p, "cancelSave", s, [sub[s] EXCEPT !.status = "cancelled"])
    /\ UNCHANGED <<plans, sub, cache, now, unchecked, missed>>

\* Mutant: the cached answer is forgotten.
CancelSave_NoDrop(p) ==
    /\ req[p].pc = "cancelSave"
    /\ sub' = [sub EXCEPT ![req[p].sub] = req[p].entity]
    /\ End(p)
    /\ UNCHANGED <<plans, cache, now, unchecked, missed>>

\* ... save, whatever the row has become.
CancelSave(p) ==
    /\ req[p].pc = "cancelSave"
    /\ sub' = [sub EXCEPT ![req[p].sub] = req[p].entity]
    /\ Goto(p, "drop")
    /\ UNCHANGED <<plans, cache, now, unchecked, missed>>

\* cacheService.del(): the answer of the user and the grade.
Drop(p) ==
    /\ req[p].pc = "drop"
    /\ cache' = [cache EXCEPT ![KeyOf(req[p].sub)] = Miss]
    /\ End(p)
    /\ UNCHANGED <<plans, sub, now, unchecked, missed>>

\* Redis does not answer, or the process stops: the row stays saved.
DropFails(p) ==
    /\ req[p].pc = "drop"
    /\ missed' = missed \cup {req[p].sub}
    /\ End(p)
    /\ UNCHANGED <<plans, sub, cache, now, unchecked>>

(***************************************************************************)
(* Access                                                                  *)
(***************************************************************************)
\* findActiveSubscription(): a hit is the answer and changes nothing (checkAccess() then asks
\* the parsed object for hasSubject(), which only entities have, and throws); a miss asks the
\* database.
AccessMiss(p, k) ==
    /\ req[p].pc = "idle"
    /\ cache[k] = Miss
    /\ req' = [req EXCEPT ![p] = [Idle EXCEPT !.pc = "find", !.key = k]]
    /\ UNCHANGED <<plans, sub, cache, now, unchecked, missed>>

\* findOne() of the active rows, any of them. One in date is the answer; with none, or
\* one that has run out, access is denied.
AccessFind(p) ==
    LET active == ActiveRows(req[p].key) IN
    /\ req[p].pc = "find"
    /\ \/ /\ \E s \in active : ~IsExpired(s) /\ req' = [req EXCEPT ![p].pc = "fill", ![p].sub = s]
       \/ /\ active = {} \/ \E s \in active : IsExpired(s)
          /\ End(p)
    /\ UNCHANGED <<plans, sub, cache, now, unchecked, missed>>

\* SETEX, with what was read before: the row may have been cancelled meanwhile, and its
\* cached answer deleted already.
AccessFill(p) ==
    LET s == req[p].sub IN
    /\ req[p].pc = "fill"
    /\ cache' = [cache EXCEPT ![req[p].key] = [sub |-> s, until |-> now + CacheTtl]]
    /\ missed' = IF sub[s].status = "active" THEN missed ELSE missed \cup {s}
    /\ End(p)
    /\ UNCHANGED <<plans, sub, now, unchecked>>

(***************************************************************************)
(* Jobs and time                                                           *)
(***************************************************************************)
\* Mutant: the subscriptions still to come to their end.
Overdue_Reversed == {s \in Sub : sub[s].status = "active" /\ now < sub[s].end}

Overdue == {s \in Sub : sub[s].status = "active" /\ IsExpired(s)}

\* One UPDATE every hour. The cached answers stay.
ProcessExpired ==
    /\ Overdue # {}
    /\ sub' = [s \in Sub |-> IF s \in Overdue THEN [sub[s] EXCEPT !.status = "expired"] ELSE sub[s]]
    /\ UNCHANGED <<plans, cache, req, now, unchecked, missed>>

\* Mutant: SET without an expiry.
Outlived_Never(t) == {}

Outlived(t) == {k \in Key : cache[k] # Miss /\ cache[k].until <= t}

\* Redis forgets the answers whose time is up.
Tick ==
    /\ now < Horizon
    /\ now' = now + 1
    /\ cache' = [k \in Key |-> IF k \in Outlived(now + 1) THEN Miss ELSE cache[k]]
    /\ UNCHANGED <<plans, sub, req, unchecked, missed>>

Continue(p) ==
    \/ PlanSave(p) \/ PlanCount(p) \/ PlanRemove(p)
    \/ ActiveCheck(p) \/ ActiveCheckRefuses(p) \/ CreateInsert(p)
    \/ ActivateSave(p) \/ CancelSave(p) \/ Drop(p) \/ DropFails(p)
    \/ AccessFind(p) \/ AccessFill(p)

\* What a request may do: begin, or take the step after the call it awaits.
Serve(p) ==
    \/ \E pl \in Plan : PlanFind(p, pl)
    \/ \E s \in Sub : \/ \E x \in Payment \cup {Null} : CreateBegin(p, s, x)
                     \/ \E x \in Payment : ActivateFind(p, s, x)
                     \/ CancelFind(p, s)
    \/ \E k \in Key : AccessMiss(p, k)
    \/ Continue(p)

Next ==
    \/ \E pl \in Plan : CreatePlan(pl)
    \/ \E p \in Proc : Serve(p)
    \/ ProcessExpired
    \/ Tick

Spec == Init /\ [][Next]_vars

\* The clock runs and @nestjs/schedule starts the job every hour; no request is assumed
\* to be made or to end.
Fairness == WF_vars(Tick) /\ WF_vars(ProcessExpired)
FairSpec == Spec /\ Fairness

(***************************************************************************)
(* Properties                                                              *)
(***************************************************************************)
\* Every variable holds what its row, its Redis entry or a request's memory can hold,
\* and the plan of a subscription exists (the foreign key of subscriptions).
TypeOK ==
    /\ plans \subseteq Plan
    /\ sub \in [Sub -> Row]
    /\ \A s \in Sub : sub[s].status # "none" => PlanOf[s] \in plans
    /\ cache \in [Key -> Entry]
    /\ req \in [Proc -> Request]
    /\ \A p \in Proc : /\ req[p].pc \in SubSteps => req[p].sub \in Sub
                       /\ req[p].pc \in PlanSteps => req[p].plan \in Plan
                       /\ req[p].pc \in {"find", "fill"} => req[p].key \in Key
    /\ now \in Nat
    /\ unchecked \subseteq Sub
    /\ missed \subseteq Sub

\* "Invalidate cache" (cancelSubscription): a cancelled subscription is not served from
\* the cache once its cancellation has ended, unless the deletion failed or a reader who
\* had read the row before wrote its answer after it.
CancelledNotServed ==
    \A k \in Key : \A s \in Sub :
        cache[k].sub = s /\ sub[s].status = "cancelled" =>
            s \in missed \/ \E p \in Proc : req[p].pc = "drop" /\ req[p].sub = s

\* 'User already has an active subscription for this grade' (createSubscription): a user
\* has two subscriptions of a grade in force only if one was activated by an
\* administrator, created at the same time as another, or created while an overdue row
\* of the grade was waiting for the hourly job.
OneActiveUnlessUnchecked ==
    \A k \in Key : \A s, r \in InDate(k) : s # r => unchecked \cap {s, r} # {}

\* "Guard: prevent duplicate subscription by paymentId" (createSubscription): a payment
\* gives one subscription of a grade, but for creations at the same time and for
\* activations, where an administrator enters the payment.
OnePerPaymentUnlessUnchecked ==
    \A s, r \in Sub : s # r /\ KeyOf(s) = KeyOf(r) /\ sub[s].payment = sub[r].payment =>
        sub[s].payment = Null \/ unchecked \cap {s, r} # {}

\* The hourly job: a subscription that has run out does not stay ACTIVE.
OverdueSubscriptionsEnd ==
    \A s \in Sub : sub[s].status = "active" /\ sub[s].end < Horizon ~> sub[s].status # "active"

\* However late it was written, no answer is served for ever: a cancelled subscription
\* leaves the cache when the five minutes of its entry are over.
StaleAnswersEnd ==
    \A k \in Key : \A s \in Sub : \A t \in 0..Horizon :
        cache[k] = [sub |-> s, until |-> t] /\ sub[s].status = "cancelled"
            ~> cache[k] # [sub |-> s, until |-> t]
=============================================================================
