------------------------ MODULE SubscriptionsProofs ------------------------
(***************************************************************************)
(* What holds of Subscriptions for any subscriptions, users, plans,        *)
(* payments, requests, plan durations, cache lifetime and horizon.         *)
(***************************************************************************)
EXTENDS Subscriptions, TLAPS

(***************************************************************************)
(* Requests                                                                *)
(***************************************************************************)
\* The requests but p's are as they were.
Others(p) == \A q \in Proc \ {p} : req'[q] = req[q]

LEMMA IdleType == Idle \in Request /\ NoRow \in Row
BY DEF Idle, NoRow, Request, Row

LEMMA KeyType == \A s \in Sub : KeyOf(s) \in Key
BY UserOfAssumption, PlanOfAssumption, GradeOfAssumption DEF KeyOf, Key

LEMMA GotoFacts ==
    ASSUME TypeOK, NEW p \in Proc, NEW step \in SubSteps \cup PlanSteps, Goto(p, step)
    PROVE  /\ req' \in [Proc -> Request]
           /\ Others(p)
           /\ req'[p].pc = step /\ req'[p].sub = req[p].sub /\ req'[p].plan = req[p].plan
           /\ req'[p].key = req[p].key /\ req'[p].entity = req[p].entity
BY DEF TypeOK, Goto, Others, Request

LEMMA EndFacts ==
    ASSUME TypeOK, NEW p \in Proc, End(p)
    PROVE  req' \in [Proc -> Request] /\ Others(p) /\ req'[p].pc = "idle" /\ req'[p].sub = Null
<1>1. req'[p] = Idle /\ Others(p)
  BY DEF TypeOK, End, Others
<1> QED BY <1>1, IdleType DEF TypeOK, End, Idle

LEMMA BeginFacts ==
    ASSUME TypeOK, NEW p \in Proc, NEW step \in SubSteps, NEW s \in Sub, NEW entity \in Row,
           Begin(p, step, s, entity)
    PROVE  /\ req' \in [Proc -> Request]
           /\ Others(p)
           /\ req[p].pc = "idle"
           /\ req'[p].pc = step /\ req'[p].sub = s /\ req'[p].entity = entity
<1> DEFINE r == [Idle EXCEPT !.pc = step, !.sub = s, !.entity = entity]
<1>1. req' = [req EXCEPT ![p] = r] /\ req[p].pc = "idle"
  BY DEF Begin
<1>2. r \in Request /\ r.pc = step /\ r.sub = s /\ r.entity = entity
  BY DEF Idle, Request
<1> HIDE DEF r
<1>3. req'[p] = r /\ Others(p)
  BY <1>1 DEF TypeOK, Others
<1> QED BY <1>1, <1>2, <1>3 DEF TypeOK

\* The three ways in which a request about a subscription begins.
LEMMA CreateBeginFacts ==
    ASSUME TypeOK, NEW p \in Proc, NEW s \in Sub, NEW x \in Payment \cup {Null},
           CreateBegin(p, s, x)
    PROVE  /\ req' \in [Proc -> Request]
           /\ Others(p)
           /\ req[p].pc = "idle"
           /\ req'[p].pc = "activeCheck" /\ req'[p].sub = s
           /\ req'[p].entity.status \in {"pending", "active"}
           /\ req'[p].entity.payment = x
<1> DEFINE e == [NoRow EXCEPT !.status = IF x = Null THEN "pending" ELSE "active", !.payment = x]
<1>1. e \in Row /\ e.status \in {"pending", "active"} /\ e.payment = x
  BY DEF NoRow, Row
<1>2. Begin(p, "activeCheck", s, e)
  BY DEF CreateBegin
<1> HIDE DEF e
<1> QED BY <1>1, <1>2, BeginFacts DEF SubSteps, Creating

LEMMA ActivateFindFacts ==
    ASSUME TypeOK, NEW p \in Proc, NEW s \in Sub, NEW x \in Payment, ActivateFind(p, s, x)
    PROVE  /\ req' \in [Proc -> Request]
           /\ Others(p)
           /\ req[p].pc = "idle"
           /\ req'[p].pc = "activateSave" /\ req'[p].sub = s
           /\ req'[p].entity.status = "active"
<1> DEFINE e == [sub[s] EXCEPT !.status = "active", !.payment = x]
<1>1. e \in Row /\ e.status = "active"
  BY DEF TypeOK, Row
<1>2. Begin(p, "activateSave", s, e)
  BY DEF ActivateFind
<1> HIDE DEF e
<1> QED BY <1>1, <1>2, BeginFacts DEF SubSteps

LEMMA CancelFindFacts ==
    ASSUME TypeOK, NEW p \in Proc, NEW s \in Sub, CancelFind(p, s)
    PROVE  /\ req' \in [Proc -> Request]
           /\ Others(p)
           /\ req[p].pc = "idle"
           /\ req'[p].pc = "cancelSave" /\ req'[p].sub = s
           /\ req'[p].entity.status = "cancelled"
           /\ req'[p].entity.payment = sub[s].payment
<1> DEFINE e == [sub[s] EXCEPT !.status = "cancelled"]
<1>1. e \in Row /\ e.status = "cancelled" /\ e.payment = sub[s].payment
  BY DEF TypeOK, Row
<1>2. Begin(p, "cancelSave", s, e)
  BY DEF CancelFind
<1> HIDE DEF e
<1> QED BY <1>1, <1>2, BeginFacts DEF SubSteps

LEMMA ActiveCheckFacts ==
    ASSUME TypeOK, NEW p \in Proc, ActiveCheck(p)
    PROVE  /\ req' \in [Proc -> Request]
           /\ Others(p)
           /\ req'[p].pc = "insert" /\ req'[p].sub = req[p].sub
           /\ req'[p].entity.status = req[p].entity.status
           /\ req'[p].entity.payment = req[p].entity.payment
<1> DEFINE end == now + DurationOf[PlanOf[req[p].sub]]
           e == [req[p].entity EXCEPT !.end = end]
           r == [req[p] EXCEPT !.pc = "insert", !.entity = e]
<1>1. req[p].sub \in Sub
  BY DEF TypeOK, ActiveCheck, SubSteps, Creating
<1>2. end \in Nat
  BY <1>1, PlanOfAssumption, DurationAssumption DEF TypeOK
<1>3. req' = [req EXCEPT ![p] = r]
  BY DEF ActiveCheck
<1>4. req[p] \in Request
  BY DEF TypeOK
<1> HIDE DEF end
<1>5. e \in Row /\ e.status = req[p].entity.status /\ e.payment = req[p].entity.payment
  BY <1>2, <1>4 DEF Request, Row
<1> HIDE DEF e
<1>6. r \in Request /\ r.pc = "insert" /\ r.sub = req[p].sub /\ r.entity = e
  BY <1>4, <1>5 DEF Request, SubSteps, Creating
<1> HIDE DEF r
<1> QED BY <1>3, <1>5, <1>6 DEF TypeOK, Others

LEMMA AccessMissFacts ==
    ASSUME TypeOK, NEW p \in Proc, NEW k \in Key, AccessMiss(p, k)
    PROVE  /\ req' \in [Proc -> Request]
           /\ Others(p)
           /\ req[p].pc = "idle" /\ req'[p].pc = "find" /\ req'[p].key = k
BY DEF TypeOK, AccessMiss, Others, Idle, NoRow, Row, Request

LEMMA ReadFacts ==
    ASSUME TypeOK, NEW p \in Proc, NEW s \in Sub,
           req' = [req EXCEPT ![p].pc = "fill", ![p].sub = s]
    PROVE  /\ req' \in [Proc -> Request]
           /\ Others(p)
           /\ req'[p].pc = "fill" /\ req'[p].sub = s /\ req'[p].key = req[p].key
BY DEF TypeOK, Others, Request, SubSteps

LEMMA PlanFindFacts ==
    ASSUME TypeOK, NEW p \in Proc, NEW pl \in Plan, PlanFind(p, pl)
    PROVE  /\ req' \in [Proc -> Request]
           /\ Others(p)
           /\ req[p].pc = "idle" /\ req'[p].pc \in {"planSave", "planCount"}
           /\ req'[p].plan = pl
<1>1. PICK step \in {"planSave", "planCount"} :
          req' = [req EXCEPT ![p] = [Idle EXCEPT !.pc = step, !.plan = pl]]
  BY DEF PlanFind
<1> QED BY <1>1 DEF TypeOK, PlanFind, Others, Idle, NoRow, Row, Request, PlanSteps

(***************************************************************************)
(* Types                                                                   *)
(***************************************************************************)
\* A saved entity is the row; no other row changes.
LEMMA SaveFacts ==
    ASSUME TypeOK, NEW p \in Proc, req[p].sub \in Sub,
           sub' = [sub EXCEPT ![req[p].sub] = req[p].entity]
    PROVE  /\ sub' \in [Sub -> Row]
           /\ sub'[req[p].sub] = req[p].entity
           /\ \A r \in Sub \ {req[p].sub} : sub'[r] = sub[r]
BY DEF TypeOK, Request

\* The hourly UPDATE writes one column of the rows it finds.
LEMMA ExpireFacts ==
    ASSUME TypeOK, ProcessExpired
    PROVE  /\ sub' \in [Sub -> Row]
           /\ \A s \in Sub : /\ sub'[s].end = sub[s].end /\ sub'[s].payment = sub[s].payment
                            /\ \/ sub'[s].status = sub[s].status
                               \/ sub[s].status = "active" /\ sub'[s].status = "expired"
<1>1. ASSUME NEW s \in Sub
      PROVE  LET r == [sub[s] EXCEPT !.status = "expired"]
             IN  r \in Row /\ r.end = sub[s].end /\ r.payment = sub[s].payment /\ r.status = "expired"
  BY DEF TypeOK, Row
<1>2. \A s \in Sub : sub'[s] = IF s \in Overdue THEN [sub[s] EXCEPT !.status = "expired"] ELSE sub[s]
  BY DEF ProcessExpired
<1>3. sub' \in [Sub -> Row]
  BY <1>1 DEF ProcessExpired, TypeOK
<1> QED BY <1>1, <1>2, <1>3 DEF Overdue

\* What a request keeps in memory while it works on a row.
Drafts ==
    \A p \in Proc :
        /\ req[p].pc \in Creating => req[p].entity.status \in {"pending", "active"}
        /\ req[p].pc = "activateSave" => req[p].entity.status = "active"
        /\ req[p].pc = "cancelSave" => req[p].entity.status = "cancelled"
        /\ req[p].pc \in {"activateSave", "cancelSave", "drop"} => sub[req[p].sub].status # "none"

RequestsOK ==
    /\ req \in [Proc -> Request]
    /\ \A p \in Proc : /\ req[p].pc \in SubSteps => req[p].sub \in Sub
                       /\ req[p].pc \in PlanSteps => req[p].plan \in Plan
                       /\ req[p].pc \in {"find", "fill"} => req[p].key \in Key

TablesOK ==
    /\ plans \subseteq Plan
    /\ sub \in [Sub -> Row]
    /\ \A s \in Sub : sub[s].status # "none" => PlanOf[s] \in plans
    /\ cache \in [Key -> Entry]
    /\ now \in Nat
    /\ unchecked \subseteq Sub
    /\ missed \subseteq Sub

LEMMA TypeParts == (TypeOK <=> TablesOK /\ RequestsOK) /\ (TypeOK' <=> TablesOK' /\ RequestsOK')
BY DEF TypeOK, TablesOK, RequestsOK

LEMMA TypeInit == Init => TypeOK
<1> SUFFICES ASSUME Init PROVE TypeOK OBVIOUS
<1>1. TablesOK
  BY IdleType DEF Init, TablesOK, NoRow, Miss, Entry
<1>2. RequestsOK
  BY IdleType DEF Init, RequestsOK, Idle, SubSteps, Creating, PlanSteps
<1> QED BY <1>1, <1>2, TypeParts

\* A step of a request touches that request alone, and keeps its types.
LEMMA RequestsStep ==
    ASSUME TypeOK, NEW p \in Proc, Serve(p)
    PROVE  RequestsOK' /\ Others(p)
<1> USE DEF RequestsOK, SubSteps, Creating, PlanSteps
<1>1. ASSUME NEW pl \in Plan, PlanFind(p, pl) PROVE RequestsOK' /\ Others(p)
  BY <1>1, PlanFindFacts DEF TypeOK, Others
<1>2. ASSUME NEW s \in Sub, NEW x \in Payment \cup {Null}, CreateBegin(p, s, x)
      PROVE  RequestsOK' /\ Others(p)
  BY <1>2, CreateBeginFacts DEF TypeOK, Others
<1>3. ASSUME NEW s \in Sub, NEW x \in Payment, ActivateFind(p, s, x)
      PROVE  RequestsOK' /\ Others(p)
  BY <1>3, ActivateFindFacts DEF TypeOK, Others
<1>4. ASSUME NEW s \in Sub, CancelFind(p, s) PROVE RequestsOK' /\ Others(p)
  BY <1>4, CancelFindFacts DEF TypeOK, Others
<1>5. ASSUME NEW k \in Key, AccessMiss(p, k) PROVE RequestsOK' /\ Others(p)
  BY <1>5, AccessMissFacts DEF TypeOK, Others
<1>6. ASSUME Continue(p) PROVE RequestsOK' /\ Others(p)
  <2>1. CASE End(p)
    BY <2>1, EndFacts DEF TypeOK, Others
  <2>2. ASSUME Goto(p, "planRemove"), req[p].pc = "planCount" PROVE RequestsOK' /\ Others(p)
    BY <2>2, GotoFacts DEF TypeOK, Others
  <2>3. ASSUME Goto(p, "drop"), req[p].pc \in SubSteps PROVE RequestsOK' /\ Others(p)
    BY <2>3, GotoFacts DEF TypeOK, Others
  <2>4. CASE ActiveCheck(p)
    <3>1. req[p].pc = "activeCheck"
      BY <2>4 DEF ActiveCheck
    <3> QED BY <2>4, <3>1, ActiveCheckFacts DEF TypeOK, Others
  <2>5. ASSUME NEW s \in Sub, req[p].pc = "find",
               req' = [req EXCEPT ![p].pc = "fill", ![p].sub = s]
        PROVE  RequestsOK' /\ Others(p)
    <3>1. /\ req' \in [Proc -> Request] /\ Others(p)
          /\ req'[p].pc = "fill" /\ req'[p].sub = s /\ req'[p].key = req[p].key
      BY <2>5, ReadFacts
    <3>2. req[p].pc = "find"
      BY <2>5
    <3> QED BY <3>1, <3>2 DEF TypeOK, Others
  <2>6. CASE PlanSave(p) \/ PlanCount(p) \/ PlanRemove(p)
    BY <2>1, <2>2, <2>6 DEF PlanSave, PlanCount, PlanRemove
  <2>7. CASE ActiveCheckRefuses(p) \/ Drop(p) \/ DropFails(p) \/ AccessFill(p)
    BY <2>1, <2>7 DEF ActiveCheckRefuses, Drop, DropFails, AccessFill
  <2>8. CASE CreateInsert(p) \/ ActivateSave(p) \/ CancelSave(p)
    BY <2>1, <2>3, <2>8 DEF CreateInsert, ActivateSave, CancelSave
  <2>9. CASE AccessFind(p)
    <3>1. CASE End(p)
      BY <2>1, <3>1
    <3>2. CASE \E s \in ActiveRows(req[p].key) : req' = [req EXCEPT ![p].pc = "fill", ![p].sub = s]
      BY <2>5, <2>9, <3>2 DEF AccessFind, ActiveRows
    <3> QED BY <2>9, <3>1, <3>2 DEF AccessFind
  <2> QED BY <1>6, <2>4, <2>6, <2>7, <2>8, <2>9 DEF Continue
<1> QED BY <1>1, <1>2, <1>3, <1>4, <1>5, <1>6 DEF Serve

\* The steps of a request that change no row, no cached answer and no plan.
Quiet(p) ==
    \/ \E pl \in Plan : PlanFind(p, pl)
    \/ \E s \in Sub : \/ \E x \in Payment \cup {Null} : CreateBegin(p, s, x)
                     \/ \E x \in Payment : ActivateFind(p, s, x)
                     \/ CancelFind(p, s)
    \/ \E k \in Key : AccessMiss(p, k)
    \/ PlanCount(p) \/ ActiveCheck(p) \/ ActiveCheckRefuses(p) \/ AccessFind(p)

LEMMA QuietFacts ==
    ASSUME TypeOK, NEW p \in Proc, Quiet(p)
    PROVE  /\ UNCHANGED <<plans, sub, cache, now, missed>>
           /\ unchecked \subseteq unchecked' /\ unchecked' \subseteq Sub
<1>1. CASE ActiveCheck(p)
  <2>1. req[p].sub \in Sub
    BY <1>1 DEF TypeOK, ActiveCheck, SubSteps, Creating
  <2> QED BY <1>1, <2>1 DEF ActiveCheck, TypeOK
<1>2. CASE \E s \in Sub : \/ \E x \in Payment \cup {Null} : CreateBegin(p, s, x)
                         \/ \E x \in Payment : ActivateFind(p, s, x)
                         \/ CancelFind(p, s)
  BY <1>2 DEF CreateBegin, ActivateFind, CancelFind, TypeOK
<1>3. CASE \/ \E pl \in Plan : PlanFind(p, pl)
           \/ \E k \in Key : AccessMiss(p, k)
           \/ PlanCount(p) \/ ActiveCheckRefuses(p) \/ AccessFind(p)
  BY <1>3 DEF PlanFind, AccessMiss, PlanCount, ActiveCheckRefuses, AccessFind, TypeOK
<1> QED BY <1>1, <1>2, <1>3 DEF Quiet

LEMMA TypeRequest ==
    ASSUME TypeOK, Drafts, NEW p \in Proc, Serve(p)
    PROVE  TypeOK'
<1>1. RequestsOK'
  BY RequestsStep DEF Serve, Quiet
<1>2. TablesOK'
  <2>1. CASE Quiet(p)
    BY <2>1, QuietFacts DEF TypeOK, TablesOK
  <2>2. CASE PlanSave(p)
    BY <2>2 DEF TypeOK, TablesOK, PlanSave, PlanSteps
  <2>3. CASE PlanRemove(p)
    BY <2>3, PlanOfAssumption DEF TypeOK, TablesOK, PlanRemove, PlanSteps
  <2>4. CASE CreateInsert(p)
    <3>1. req[p].sub \in Sub
      BY <2>4 DEF TypeOK, CreateInsert, SubSteps, Creating
    <3>2. CASE PlanOf[req[p].sub] \in plans
      <4>1. /\ sub' = [sub EXCEPT ![req[p].sub] = req[p].entity]
            /\ unchecked' = IF Rivals(p) = {} THEN unchecked
                            ELSE unchecked \cup {req[p].sub} \cup {req[q].sub : q \in Rivals(p)}
            /\ UNCHANGED <<plans, cache, now, missed>>
        BY <2>4, <3>2 DEF CreateInsert
      <4>2. unchecked' \subseteq Sub
        BY <3>1, <4>1 DEF TypeOK, Rivals, SubSteps
      <4>3. \A s \in Sub : sub'[s].status # "none" => PlanOf[s] \in plans
        BY <3>1, <3>2, <4>1, SaveFacts DEF TypeOK
      <4>4. sub' \in [Sub -> Row]
        BY <3>1, <4>1, SaveFacts
      <4> QED BY <4>1, <4>2, <4>3, <4>4 DEF TypeOK, TablesOK
    <3>3. CASE PlanOf[req[p].sub] \notin plans
      BY <2>4, <3>3 DEF TypeOK, TablesOK, CreateInsert
    <3> QED BY <3>2, <3>3
  <2>5. CASE ActivateSave(p) \/ CancelSave(p)
    <3>1. req[p].sub \in Sub /\ sub[req[p].sub].status # "none"
      BY <2>5 DEF TypeOK, Drafts, ActivateSave, CancelSave, SubSteps
    <3>2. /\ sub' = [sub EXCEPT ![req[p].sub] = req[p].entity]
          /\ unchecked' \subseteq Sub
          /\ UNCHANGED <<plans, cache, now, missed>>
      BY <2>5, <3>1 DEF TypeOK, ActivateSave, CancelSave
    <3>3. \A s \in Sub : sub'[s].status # "none" => PlanOf[s] \in plans
      BY <3>1, <3>2, SaveFacts DEF TypeOK
    <3>4. sub' \in [Sub -> Row]
      BY <3>1, <3>2, SaveFacts
    <3> QED BY <3>2, <3>3, <3>4 DEF TypeOK, TablesOK
  <2>6. CASE Drop(p) \/ DropFails(p)
    BY <2>6 DEF TypeOK, TablesOK, Drop, DropFails, Miss, Entry, SubSteps
  <2>7. CASE AccessFill(p)
    <3>1. req[p].sub \in Sub /\ now + CacheTtl \in Nat
      BY <2>7, TtlAssumption DEF TypeOK, AccessFill, SubSteps
    <3>2. [sub |-> req[p].sub, until |-> now + CacheTtl] \in Entry
      BY <3>1 DEF Entry
    <3> QED BY <2>7, <3>1, <3>2 DEF TypeOK, TablesOK, AccessFill
  <2> QED BY <2>1, <2>2, <2>3, <2>4, <2>5, <2>6, <2>7 DEF Serve, Quiet, Continue
<1> QED BY <1>1, <1>2, TypeParts

LEMMA TypeJobs ==
    ASSUME TypeOK, (\E pl \in Plan : CreatePlan(pl)) \/ ProcessExpired \/ Tick
    PROVE  TypeOK'
<1>1. CASE \E pl \in Plan : CreatePlan(pl)
  BY <1>1 DEF TypeOK, CreatePlan
<1>2. CASE ProcessExpired
  <2>1. TablesOK'
    BY <1>2, ExpireFacts DEF TypeOK, TablesOK, ProcessExpired
  <2>2. RequestsOK'
    BY <1>2 DEF TypeOK, RequestsOK, ProcessExpired
  <2> QED BY <2>1, <2>2, TypeParts
<1>3. CASE Tick
  BY <1>3 DEF TypeOK, Tick, Entry, Miss
<1> QED BY <1>1, <1>2, <1>3

(***************************************************************************)
(* What a step of a request does to the rows                               *)
(***************************************************************************)
\* Requests about to write a row, or that have written one.
Writing == Creating \cup {"activateSave", "cancelSave", "drop"}

\* A step that writes no row and after which the request is not about to.
Harmless(p) ==
    /\ req' \in [Proc -> Request]
    /\ Others(p)
    /\ req'[p].pc \notin Writing
    /\ UNCHANGED <<sub, unchecked>>

\* The insert, when the plan is there.
Inserted(p) == CreateInsert(p) /\ PlanOf[req[p].sub] \in plans

LEMMA HarmlessFacts ==
    ASSUME TypeOK, NEW p \in Proc,
           \/ \E pl \in Plan : PlanFind(p, pl)
           \/ \E k \in Key : AccessMiss(p, k)
           \/ PlanSave(p) \/ PlanCount(p) \/ PlanRemove(p)
           \/ (CreateInsert(p) /\ ~Inserted(p))
           \/ ActiveCheckRefuses(p) \/ Drop(p) \/ DropFails(p) \/ AccessFind(p) \/ AccessFill(p)
    PROVE  Harmless(p)
<1> USE DEF Harmless, Writing, Creating
<1>1. CASE End(p) /\ UNCHANGED <<sub, unchecked>>
  BY <1>1, EndFacts
<1>2. CASE \E pl \in Plan : PlanFind(p, pl)
  BY <1>2, PlanFindFacts DEF PlanFind
<1>3. CASE \E k \in Key : AccessMiss(p, k)
  BY <1>3, AccessMissFacts DEF AccessMiss
<1>4. CASE PlanSave(p) \/ PlanRemove(p)
  BY <1>1, <1>4 DEF PlanSave, PlanRemove
<1>5. CASE PlanCount(p)
  <2>1. CASE Goto(p, "planRemove")
    BY <1>5, <2>1, GotoFacts DEF PlanCount, PlanSteps
  <2> QED BY <1>1, <1>5, <2>1 DEF PlanCount
<1>6. CASE CreateInsert(p) /\ ~Inserted(p)
  BY <1>1, <1>6 DEF CreateInsert, Inserted
<1>7. CASE ActiveCheckRefuses(p) \/ Drop(p) \/ DropFails(p) \/ AccessFill(p)
  BY <1>1, <1>7 DEF ActiveCheckRefuses, Drop, DropFails, AccessFill
<1>8. CASE AccessFind(p)
  <2>1. CASE End(p)
    BY <1>1, <1>8, <2>1 DEF AccessFind
  <2>2. ASSUME NEW s \in Sub, req' = [req EXCEPT ![p].pc = "fill", ![p].sub = s] PROVE Harmless(p)
    BY <1>8, <2>2, ReadFacts DEF AccessFind
  <2> QED BY <1>8, <2>1, <2>2 DEF AccessFind, ActiveRows
<1> QED BY <1>2, <1>3, <1>4, <1>5, <1>6, <1>7, <1>8

\* The cases of the proofs below.
LEMMA ServeCases ==
    ASSUME TypeOK, NEW p \in Proc, Serve(p)
    PROVE  \/ Harmless(p)
           \/ \E s \in Sub : \/ \E x \in Payment \cup {Null} : CreateBegin(p, s, x)
                            \/ \E x \in Payment : ActivateFind(p, s, x)
                            \/ CancelFind(p, s)
           \/ ActiveCheck(p) \/ Inserted(p) \/ ActivateSave(p) \/ CancelSave(p)
<1>1. CASE Continue(p)
  BY <1>1, HarmlessFacts DEF Continue
<1> QED BY <1>1, HarmlessFacts DEF Serve

\* A save leaves the request about to delete the cached answer of the row it wrote.
LEMMA SavedFacts ==
    ASSUME TypeOK, NEW p \in Proc, Inserted(p) \/ ActivateSave(p) \/ CancelSave(p)
    PROVE  /\ req' \in [Proc -> Request]
           /\ Others(p)
           /\ req[p].sub \in Sub
           /\ req'[p].pc = "drop" /\ req'[p].sub = req[p].sub
           /\ sub'[req[p].sub] = req[p].entity
           /\ \A r \in Sub \ {req[p].sub} : sub'[r] = sub[r]
           /\ UNCHANGED <<plans, cache, now, missed>>
<1>1. /\ sub' = [sub EXCEPT ![req[p].sub] = req[p].entity]
      /\ Goto(p, "drop")
      /\ UNCHANGED <<plans, cache, now, missed>>
      /\ req[p].pc \in SubSteps
  BY DEF Inserted, CreateInsert, ActivateSave, CancelSave, SubSteps, Creating
<1>2. req[p].sub \in Sub
  BY <1>1 DEF TypeOK
<1> QED BY <1>1, <1>2, SaveFacts, GotoFacts DEF SubSteps

(***************************************************************************)
(* Drafts                                                                  *)
(***************************************************************************)
\* An id is drawn once: the row of a subscription being created is not there yet.
Fresh ==
    \A p \in Proc : req[p].pc \in Creating =>
        /\ sub[req[p].sub].status = "none"
        /\ \A q \in Proc \ {p} : req[q].pc \in Creating => req[q].sub # req[p].sub

LEMMA DraftsServe ==
    ASSUME TypeOK, Drafts, Fresh, NEW p \in Proc, Serve(p)
    PROVE  Drafts' /\ Fresh'
<1> USE DEF Drafts, Fresh, Creating
<1>1. CASE Harmless(p)
  BY <1>1 DEF Harmless, Others, Writing
<1>2. ASSUME NEW s \in Sub, NEW x \in Payment \cup {Null}, CreateBegin(p, s, x)
      PROVE  Drafts' /\ Fresh'
  <2>1. sub' = sub /\ sub[s].status = "none" /\ \A q \in Proc : req[q].sub # s
    BY <1>2 DEF CreateBegin
  <2> QED BY <1>2, <2>1, CreateBeginFacts DEF Others
<1>3. ASSUME NEW s \in Sub, NEW x \in Payment, ActivateFind(p, s, x) PROVE Drafts' /\ Fresh'
  <2>1. sub' = sub /\ sub[s].status = "pending"
    BY <1>3 DEF ActivateFind
  <2> QED BY <1>3, <2>1, ActivateFindFacts DEF Others
<1>4. ASSUME NEW s \in Sub, CancelFind(p, s) PROVE Drafts' /\ Fresh'
  <2>1. sub' = sub /\ sub[s].status = "active"
    BY <1>4 DEF CancelFind
  <2> QED BY <1>4, <2>1, CancelFindFacts DEF Others
<1>5. CASE ActiveCheck(p)
  <2>1. sub' = sub /\ req[p].pc = "activeCheck"
    BY <1>5 DEF ActiveCheck
  <2> QED BY <1>5, <2>1, ActiveCheckFacts DEF Others
<1>6. CASE Inserted(p) \/ ActivateSave(p) \/ CancelSave(p)
  <2>1. req[p].pc \in {"insert", "activateSave", "cancelSave"}
    BY <1>6 DEF Inserted, CreateInsert, ActivateSave, CancelSave
  <2>2. req[p].entity.status # "none" /\ req[p].sub \in Sub
    BY <1>6, <2>1, SavedFacts
  <2>3. \A q \in Proc \ {p} : req[q].pc \in Creating => req[q].sub # req[p].sub
    BY <2>1
  <2>4. \A q \in Proc : req[q].pc \in Writing => req[q].sub \in Sub
    BY DEF TypeOK, Writing, SubSteps
  <2> QED BY <1>6, <2>1, <2>2, <2>3, <2>4, SavedFacts DEF Others, Writing
<1> QED BY <1>1, <1>2, <1>3, <1>4, <1>5, <1>6, ServeCases

LEMMA DraftsJobs ==
    ASSUME TypeOK, Drafts, Fresh, (\E pl \in Plan : CreatePlan(pl)) \/ ProcessExpired \/ Tick
    PROVE  Drafts' /\ Fresh'
<1>1. CASE ProcessExpired
  <2>1. req' = req /\ \A p \in Proc : req[p].pc \in Writing => req[p].sub \in Sub
    BY <1>1 DEF TypeOK, ProcessExpired, Writing, SubSteps
  <2> QED BY <1>1, <2>1, ExpireFacts DEF Drafts, Fresh, Writing, Creating
<1>2. CASE (\E pl \in Plan : CreatePlan(pl)) \/ Tick
  BY <1>2 DEF CreatePlan, Tick, Drafts, Fresh
<1> QED BY <1>1, <1>2

LEMMA DraftsInit == Init => Drafts /\ Fresh
BY DEF Init, Idle, Drafts, Fresh, Creating

Basis == TypeOK /\ Drafts /\ Fresh

LEMMA BasisInvariant == Spec => []Basis
<1>1. Init => Basis
  BY TypeInit, DraftsInit DEF Basis
<1>2. Basis /\ [Next]_vars => Basis'
  <2> SUFFICES ASSUME Basis, [Next]_vars PROVE Basis'
    OBVIOUS
  <2>1. ASSUME NEW p \in Proc, Serve(p) PROVE Basis'
    BY <2>1, TypeRequest, DraftsServe DEF Basis
  <2>2. CASE (\E pl \in Plan : CreatePlan(pl)) \/ ProcessExpired \/ Tick
    BY <2>2, TypeJobs, DraftsJobs DEF Basis
  <2>3. CASE UNCHANGED vars
    BY <2>3 DEF vars, Basis, TypeOK, Drafts, Fresh
  <2> QED BY <2>1, <2>2, <2>3 DEF Next
<1> QED BY <1>1, <1>2, PTL DEF Spec

\* TypeOK: the tables, the cache and the requests keep their types, and no statement
\* leaves a subscription without its plan, whoever deletes plans meanwhile.
THEOREM Types == Spec => []TypeOK
BY BasisInvariant, PTL DEF Basis

(***************************************************************************)
(* Cancelled subscriptions and the cache                                   *)
(***************************************************************************)
\* An answer is about a subscription of its key, in Redis and in a reader's memory.
Keyed ==
    /\ \A k \in Key : \A s \in Sub : cache[k].sub = s => KeyOf(s) = k
    /\ \A p \in Proc : req[p].pc = "fill" => KeyOf(req[p].sub) = req[p].key

LEMMA KeyedServe ==
    ASSUME TypeOK, Keyed, NEW p \in Proc, Serve(p)
    PROVE  Keyed'
<1>1. \A q \in Proc : req'[q].pc = "fill" => KeyOf(req'[q].sub) = req'[q].key
  <2>1. Others(p)
    BY RequestsStep
  <2>2. req'[p].pc = "fill" => KeyOf(req'[p].sub) = req'[p].key
    <3>1. CASE \/ \E pl \in Plan : PlanFind(p, pl)
               \/ \E k \in Key : AccessMiss(p, k)
               \/ \E s \in Sub : \/ \E x \in Payment \cup {Null} : CreateBegin(p, s, x)
                                \/ \E x \in Payment : ActivateFind(p, s, x)
                                \/ CancelFind(p, s)
      BY <3>1, PlanFindFacts, AccessMissFacts, CreateBeginFacts, ActivateFindFacts, CancelFindFacts
    <3>2. CASE ActiveCheck(p) \/ Inserted(p) \/ ActivateSave(p) \/ CancelSave(p)
      BY <3>2, ActiveCheckFacts, SavedFacts
    <3>3. CASE End(p)
      BY <3>3, EndFacts
    <3>4. CASE PlanCount(p)
      <4>1. CASE Goto(p, "planRemove")
        BY <4>1, GotoFacts DEF PlanSteps
      <4> QED BY <3>3, <3>4, <4>1 DEF PlanCount
    <3>5. CASE AccessFind(p)
      <4>1. ASSUME NEW s \in ActiveRows(req[p].key),
                   req' = [req EXCEPT ![p].pc = "fill", ![p].sub = s]
            PROVE  KeyOf(req'[p].sub) = req'[p].key
        <5>1. s \in Sub /\ KeyOf(s) = req[p].key
          BY DEF ActiveRows
        <5>2. req'[p].sub = s /\ req'[p].key = req[p].key
          BY <4>1, <5>1, ReadFacts
        <5> QED BY <5>1, <5>2
      <4> QED BY <3>3, <3>5, <4>1 DEF AccessFind
    <3>6. CASE \/ PlanSave(p) \/ PlanRemove(p) \/ (CreateInsert(p) /\ ~Inserted(p))
               \/ ActiveCheckRefuses(p) \/ Drop(p) \/ DropFails(p) \/ AccessFill(p)
      BY <3>3, <3>6 DEF PlanSave, PlanRemove, CreateInsert, Inserted, ActiveCheckRefuses, Drop,
                        DropFails, AccessFill
    <3> QED BY <3>1, <3>2, <3>4, <3>5, <3>6 DEF Serve, Continue
  <2> QED BY <2>1, <2>2 DEF Others, Keyed
<1>2. \A k \in Key : \A s \in Sub : cache'[k].sub = s => KeyOf(s) = k
  <2>1. CASE Drop(p)
    BY <2>1, NullAssumption DEF Drop, Miss, Keyed, TypeOK
  <2>2. CASE AccessFill(p)
    BY <2>2 DEF AccessFill, Keyed, TypeOK
  <2>3. CASE cache' = cache
    BY <2>3 DEF Keyed
  <2>4. CASE PlanSave(p) \/ PlanRemove(p) \/ CreateInsert(p) \/ ActivateSave(p) \/ CancelSave(p)
             \/ DropFails(p)
    BY <2>3, <2>4 DEF PlanSave, PlanRemove, CreateInsert, ActivateSave, CancelSave, DropFails
  <2>5. CASE Quiet(p)
    BY <2>3, <2>5, QuietFacts
  <2> QED BY <2>1, <2>2, <2>4, <2>5 DEF Serve, Quiet, Continue
<1> QED BY <1>1, <1>2 DEF Keyed, KeyOf

LEMMA ServedServe ==
    ASSUME Basis, Keyed, CancelledNotServed, NEW p \in Proc, Serve(p)
    PROVE  CancelledNotServed'
<1> USE DEF Basis
<1> SUFFICES ASSUME NEW k \in Key, NEW s \in Sub, cache'[k].sub = s, sub'[s].status = "cancelled"
             PROVE  s \in missed' \/ \E q \in Proc : req'[q].pc = "drop" /\ req'[q].sub = s
  BY DEF CancelledNotServed
<1>1. Others(p)
  BY RequestsStep
\* Unless p ends the deletion of s, whoever was about to delete it still is.
<1>2. ASSUME ~(req[p].pc = "drop" /\ req[p].sub = s), missed \subseteq missed',
             cache[k].sub = s, sub[s].status = "cancelled"
      PROVE  s \in missed' \/ \E q \in Proc : req'[q].pc = "drop" /\ req'[q].sub = s
  BY <1>1, <1>2 DEF CancelledNotServed, Others
<1>3. CASE Quiet(p)
  <2>1. req[p].pc # "drop"
    BY <1>3, BeginFacts, CreateBeginFacts, ActivateFindFacts, CancelFindFacts, PlanFindFacts,
       AccessMissFacts
       DEF Quiet, PlanCount, ActiveCheck, ActiveCheckRefuses, AccessFind
  <2> QED BY <1>2, <1>3, <2>1, QuietFacts
<1>4. CASE PlanSave(p) \/ PlanRemove(p) \/ (CreateInsert(p) /\ ~Inserted(p))
  BY <1>2, <1>4 DEF PlanSave, PlanRemove, CreateInsert, Inserted
<1>5. CASE Inserted(p) \/ ActivateSave(p)
  <2>1. req[p].pc \in {"insert", "activateSave"}
    BY <1>5 DEF Inserted, CreateInsert, ActivateSave
  <2>2. sub'[req[p].sub].status # "cancelled"
    BY <1>5, <2>1, SavedFacts DEF Drafts, Creating
  <2>3. s # req[p].sub /\ sub[s].status = "cancelled" /\ cache[k].sub = s /\ missed' = missed
    BY <1>5, <2>2, SavedFacts
  <2> QED BY <1>2, <2>1, <2>3
<1>6. CASE CancelSave(p)
  <2>1. CASE s = req[p].sub
    BY <1>6, <2>1, SavedFacts
  <2>2. CASE s # req[p].sub
    BY <1>2, <1>6, <2>2, SavedFacts
  <2> QED BY <2>1, <2>2
<1>7. CASE Drop(p)
  <2>1. sub' = sub /\ missed' = missed /\ cache' = [cache EXCEPT ![KeyOf(req[p].sub)] = Miss]
    BY <1>7 DEF Drop
  <2>2. k # KeyOf(req[p].sub) /\ cache[k].sub = s
    BY <2>1, NullAssumption DEF TypeOK, Miss
  <2>3. req[p].sub # s
    BY <2>2 DEF Keyed
  <2> QED BY <1>2, <2>1, <2>2, <2>3
<1>8. CASE DropFails(p)
  BY <1>2, <1>8 DEF DropFails
<1>9. CASE AccessFill(p)
  <2>1. sub' = sub /\ req[p].pc = "fill" /\ missed \subseteq missed'
    BY <1>9 DEF AccessFill
  <2>2. CASE k = req[p].key
    <3>1. s = req[p].sub
      BY <1>9, <2>2 DEF AccessFill, TypeOK
    <3> QED BY <1>9, <3>1 DEF AccessFill
  <2>3. CASE k # req[p].key
    <3>1. cache[k].sub = s
      BY <1>9, <2>3 DEF AccessFill, TypeOK
    <3> QED BY <1>2, <2>1, <3>1
  <2> QED BY <2>2, <2>3
<1> QED BY <1>3, <1>4, <1>5, <1>6, <1>7, <1>8, <1>9 DEF Serve, Quiet, Continue

\* CancelledNotServed: a cancelled subscription that the cache still answers with is one
\* whose deletion is under way, failed, or came before a late reader's answer.
THEOREM CancelledLeaveCache == Spec => []CancelledNotServed
<1> DEFINE Inv == Keyed /\ CancelledNotServed
<1>1. Init => Inv
  BY NullAssumption DEF Init, Inv, Keyed, CancelledNotServed, Miss, Idle
<1>2. Basis /\ Inv /\ [Next]_vars => Inv'
  <2> SUFFICES ASSUME Basis, Inv, [Next]_vars PROVE Inv'
    OBVIOUS
  <2>1. ASSUME NEW p \in Proc, Serve(p) PROVE Inv'
    BY <2>1, KeyedServe, ServedServe DEF Basis
  <2>2. CASE \E pl \in Plan : CreatePlan(pl)
    BY <2>2 DEF CreatePlan, Keyed, CancelledNotServed, KeyOf
  <2>3. CASE ProcessExpired
    <3>1. UNCHANGED <<plans, cache, req, now, unchecked, missed>>
      BY <2>3 DEF ProcessExpired
    <3>2. \A s \in Sub : sub'[s].status = "cancelled" => sub[s].status = "cancelled"
      BY <2>3, ExpireFacts DEF Basis
    <3> QED BY <3>1, <3>2 DEF Keyed, CancelledNotServed, KeyOf
  <2>4. CASE Tick
    <3>1. UNCHANGED <<plans, sub, req, unchecked, missed>>
      BY <2>4 DEF Tick
    <3>2. \A k \in Key : \A s \in Sub : cache'[k].sub = s => cache[k].sub = s
      BY <2>4, NullAssumption DEF Tick, Miss
    <3> QED BY <3>1, <3>2 DEF Keyed, CancelledNotServed, KeyOf
  <2>5. CASE UNCHANGED vars
    BY <2>5 DEF vars, Keyed, CancelledNotServed, KeyOf
  <2> QED BY <2>1, <2>2, <2>3, <2>4, <2>5 DEF Next
<1> QED BY <1>1, <1>2, BasisInvariant, PTL DEF Spec

(***************************************************************************)
(* One active subscription, one subscription of a payment                  *)
(***************************************************************************)
\* In force: what InDate(k) says of one row.
InForce(r) == sub[r].status = "active" /\ ~IsExpired(r)

OneInForce ==
    \A s, r \in Sub : s # r /\ KeyOf(s) = KeyOf(r) /\ InForce(s) /\ InForce(r) =>
        unchecked \cap {s, r} # {}

\* A request past its check meets no other subscription in force, but flagged ones.
Admission ==
    \A p \in Proc : \A r \in Sub \ {req[p].sub} :
        req[p].pc = "insert" /\ KeyOf(r) = KeyOf(req[p].sub) /\ InForce(r) =>
            unchecked \cap {req[p].sub, r} # {}

LEMMA OneInForceSuffices == OneInForce => OneActiveUnlessUnchecked
BY DEF OneInForce, OneActiveUnlessUnchecked, InForce, InDate, ActiveRows

\* The history only grows.
LEMMA Grows ==
    ASSUME TypeOK, NEW p \in Proc, Serve(p)
    PROVE  unchecked \subseteq unchecked' /\ now' = now
<1>1. CASE Quiet(p)
  BY <1>1, QuietFacts
<1>2. CASE CreateInsert(p)
  BY <1>2 DEF CreateInsert
<1>3. CASE PlanSave(p) \/ PlanRemove(p) \/ ActivateSave(p) \/ CancelSave(p) \/ Drop(p)
           \/ DropFails(p) \/ AccessFill(p)
  BY <1>3 DEF PlanSave, PlanRemove, ActivateSave, CancelSave, Drop, DropFails, AccessFill
<1> QED BY <1>1, <1>2, <1>3 DEF Serve, Quiet, Continue

\* The insert flags its row and those of its rivals.
LEMMA InsertFlags ==
    ASSUME TypeOK, NEW p \in Proc, Inserted(p), NEW q \in Proc \ {p},
           req[q].pc \in Creating, KeyOf(req[q].sub) = KeyOf(req[p].sub)
    PROVE  req[p].sub \in unchecked' /\ req[q].sub \in unchecked'
<1>1. q \in Rivals(p)
  BY DEF Rivals
<1> QED BY <1>1 DEF Inserted, CreateInsert

\* A step that writes no row, and after which p is past no check or past its own.
LEMMA AdmissionKept ==
    ASSUME Admission, OneInForce, NEW p \in Proc, Others(p), UNCHANGED <<sub, now>>,
           unchecked \subseteq unchecked',
           \/ req'[p].pc # "insert"
           \/ \A r \in Sub \ {req'[p].sub} : KeyOf(r) = KeyOf(req'[p].sub) /\ InForce(r) =>
                  unchecked' \cap {req'[p].sub, r} # {}
    PROVE  Admission' /\ OneInForce'
BY DEF Admission, OneInForce, InForce, IsExpired, KeyOf, Others

LEMMA ActiveServe ==
    ASSUME Basis, Admission, OneInForce, NEW p \in Proc, Serve(p)
    PROVE  Admission' /\ OneInForce'
<1> USE DEF Basis
<1>1. unchecked \subseteq unchecked' /\ now' = now /\ Others(p)
  BY Grows, RequestsStep
<1>2. CASE Harmless(p)
  BY <1>1, <1>2, AdmissionKept DEF Harmless, Writing, Creating
<1>3. CASE \E s \in Sub : \/ \E x \in Payment \cup {Null} : CreateBegin(p, s, x)
                         \/ \E x \in Payment : ActivateFind(p, s, x)
                         \/ CancelFind(p, s)
  <2>1. req'[p].pc # "insert"
    BY <1>3, CreateBeginFacts, ActivateFindFacts, CancelFindFacts
  <2>2. sub' = sub
    BY <1>3 DEF CreateBegin, ActivateFind, CancelFind
  <2> QED BY <1>1, <2>1, <2>2, AdmissionKept
<1>4. CASE ActiveCheck(p)
  <2>1. req'[p].sub = req[p].sub /\ sub' = sub
    BY <1>4, ActiveCheckFacts DEF ActiveCheck
  <2>2. ActiveRows(KeyOf(req[p].sub)) = {} \/ req[p].sub \in unchecked'
    BY <1>4 DEF ActiveCheck
  <2>3. \A r \in Sub : KeyOf(r) = KeyOf(req[p].sub) /\ InForce(r) => req[p].sub \in unchecked'
    BY <2>2 DEF ActiveRows, InForce
  <2> QED BY <1>1, <2>1, <2>3, AdmissionKept
<1>5. CASE Inserted(p) \/ ActivateSave(p) \/ CancelSave(p)
  <2> PICK s \in Sub : s = req[p].sub
    BY <1>5, SavedFacts
  <2>1. req'[p].pc = "drop" /\ \A r \in Sub \ {s} : sub'[r] = sub[r]
    BY <1>5, SavedFacts
  <2>2. \A r \in Sub \ {s} : InForce(r)' <=> InForce(r)
    BY <1>1, <2>1 DEF InForce, IsExpired
  <2>3. (Inserted(p) /\ req[p].pc = "insert") \/ s \in unchecked' \/ ~InForce(s)'
    <3>1. CASE Inserted(p)
      BY <3>1 DEF Inserted, CreateInsert
    <3>2. CASE ActivateSave(p)
      BY <3>2 DEF ActivateSave
    <3>3. CASE CancelSave(p)
      <4>1. sub'[s].status = "cancelled"
        BY <3>3, SavedFacts DEF Drafts, CancelSave
      <4> QED BY <4>1 DEF InForce
    <3> QED BY <1>5, <3>1, <3>2, <3>3
  \* The saved row and another in force.
  <2>4. \A r \in Sub \ {s} : KeyOf(r) = KeyOf(s) /\ InForce(s)' /\ InForce(r)' =>
            unchecked' \cap {s, r} # {}
    BY <1>1, <2>1, <2>2, <2>3 DEF Admission
  <2>5. OneInForce'
    <3>1. ASSUME NEW a \in Sub, NEW b \in Sub, a # b, KeyOf(a) = KeyOf(b), InForce(a)', InForce(b)'
          PROVE  unchecked' \cap {a, b} # {}
      <4>1. CASE a # s /\ b # s
        BY <1>1, <2>2, <3>1, <4>1 DEF OneInForce
      <4>2. CASE a = s \/ b = s
        BY <2>4, <3>1, <4>2
      <4> QED BY <4>1, <4>2
    <3> QED BY <3>1 DEF OneInForce, KeyOf
  <2>6. Admission'
    <3>1. ASSUME NEW q \in Proc, NEW r \in Sub \ {req'[q].sub}, req'[q].pc = "insert",
                 KeyOf(r) = KeyOf(req'[q].sub), InForce(r)'
          PROVE  unchecked' \cap {req'[q].sub, r} # {}
      <4>1. q # p /\ req'[q] = req[q]
        BY <1>1, <2>1, <3>1 DEF Others
      <4>2. CASE r # s
        BY <1>1, <2>2, <3>1, <4>1, <4>2 DEF Admission
      <4>3. CASE r = s
        <5>1. CASE Inserted(p)
          BY <3>1, <4>1, <4>3, <5>1, InsertFlags DEF Creating
        <5> QED BY <2>3, <3>1, <4>3, <5>1
      <4> QED BY <4>2, <4>3
    <3> QED BY <3>1 DEF Admission, KeyOf
  <2> QED BY <2>5, <2>6
<1> QED BY <1>2, <1>3, <1>4, <1>5, ServeCases

\* OneActiveUnlessUnchecked: of two subscriptions of a user and a grade in force, one was
\* activated, created beside another, or admitted past an overdue row.
THEOREM OneActive == Spec => []OneActiveUnlessUnchecked
<1> DEFINE Inv == Admission /\ OneInForce
<1>1. Init => Inv
  BY DEF Init, Inv, Admission, OneInForce, InForce, Idle, NoRow
<1>2. Basis /\ Inv /\ [Next]_vars => Inv'
  <2> SUFFICES ASSUME Basis, Inv, [Next]_vars PROVE Inv'
    OBVIOUS
  <2>1. ASSUME NEW p \in Proc, Serve(p) PROVE Inv'
    BY <2>1, ActiveServe
  <2>2. CASE (\E pl \in Plan : CreatePlan(pl)) \/ ProcessExpired \/ Tick \/ UNCHANGED vars
    <3>1. UNCHANGED <<req, unchecked>>
      BY <2>2 DEF CreatePlan, ProcessExpired, Tick, vars
    <3>2. \A r \in Sub : InForce(r)' => InForce(r)
      <4>1. CASE (\E pl \in Plan : CreatePlan(pl)) \/ UNCHANGED vars
        BY <4>1 DEF CreatePlan, vars, InForce, IsExpired
      <4>2. CASE ProcessExpired
        BY <4>2, ExpireFacts DEF ProcessExpired, InForce, IsExpired, Basis
      <4>3. CASE Tick
        BY <4>3 DEF Tick, InForce, IsExpired, Basis, TypeOK, Row
      <4> QED BY <2>2, <4>1, <4>2, <4>3
    <3> QED BY <3>1, <3>2 DEF Admission, OneInForce, KeyOf
  <2> QED BY <2>1, <2>2 DEF Next
<1>3. Inv => OneActiveUnlessUnchecked
  BY OneInForceSuffices
<1> QED BY <1>1, <1>2, <1>3, BasisInvariant, PTL DEF Spec

\* From its check of the payment on, a request meets no other subscription of it, but
\* flagged ones.
Unpaid(p) ==
    \A r \in Sub \ {req[p].sub} :
        /\ req[p].pc \in Creating /\ req[p].entity.payment # Null
        /\ KeyOf(r) = KeyOf(req[p].sub) /\ sub[r].payment = req[p].entity.payment
        => unchecked \cap {req[p].sub, r} # {}

\* A cancellation saves the payment it has read.
SamePayment(p) ==
    req[p].pc = "cancelSave" =>
        req[p].entity.payment = sub[req[p].sub].payment \/ req[p].sub \in unchecked

Paid == \A p \in Proc : Unpaid(p) /\ SamePayment(p)

LEMMA PaidKept ==
    ASSUME Paid, OnePerPaymentUnlessUnchecked, NEW p \in Proc, Others(p), UNCHANGED sub,
           unchecked \subseteq unchecked', Unpaid(p)', SamePayment(p)'
    PROVE  Paid' /\ OnePerPaymentUnlessUnchecked'
<1>1. OnePerPaymentUnlessUnchecked'
  BY DEF OnePerPaymentUnlessUnchecked, KeyOf
<1>2. ASSUME NEW q \in Proc \ {p} PROVE Unpaid(q)' /\ SamePayment(q)'
  BY DEF Paid, Unpaid, SamePayment, KeyOf, Others
<1> QED BY <1>1, <1>2 DEF Paid

LEMMA PaidServe ==
    ASSUME Basis, Paid, OnePerPaymentUnlessUnchecked, NEW p \in Proc, Serve(p)
    PROVE  Paid' /\ OnePerPaymentUnlessUnchecked'
<1> USE DEF Basis
<1>1. unchecked \subseteq unchecked' /\ Others(p)
  BY Grows, RequestsStep
<1>2. CASE Harmless(p)
  BY <1>1, <1>2, PaidKept DEF Harmless, Writing, Creating, Unpaid, SamePayment
<1>3. ASSUME NEW s \in Sub, NEW x \in Payment \cup {Null}, CreateBegin(p, s, x)
      PROVE  Paid' /\ OnePerPaymentUnlessUnchecked'
  <2>1. /\ req'[p].pc = "activeCheck" /\ req'[p].sub = s /\ req'[p].entity.payment = x
    BY <1>3, CreateBeginFacts
  <2>2. sub' = sub /\ (x # Null => \A r \in Sub : sub[r].payment # x)
    BY <1>3 DEF CreateBegin
  <2>3. Unpaid(p)' /\ SamePayment(p)'
    BY <2>1, <2>2 DEF Unpaid, SamePayment
  <2> QED BY <1>1, <2>2, <2>3, PaidKept
<1>4. ASSUME NEW s \in Sub, NEW x \in Payment, ActivateFind(p, s, x)
      PROVE  Paid' /\ OnePerPaymentUnlessUnchecked'
  <2>1. req'[p].pc = "activateSave" /\ sub' = sub
    BY <1>4, ActivateFindFacts DEF ActivateFind
  <2>2. Unpaid(p)' /\ SamePayment(p)'
    BY <2>1 DEF Unpaid, SamePayment, Creating
  <2> QED BY <1>1, <2>1, <2>2, PaidKept
<1>5. ASSUME NEW s \in Sub, CancelFind(p, s)
      PROVE  Paid' /\ OnePerPaymentUnlessUnchecked'
  <2>1. /\ req'[p].pc = "cancelSave" /\ req'[p].sub = s /\ sub' = sub
        /\ req'[p].entity.payment = sub[s].payment
    BY <1>5, CancelFindFacts DEF CancelFind
  <2>2. Unpaid(p)' /\ SamePayment(p)'
    BY <2>1 DEF Unpaid, SamePayment, Creating
  <2> QED BY <1>1, <2>1, <2>2, PaidKept
<1>6. CASE ActiveCheck(p)
  <2>1. /\ req'[p].pc = "insert" /\ req'[p].sub = req[p].sub
        /\ req'[p].entity.payment = req[p].entity.payment
    BY <1>6, ActiveCheckFacts
  <2>2. sub' = sub /\ req[p].pc = "activeCheck"
    BY <1>6 DEF ActiveCheck
  <2>3. Unpaid(p)
    BY DEF Paid
  <2>4. Unpaid(p)' /\ SamePayment(p)'
    BY <1>1, <2>1, <2>2, <2>3 DEF Unpaid, SamePayment, Creating, KeyOf
  <2> QED BY <1>1, <2>2, <2>4, PaidKept
<1>7. CASE Inserted(p) \/ ActivateSave(p) \/ CancelSave(p)
  <2> PICK s \in Sub : s = req[p].sub
    BY <1>7, SavedFacts
  <2>1. /\ req'[p].pc = "drop" /\ \A r \in Sub \ {s} : sub'[r] = sub[r]
        /\ sub'[s] = req[p].entity
    BY <1>7, SavedFacts
  <2>2. (Inserted(p) /\ req[p].pc = "insert") \/ s \in unchecked' \/ sub'[s].payment = sub[s].payment
    <3>1. CASE Inserted(p)
      BY <3>1 DEF Inserted, CreateInsert
    <3>2. CASE ActivateSave(p)
      BY <3>2 DEF ActivateSave
    <3>3. CASE CancelSave(p)
      BY <1>1, <2>1, <3>3 DEF CancelSave, Paid, SamePayment
    <3> QED BY <1>7, <3>1, <3>2, <3>3
  \* The saved row and another of its payment.
  <2>3. \A r \in Sub \ {s} :
            KeyOf(r) = KeyOf(s) /\ sub'[s].payment # Null /\ sub'[r].payment = sub'[s].payment =>
                unchecked' \cap {s, r} # {}
    BY <1>1, <2>1, <2>2 DEF Paid, Unpaid, Creating, OnePerPaymentUnlessUnchecked
  <2>4. OnePerPaymentUnlessUnchecked'
    <3>1. ASSUME NEW a \in Sub, NEW b \in Sub, a # b, KeyOf(a) = KeyOf(b),
                 sub'[a].payment = sub'[b].payment, sub'[a].payment # Null
          PROVE  unchecked' \cap {a, b} # {}
      <4>1. CASE a # s /\ b # s
        BY <1>1, <2>1, <3>1, <4>1 DEF OnePerPaymentUnlessUnchecked
      <4>2. CASE a = s \/ b = s
        BY <2>3, <3>1, <4>2
      <4> QED BY <4>1, <4>2
    <3> QED BY <3>1 DEF OnePerPaymentUnlessUnchecked, KeyOf
  <2>5. ASSUME NEW q \in Proc PROVE Unpaid(q)' /\ SamePayment(q)'
    <3>1. CASE q = p
      BY <2>1, <3>1 DEF Unpaid, SamePayment, Creating
    <3>2. CASE q # p
      <4>1. req'[q] = req[q] /\ Unpaid(q) /\ SamePayment(q)
        BY <1>1, <3>2 DEF Others, Paid
      <4>2. ASSUME NEW r \in Sub \ {req[q].sub}, req[q].pc \in Creating,
                   req[q].entity.payment # Null, KeyOf(r) = KeyOf(req[q].sub),
                   sub'[r].payment = req[q].entity.payment
            PROVE  unchecked' \cap {req[q].sub, r} # {}
        <5>1. CASE r # s \/ sub'[s].payment = sub[s].payment
          BY <1>1, <2>1, <4>1, <4>2, <5>1 DEF Unpaid
        <5>2. CASE r = s /\ Inserted(p)
          BY <3>2, <4>2, <5>2, InsertFlags
        <5> QED BY <2>2, <4>2, <5>1, <5>2
      <4>3. Unpaid(q)'
        BY <4>1, <4>2 DEF Unpaid, KeyOf
      <4>4. SamePayment(q)'
        <5>1. CASE req[q].pc = "cancelSave" /\ req[q].sub = s
          <6>1. sub[s].status # "none"
            BY <5>1 DEF Drafts
          <6>2. ~Inserted(p)
            BY <6>1 DEF Fresh, Creating, Inserted, CreateInsert
          <6> QED BY <1>1, <2>2, <4>1, <5>1, <6>2 DEF SamePayment
        <5>2. CASE req[q].pc = "cancelSave" /\ req[q].sub # s
          <6>1. req[q].sub \in Sub
            BY <5>2 DEF TypeOK, SubSteps
          <6> QED BY <1>1, <2>1, <4>1, <5>2, <6>1 DEF SamePayment
        <5>3. CASE req[q].pc # "cancelSave"
          BY <4>1, <5>3 DEF SamePayment
        <5> QED BY <5>1, <5>2, <5>3
      <4> QED BY <4>3, <4>4
    <3> QED BY <3>1, <3>2
  <2> QED BY <2>4, <2>5 DEF Paid
<1> QED BY <1>2, <1>3, <1>4, <1>5, <1>6, <1>7, ServeCases

\* OnePerPaymentUnlessUnchecked: two subscriptions of a user and a grade with the same
\* payment come only of creations side by side or of an activation.
THEOREM OnePerPayment == Spec => []OnePerPaymentUnlessUnchecked
<1> DEFINE Inv == Paid /\ OnePerPaymentUnlessUnchecked
<1>1. Init => Inv
  BY DEF Init, Inv, Paid, Unpaid, SamePayment, OnePerPaymentUnlessUnchecked, Idle, NoRow, Creating
<1>2. Basis /\ Inv /\ [Next]_vars => Inv'
  <2> SUFFICES ASSUME Basis, Inv, [Next]_vars PROVE Inv'
    OBVIOUS
  <2>1. ASSUME NEW p \in Proc, Serve(p) PROVE Inv'
    BY <2>1, PaidServe
  <2>2. CASE (\E pl \in Plan : CreatePlan(pl)) \/ ProcessExpired \/ Tick \/ UNCHANGED vars
    <3>1. UNCHANGED <<req, unchecked>>
      BY <2>2 DEF CreatePlan, ProcessExpired, Tick, vars
    <3>2. \A r \in Sub : sub'[r].payment = sub[r].payment
      BY <2>2, ExpireFacts DEF CreatePlan, Tick, vars, Basis
    <3>3. \A q \in Proc : req[q].pc = "cancelSave" => req[q].sub \in Sub
      BY DEF Basis, TypeOK, SubSteps
    <3>4. Paid'
      BY <3>1, <3>2, <3>3 DEF Paid, Unpaid, SamePayment, KeyOf
    <3>5. OnePerPaymentUnlessUnchecked'
      BY <3>1, <3>2 DEF OnePerPaymentUnlessUnchecked, KeyOf
    <3> QED BY <3>4, <3>5
  <2> QED BY <2>1, <2>2 DEF Next
<1> QED BY <1>1, <1>2, BasisInvariant, PTL DEF Spec
=============================================================================
