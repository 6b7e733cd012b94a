---------------------------- MODULE RolesProofs ----------------------------
(***************************************************************************)
(* What holds of an account and of its administrator's role, for any       *)
(* tokens, roles, permissions, requests, transactions, checks and bounds.  *)
(***************************************************************************)
EXTENDS Roles, TLAPS

(***************************************************************************)
(* Types                                                                   *)
(***************************************************************************)
Alive(status) == status \notin {"none", "deleted"}
Mishaps == {"stale", "miscounted", "halfway", "reassigned", "crossed", "uncleared", "revived"}

\* What a request remembers, when v passwords have been set: it may be about to set the next
\* one; a save leaves an administrator one and makes nobody else one.
SoundRequest(r, v) ==
    /\ r \in Request
    /\ r.pc = "rotate" => r.token \in Token
    /\ r.pc \in {"attempt", "fail"} => r.count < MaxAttempts
    /\ r.pc = "insert" => r.password
    /\ r.proof <= IF r.pc = "insert" THEN v + 1 ELSE v
    /\ r.pc \in {"insert", "userSave"} => Alive(r.entity.status)
    /\ r.pc = "userSave" => Alive(r.read.status) /\ (r.entity.role = "admin" <=> r.read.role = "admin")

\* What a transaction is about to commit.
SoundTx(t) ==
    /\ t \in Transaction
    /\ t.kind = "role" => t.id \in RoleId
    /\ t.kind \in {"assign", "revoke", "create"} => t.drafted.role \in RoleId /\ Alive(t.draft.status)
    /\ t.kind \in {"assign", "create"} => t.draft.role = "admin" /\ t.drafted.status = "active"
    /\ t.kind = "revoke" => t.draft.role # "admin" /\ t.drafted.status = "revoked"

Typed ==
    /\ TypeOK
    /\ \A p \in Proc : SoundRequest(req[p], version)
    /\ \A a \in Tx : SoundTx(tx[a])
    /\ ~Exists => assignment.status = "none"

Others(p) == \A q \in Proc \ {p} : req'[q] = req[q]

LEMMA IdleSound ==
    /\ Idle \in Request /\ NoColumns \in Columns /\ NoUser \in User /\ NoTx \in Transaction
    /\ NoAssignment \in Assignment /\ NoCheck \in Check
    /\ \A v \in Nat : SoundRequest(Idle, v)
    /\ SoundTx(NoTx)
<1>1. "student" \in Primary
  BY PrimaryAssumption
<1>2. NoColumns \in Columns /\ NoUser \in User
  BY <1>1 DEF NoColumns, Columns, NoUser, User, Status, Role
<1>3. Idle \in Request
  BY <1>2 DEF Idle, Request, Steps, Counter
<1>4. NoAssignment \in Assignment /\ NoCheck \in Check
  BY DEF NoAssignment, Assignment, Held, NoCheck, Check
<1>5. NoTx \in Transaction
  BY <1>2, <1>4 DEF NoTx, Transaction, Held
<1>6. \A v \in Nat : SoundRequest(Idle, v)
  BY <1>3 DEF SoundRequest, Idle
<1> QED BY <1>2, <1>3, <1>4, <1>5, <1>6 DEF SoundTx, NoTx

LEMMA TypeFacts ==
    ASSUME Typed
    PROVE  /\ user \in User /\ user.password <= version
           /\ user.status \in Status /\ user.role \in Role /\ user.password \in Nat
           /\ failures \in [Counter -> 0..MaxAttempts]
           /\ token \in [Token -> TokenRow] /\ \A t \in Token : token[t].proof <= version
           /\ cached \in {Null} \cup SUBSET Permission
           /\ req \in [Proc -> Request]
           /\ made \in Nat /\ version \in Nat /\ changed \in 0..version
           /\ guesses \in [Counter -> Nat] /\ mishap \subseteq Mishaps
           /\ role \in [RoleId -> {Null} \cup SUBSET Permission]
           /\ assignment \in Assignment
           /\ assignment.status # "none" => assignment.role \in RoleId /\ role[assignment.role] # Null
           /\ tx \in [Tx -> Transaction] /\ guard \in [Guard -> Check]
           /\ \A p \in Proc : SoundRequest(req[p], version)
           /\ \A a \in Tx : SoundTx(tx[a])
           /\ ~Exists => assignment.status = "none"
           /\ ColumnsOf(user) \in Columns
BY DEF Typed, TypeOK, AccountTypes, Mishaps, User, ColumnsOf, Columns

\* A step of p, put together.
LEMMA Assembled ==
    ASSUME Typed, NEW p \in Proc, NEW r, SoundRequest(r, version'), req' = [req EXCEPT ![p] = r],
           user' \in User, version' \in Nat, version <= version', user'.password <= version',
           failures' \in [Counter -> 0..MaxAttempts],
           token' \in [Token -> TokenRow], \A t \in Token : token'[t].proof <= version',
           cached' \in {Null} \cup SUBSET Permission, made' \in Nat,
           changed' \in 0..version', guesses' \in [Counter -> Nat], mishap' \subseteq Mishaps,
           UNCHANGED <<role, assignment, tx, guard>>, ~Exists' => assignment.status = "none"
    PROVE  Typed'
<1>1. req' \in [Proc -> Request] /\ Others(p) /\ req'[p] = r
  BY TypeFacts DEF Others, SoundRequest
<1>2. ASSUME NEW q \in Proc PROVE SoundRequest(req'[q], version')
  <2>1. CASE q = p
    BY <1>1, <2>1
  <2>2. CASE q # p
    <3>1. req'[q] = req[q] /\ SoundRequest(req[q], version) /\ req[q].proof \in Nat
      BY <1>1, <2>2, TypeFacts DEF Others, Request
    <3> QED BY <3>1, TypeFacts DEF SoundRequest
  <2> QED BY <2>1, <2>2
<1>3. AccountTypes'
  BY <1>1, <1>2 DEF AccountTypes, SoundRequest, Mishaps
<1>4. TypeOK'
  BY <1>3, TypeFacts DEF TypeOK, Typed
<1> QED BY <1>2, <1>4, TypeFacts DEF Typed

LEMMA RequestOnly ==
    ASSUME Typed, NEW p \in Proc, NEW r, SoundRequest(r, version), req' = [req EXCEPT ![p] = r], made' \in Nat,
           UNCHANGED <<user, failures, token, cached, history, roleVars>>
    PROVE  Typed'
<1>1. /\ user' = user /\ failures' = failures /\ token' = token /\ cached' = cached /\ version' = version
      /\ changed' = changed /\ guesses' = guesses /\ mishap' = mishap
      /\ UNCHANGED <<role, assignment, tx, guard>> /\ (~Exists' => assignment.status = "none")
  BY TypeFacts DEF history, roleVars, Exists
<1>2. /\ user' \in User /\ version' \in Nat /\ version <= version' /\ user'.password <= version'
      /\ SoundRequest(r, version')
  BY <1>1, TypeFacts
<1>3. /\ failures' \in [Counter -> 0..MaxAttempts] /\ token' \in [Token -> TokenRow]
      /\ \A t \in Token : token'[t].proof <= version'
      /\ cached' \in {Null} \cup SUBSET Permission /\ changed' \in 0..version'
      /\ guesses' \in [Counter -> Nat] /\ mishap' \subseteq Mishaps
  BY <1>1, TypeFacts
<1> QED BY <1>1, <1>2, <1>3, Assembled

(***************************************************************************)
(* Types: the routes                                                       *)
(***************************************************************************)
\* What a request that has found the account is about to save of it.
Saves(r, e, proof) ==
    r \in Request /\ r.pc = "userSave" /\ r.read = ColumnsOf(user) /\ r.entity = e /\ r.proof = proof /\ ~r.late

LEMMA FoundShapes ==
    ASSUME Typed, NEW e \in Columns, NEW sets \in BOOLEAN, NEW proof \in Nat
    PROVE  /\ Saves(Found(e), e, 0) /\ Found(e).then = "idle"
           /\ Saves([Found(e) EXCEPT !.password = sets], e, 0) /\ [Found(e) EXCEPT !.password = sets].then = "idle"
           /\ Saves([Found(e) EXCEPT !.password = TRUE, !.otp = "cleared"], e, 0)
           /\ [Found(e) EXCEPT !.password = TRUE, !.otp = "cleared"].then = "idle"
           /\ Saves([Found(e) EXCEPT !.then = "issue", !.proof = proof], e, proof)
           /\ Saves([Found(e) EXCEPT !.otp = "sent", !.then = "otpClear"], e, 0)
           /\ [Found(e) EXCEPT !.otp = "sent", !.then = "otpClear"].then = "otpClear"
<1> DEFINE f == Found(e)
<1>1. /\ f \in Request /\ f.pc = "userSave" /\ f.read = ColumnsOf(user) /\ f.entity = e /\ f.proof = 0 /\ ~f.late
      /\ f.then = "idle"
  BY IdleSound, TypeFacts DEF Found, Idle, Request, Steps, Counter
<1> HIDE DEF f
<1>2. Saves(f, e, 0) /\ f.then = "idle"
  BY <1>1 DEF Saves
<1>3. Saves([f EXCEPT !.password = sets], e, 0) /\ [f EXCEPT !.password = sets].then = "idle"
  BY <1>1 DEF Saves, Request
<1>4. /\ Saves([f EXCEPT !.password = TRUE, !.otp = "cleared"], e, 0)
      /\ [f EXCEPT !.password = TRUE, !.otp = "cleared"].then = "idle"
  BY <1>1 DEF Saves, Request
<1>5. Saves([f EXCEPT !.then = "issue", !.proof = proof], e, proof)
  BY <1>1 DEF Saves, Request
<1>6. /\ Saves([f EXCEPT !.otp = "sent", !.then = "otpClear"], e, 0)
      /\ [f EXCEPT !.otp = "sent", !.then = "otpClear"].then = "otpClear"
  BY <1>1 DEF Saves, Request
<1> QED BY <1>2, <1>3, <1>4, <1>5, <1>6 DEF f

LEMMA SavesSound ==
    ASSUME Typed, Exists, NEW e \in Columns, Alive(e.status), e.role = "admin" <=> user.role = "admin",
           NEW r, NEW proof \in 0..version, Saves(r, e, proof)
    PROVE  SoundRequest(r, version)
BY TypeFacts DEF SoundRequest, Saves, ColumnsOf, Exists, Alive

\* A request that waits for its turn, with little to remember.
LEMMA PlainSound ==
    ASSUME Typed, NEW pc \in {"forget", "signOut", "remove", "passwordUpdate", "issue"},
           NEW proof \in 0..version, NEW e \in Columns
    PROVE  /\ SoundRequest([Idle EXCEPT !.pc = pc], version)
           /\ SoundRequest([Idle EXCEPT !.pc = pc, !.proof = proof], version)
           /\ SoundRequest([Idle EXCEPT !.pc = pc, !.entity = e], version)
<1>0. version \in Nat /\ proof \in Nat /\ proof <= version /\ pc \in Steps
      /\ Idle \in Request /\ Idle.proof = 0
  BY IdleSound, TypeFacts DEF Steps, Idle
<1>1. SoundRequest([Idle EXCEPT !.pc = pc], version)
  BY <1>0 DEF SoundRequest, Request
<1>2. SoundRequest([Idle EXCEPT !.pc = pc, !.proof = proof], version)
  BY <1>0 DEF SoundRequest, Request
<1>3. SoundRequest([Idle EXCEPT !.pc = pc, !.entity = e], version)
  <2> DEFINE r == [Idle EXCEPT !.pc = pc, !.entity = e]
  <2>1. r \in Request /\ r.pc = pc /\ r.proof = 0
    BY <1>0 DEF Request
  <2> HIDE DEF r
  <2>2. SoundRequest(r, version)
    BY <1>0, <2>1 DEF SoundRequest
  <2> QED BY <2>2 DEF r
<1> QED BY <1>1, <1>2, <1>3

LEMMA RenewalSound ==
    ASSUME Typed, NEW pc \in {"rotate", "issue"}, NEW t \in Token, NEW proof \in 0..version, NEW late \in BOOLEAN
    PROVE  SoundRequest([Idle EXCEPT !.pc = pc, !.token = t, !.proof = proof, !.late = late], version)
<1>1. version \in Nat /\ proof \in Nat /\ proof <= version /\ pc \in Steps /\ Idle \in Request
  BY IdleSound, TypeFacts DEF Steps
<1> QED BY <1>1 DEF SoundRequest, Request

LEMMA InsertSound ==
    ASSUME Typed, NEW e \in Columns, Alive(e.status)
    PROVE  /\ SoundRequest([Idle EXCEPT !.pc = "insert", !.password = TRUE, !.entity = e], version)
           /\ SoundRequest([Idle EXCEPT !.pc = "insert", !.password = TRUE, !.then = "issue", !.proof = version + 1,
                                        !.entity = e], version)
<1>0. version \in Nat /\ version + 1 \in Nat /\ version + 1 <= version + 1 /\ Idle \in Request /\ Idle.proof = 0
  BY IdleSound, TypeFacts DEF Idle
<1>1. SoundRequest([Idle EXCEPT !.pc = "insert", !.password = TRUE, !.entity = e], version)
  <2> DEFINE r == [Idle EXCEPT !.pc = "insert", !.password = TRUE, !.entity = e]
  <2>1. r \in Request /\ r.pc = "insert" /\ r.password /\ r.entity = e /\ r.proof = 0
    BY <1>0 DEF Request, Steps
  <2> HIDE DEF r
  <2>2. SoundRequest(r, version)
    BY <1>0, <2>1 DEF SoundRequest
  <2> QED BY <2>2 DEF r
<1>2. SoundRequest([Idle EXCEPT !.pc = "insert", !.password = TRUE, !.then = "issue", !.proof = version + 1,
                                !.entity = e], version)
  <2> DEFINE r == [Idle EXCEPT !.pc = "insert", !.password = TRUE, !.then = "issue", !.proof = version + 1, !.entity = e]
  <2>1. r \in Request /\ r.pc = "insert" /\ r.password /\ r.entity = e /\ r.proof = version + 1
    BY <1>0 DEF Request, Steps
  <2> HIDE DEF r
  <2>2. SoundRequest(r, version)
    BY <1>0, <2>1 DEF SoundRequest
  <2> QED BY <2>2 DEF r
<1> QED BY <1>1, <1>2

LEMMA SaveRouteSound ==
    ASSUME Typed, NEW p \in Proc,
           \/ ProfileFind(p) \/ AcademicFind(p) \/ RoleFind(p) \/ LinkFind(p) \/ SuspendFind(p) \/ ActivateFind(p)
           \/ CodeFind(p) \/ ForgotFind(p)
    PROVE  \E r : SoundRequest(r, version) /\ Begin(p, r)
<1> DEFINE u == ColumnsOf(user)
<1>0. /\ u \in Columns /\ u.status = user.status /\ u.role = user.role
      /\ \A status \in {user.status, "active", "suspended"} :
             [u EXCEPT !.status = status] \in Columns /\ [u EXCEPT !.status = status].status = status
             /\ [u EXCEPT !.status = status].role = user.role
      /\ \A given \in Primary : [u EXCEPT !.role = given] \in Columns /\ [u EXCEPT !.role = given].status = user.status
                                /\ [u EXCEPT !.role = given].role = given
      /\ [u EXCEPT !.parent = TRUE] \in Columns /\ [u EXCEPT !.parent = TRUE].status = user.status
      /\ [u EXCEPT !.parent = TRUE].role = user.role
      /\ [u EXCEPT !.reset = TRUE] \in Columns /\ [u EXCEPT !.reset = TRUE].status = user.status
      /\ [u EXCEPT !.reset = TRUE].role = user.role
  BY TypeFacts DEF ColumnsOf, Columns, Status, Role
<1> HIDE DEF u
<1>a. Exists => Alive(user.status)
  BY DEF Exists, Alive
<1>b. Alive("active") /\ Alive("suspended") /\ Alive("pending")
  BY DEF Alive
<1>1. CASE ProfileFind(p)
  <2>1. PICK status \in {user.status, "active", "suspended"}, sets \in BOOLEAN :
            Begin(p, [Found([u EXCEPT !.status = status]) EXCEPT !.password = sets])
    BY <1>1 DEF ProfileFind, u
  <2> DEFINE e == [u EXCEPT !.status = status]
  <2>2. Exists /\ e \in Columns /\ Alive(e.status) /\ (e.role = "admin" <=> user.role = "admin")
    BY <1>0, <1>1, <1>a, <1>b DEF ProfileFind
  <2> HIDE DEF e
  <2>3. Saves([Found(e) EXCEPT !.password = sets], e, 0)
    BY <2>2, FoundShapes
  <2>4. SoundRequest([Found(e) EXCEPT !.password = sets], version)
    BY <2>2, <2>3, SavesSound, TypeFacts
  <2> QED BY <2>1, <2>4 DEF e
<1>2. CASE AcademicFind(p) \/ CodeFind(p)
  <2>1. Exists /\ u \in Columns /\ Alive(u.status) /\ (u.role = "admin" <=> user.role = "admin")
    BY <1>0, <1>2, <1>a, <1>b DEF AcademicFind, CodeFind, Exists
  <2>2. Saves(Found(u), u, 0) /\ Saves([Found(u) EXCEPT !.otp = "sent", !.then = "otpClear"], u, 0)
    BY <1>0, FoundShapes
  <2>3. SoundRequest(Found(u), version) /\ SoundRequest([Found(u) EXCEPT !.otp = "sent", !.then = "otpClear"], version)
    BY <2>1, <2>2, SavesSound, TypeFacts
  <2>4. Begin(p, Found(u)) \/ Begin(p, [Found(u) EXCEPT !.otp = "sent", !.then = "otpClear"])
    BY <1>2 DEF AcademicFind, CodeFind, u
  <2> QED BY <2>3, <2>4
<1>3. ASSUME Exists, NEW e \in Columns, Alive(e.status), e.role = "admin" <=> user.role = "admin", Begin(p, Found(e))
      PROVE  \E r : SoundRequest(r, version) /\ Begin(p, r)
  <2>1. Saves(Found(e), e, 0)
    BY FoundShapes
  <2>2. SoundRequest(Found(e), version)
    BY <1>3, <2>1, SavesSound, TypeFacts
  <2> QED BY <1>3, <2>2
<1>4. CASE RoleFind(p)
  <2>1. PICK given \in Primary : Begin(p, Found([u EXCEPT !.role = given]))
    BY <1>4 DEF RoleFind, u
  <2> QED BY <1>0, <1>3, <1>4, <1>a, <2>1, PrimaryAssumption DEF RoleFind
<1>5. CASE LinkFind(p)
  BY <1>0, <1>3, <1>5, <1>a DEF LinkFind, u
<1>6. CASE SuspendFind(p) \/ ActivateFind(p)
  BY <1>0, <1>3, <1>6, <1>b DEF SuspendFind, ActivateFind, u
<1>7. CASE ForgotFind(p)
  BY <1>0, <1>3, <1>7, <1>a DEF ForgotFind, u
<1> QED BY <1>1, <1>2, <1>4, <1>5, <1>6, <1>7

LEMMA OtherRouteSound ==
    ASSUME Typed, NEW p \in Proc,
           \/ CreateFind(p) \/ DeleteFind(p) \/ RegisterFind(p) \/ OAuthFind(p) \/ \E c \in Counter : AttemptBegin(p, c)
           \/ \E t \in Token : RefreshFind(p, t)
           \/ ChangeFind(p) \/ ResetFind(p) \/ LogoutAll(p)
    PROVE  \E r : SoundRequest(r, version) /\ Begin(p, r)
<1>0. /\ NoColumns \in Columns /\ [NoColumns EXCEPT !.reset = TRUE] \in Columns
      /\ \A given \in Role : [NoColumns EXCEPT !.status = "active", !.role = given] \in Columns
                             /\ Alive([NoColumns EXCEPT !.status = "active", !.role = given].status)
      /\ [NoColumns EXCEPT !.status = "active"] \in Columns /\ Alive([NoColumns EXCEPT !.status = "active"].status)
  BY IdleSound DEF NoColumns, Columns, Status, Role, Alive
<1>b. 0 \in 0..version
  BY TypeFacts
<1>1. CASE CreateFind(p)
  BY <1>0, <1>1, InsertSound DEF CreateFind
<1>2. CASE DeleteFind(p) \/ ChangeFind(p) \/ LogoutAll(p)
  BY <1>0, <1>2, <1>b, PlainSound DEF DeleteFind, ChangeFind, LogoutAll
<1>3. CASE ResetFind(p)
  BY <1>0, <1>3, <1>b, PlainSound DEF ResetFind
<1>4. CASE RegisterFind(p)
  <2>1. CASE user.status = "none"
    BY <1>0, <1>4, <2>1, InsertSound DEF RegisterFind
  <2>2. CASE user.status # "none"
    <3> DEFINE e == [ColumnsOf(user) EXCEPT !.status = "active"]
    <3>1. Exists /\ e \in Columns /\ Alive(e.status) /\ (e.role = "admin" <=> user.role = "admin")
      BY <1>4, <2>2, TypeFacts DEF RegisterFind, Exists, Alive, ColumnsOf, Columns, Status
    <3>2. Begin(p, [Found(e) EXCEPT !.password = TRUE, !.otp = "cleared"])
      BY <1>4, <2>2 DEF RegisterFind
    <3> HIDE DEF e
    <3>3. Saves([Found(e) EXCEPT !.password = TRUE, !.otp = "cleared"], e, 0)
      BY <3>1, FoundShapes
    <3> QED BY <3>1, <3>2, <3>3, SavesSound, TypeFacts
  <2> QED BY <2>1, <2>2
<1>5. CASE OAuthFind(p)
  <2>1. CASE user.status = "none"
    BY <1>0, <1>5, <2>1, InsertSound DEF OAuthFind
  <2>2. CASE user.status # "none"
    <3> DEFINE e == ColumnsOf(user)
               v == user.password
    <3>1. Exists /\ e \in Columns /\ Alive(e.status) /\ (e.role = "admin" <=> user.role = "admin") /\ v \in 0..version
      BY <1>5, <2>2, TypeFacts DEF OAuthFind, Exists, Alive, ColumnsOf
    <3>2. \/ Begin(p, [Found(e) EXCEPT !.then = "issue", !.proof = v])
          \/ Begin(p, [Idle EXCEPT !.pc = "issue", !.proof = v])
      BY <1>5, <2>2 DEF OAuthFind
    <3> HIDE DEF e, v
    <3>3. Saves([Found(e) EXCEPT !.then = "issue", !.proof = v], e, v)
      <4>1. v \in Nat /\ TRUE \in BOOLEAN
        BY <3>1, TypeFacts
      <4> QED BY <3>1, <4>1, FoundShapes
    <3>4. SoundRequest([Found(e) EXCEPT !.then = "issue", !.proof = v], version)
      BY <3>1, <3>3, SavesSound
    <3>5. SoundRequest([Idle EXCEPT !.pc = "issue", !.proof = v], version)
      BY <1>0, <3>1, PlainSound
    <3> QED BY <3>2, <3>4, <3>5
  <2> QED BY <2>1, <2>2
<1>6. CASE \E c \in Counter : AttemptBegin(p, c)
  <2>1. PICK c \in Counter : AttemptBegin(p, c)
    BY <1>6
  <2> DEFINE r == [Idle EXCEPT !.pc = "attempt", !.counter = c, !.count = failures[c]]
  <2>a. Begin(p, r) /\ failures[c] < MaxAttempts
    BY <2>1 DEF AttemptBegin
  <2>2. failures[c] \in Nat
    BY TypeFacts, BoundsAssumption
  <2>3. r \in Request /\ r.pc = "attempt" /\ r.count < MaxAttempts /\ r.proof = 0
    BY <2>a, <2>2, IdleSound DEF Request, Steps, Idle
  <2> HIDE DEF r
  <2>4. SoundRequest(r, version)
    BY <2>3, TypeFacts DEF SoundRequest
  <2> QED BY <2>a, <2>4
<1>7. CASE \E t \in Token : RefreshFind(p, t)
  <2>1. PICK t \in Token : RefreshFind(p, t)
    BY <1>7
  <2> DEFINE pc == IF token[t].status = "live" THEN "rotate" ELSE "issue"
             proof == token[t].proof
             late == token[t].late \/ token[t].status = "recent"
  <2>a. token[t] \in TokenRow /\ token[t].proof <= version
    BY TypeFacts
  <2>b. Begin(p, [Idle EXCEPT !.pc = pc, !.token = t, !.proof = proof, !.late = late])
    BY <2>1 DEF RefreshFind
  <2>2. pc \in {"rotate", "issue"} /\ proof \in 0..version /\ late \in BOOLEAN
    BY <2>a, TypeFacts DEF TokenRow
  <2> HIDE DEF pc, proof, late
  <2>3. SoundRequest([Idle EXCEPT !.pc = pc, !.token = t, !.proof = proof, !.late = late], version)
    BY <2>2, RenewalSound
  <2> QED BY <2>b, <2>3
<1> QED BY <1>1, <1>2, <1>3, <1>4, <1>5, <1>6, <1>7

\* A step of p that leaves the row alone.
LEMMA RowKept ==
    ASSUME Typed, NEW p \in Proc, NEW r, SoundRequest(r, version), req' = [req EXCEPT ![p] = r],
           UNCHANGED <<user, version, changed, roleVars>>,
           failures' \in [Counter -> 0..MaxAttempts], guesses' \in [Counter -> Nat],
           token' \in [Token -> TokenRow], \A t \in Token : token'[t].proof <= version,
           cached' \in {Null} \cup SUBSET Permission, made' \in Nat, mishap' \subseteq Mishaps
    PROVE  Typed'
<1>1. /\ user' = user /\ version' = version /\ changed' = changed
      /\ UNCHANGED <<role, assignment, tx, guard>> /\ (~Exists' => assignment.status = "none")
  BY TypeFacts DEF roleVars, Exists
<1>2. /\ user' \in User /\ version' \in Nat /\ version <= version' /\ user'.password <= version'
      /\ SoundRequest(r, version') /\ changed' \in 0..version' /\ \A t \in Token : token'[t].proof <= version'
  BY <1>1, TypeFacts
<1> QED BY <1>1, <1>2, Assembled

LEMMA ServeTyped ==
    ASSUME Typed, NEW p \in Proc, AccountServe(p), UNCHANGED roleVars
    PROVE  Typed'
<1>0. made' \in Nat
  BY TypeFacts DEF AccountServe
<1>1. ASSUME NEW t \in Token, LogoutOne(p, t)
      PROVE  Typed'
  <2>1. /\ token' = [token EXCEPT ![t].status = "recent"] /\ Begin(p, [Idle EXCEPT !.pc = "forget"])
        /\ UNCHANGED <<user, failures, cached, history>>
    BY <1>1 DEF LogoutOne
  <2>2. SoundRequest([Idle EXCEPT !.pc = "forget"], version)
    BY IdleSound, PlainSound, TypeFacts
  <2>3. token' \in [Token -> TokenRow] /\ \A x \in Token : token'[x].proof <= version
    BY <2>1, TypeFacts DEF TokenRow
  <2> QED BY <1>0, <2>1, <2>2, <2>3, RowKept, TypeFacts DEF Begin, history
<1>2. CASE ~(\E t \in Token : LogoutOne(p, t))
  <2>1. \E r : SoundRequest(r, version) /\ Begin(p, r)
    BY <1>2, SaveRouteSound, OtherRouteSound DEF AccountServe, AccountRoute
  <2>2. UNCHANGED <<user, failures, token, cached, history>>
    BY <1>2 DEF AccountServe, AccountRoute, CreateFind, ProfileFind, AcademicFind, RoleFind, LinkFind, SuspendFind,
           ActivateFind, DeleteFind, RegisterFind, OAuthFind, CodeFind, ForgotFind, AttemptBegin, RefreshFind,
           ChangeFind, ResetFind, LogoutAll
  <2> QED BY <1>0, <2>1, <2>2, RequestOnly DEF Begin
<1> QED BY <1>1, <1>2

(***************************************************************************)
(* Types: the rest of a request                                            *)
(***************************************************************************)
\* What p goes on with.
LEMMA NextStep ==
    ASSUME Typed, NEW p \in Proc
    PROVE  /\ req[p] \in Request /\ SoundRequest(req[p], version)
           /\ \A v \in Nat : SoundRequest(Idle, v)
           /\ End(p) => req' = [req EXCEPT ![p] = Idle]
           /\ \A step : Goto(p, step) => req' = [req EXCEPT ![p] = [req[p] EXCEPT !.pc = step]]
BY IdleSound, TypeFacts DEF SoundRequest, End, Goto

LEMMA GotoSound ==
    ASSUME Typed, NEW p \in Proc, req[p].pc # "insert", NEW v \in Nat, version <= v,
           NEW step \in {"issue", "otpSave", "forget", "signOut"}
    PROVE  SoundRequest([req[p] EXCEPT !.pc = step], v)
<1>1. req[p] \in Request /\ SoundRequest(req[p], version) /\ step \in Steps /\ version \in Nat
  BY NextStep, TypeFacts DEF Steps
<1>2. req[p].proof \in Nat /\ req[p].proof <= version
  BY <1>1 DEF SoundRequest, Request
<1> DEFINE r == [req[p] EXCEPT !.pc = step]
<1>3. r \in Request /\ r.pc = step /\ r.proof = req[p].proof
  BY <1>1 DEF Request
<1> HIDE DEF r
<1>4. SoundRequest(r, v)
  BY <1>1, <1>2, <1>3 DEF SoundRequest
<1> QED BY <1>4 DEF r

LEMMA GoesOn ==
    ASSUME Typed, NEW p \in Proc, req[p].pc # "insert", NEW step \in {"issue", "otpSave", "forget", "signOut"}
    PROVE  SoundRequest([req[p] EXCEPT !.pc = step], version)
<1>1. version \in Nat /\ version <= version
  BY TypeFacts
<1> QED BY <1>1, GotoSound

LEMMA AfterSaveSound ==
    ASSUME Typed, NEW p \in Proc, AfterSave(p), version' \in Nat, req[p].proof <= version'
    PROVE  \E r : SoundRequest(r, version') /\ req' = [req EXCEPT ![p] = r]
<1>1. CASE req[p].then = "idle"
  BY <1>1, NextStep DEF AfterSave
<1>2. CASE req[p].then # "idle"
  <2> DEFINE r == [req[p] EXCEPT !.pc = req[p].then, !.read = NoColumns, !.entity = NoColumns]
  <2>1. req' = [req EXCEPT ![p] = r]
    BY <1>2, NextStep DEF AfterSave
  <2>2. r \in Request /\ r.pc \in {"issue", "otpClear", "forget"} /\ r.proof = req[p].proof
    BY <1>2, NextStep, IdleSound DEF Request, Steps
  <2> HIDE DEF r
  <2>3. SoundRequest(r, version')
    BY <2>2 DEF SoundRequest
  <2> QED BY <2>1, <2>3
<1> QED BY <1>1, <1>2

LEMMA AttemptTyped ==
    ASSUME Typed, NEW p \in Proc, UNCHANGED roleVars,
           \/ AttemptWrong(p) \/ AttemptRefused(p) \/ AttemptRight(p) \/ AttemptFail(p) \/ AttemptClear(p)
           \/ CodeClear(p)
    PROVE  Typed'
<1>0. version \in Nat /\ made \in Nat /\ req[p] \in Request /\ SoundRequest(req[p], version)
  BY NextStep, TypeFacts
<1>1. CASE AttemptWrong(p)
  <2> DEFINE r == [req[p] EXCEPT !.pc = "fail"]
  <2>1. /\ req' = [req EXCEPT ![p] = r] /\ UNCHANGED <<user, failures, token, cached, history>> /\ made' = made
        /\ req[p].pc = "attempt"
    BY <1>1, NextStep DEF AttemptWrong
  <2>2. /\ r \in Request /\ r.pc = "fail" /\ r.proof = req[p].proof /\ r.count = req[p].count
        /\ req[p].count < MaxAttempts /\ req[p].proof <= version
    BY <1>0, <2>1 DEF Request, Steps, SoundRequest
  <2> HIDE DEF r
  <2>3. SoundRequest(r, version)
    BY <2>2 DEF SoundRequest
  <2> QED BY <1>0, <2>1, <2>3, RequestOnly
<1>2. CASE AttemptRefused(p)
  BY <1>0, <1>2, NextStep, RequestOnly DEF AttemptRefused
<1>3. CASE AttemptRight(p)
  <2> DEFINE r == [req[p] EXCEPT !.pc = "clear", !.read = ColumnsOf(user), !.proof = user.password, !.then = "forget"]
  <2>1. req' = [req EXCEPT ![p] = r] /\ UNCHANGED <<user, failures, token, cached, history>> /\ made' = made
    BY <1>3, NextStep DEF AttemptRight
  <2>2. r \in Request /\ r.pc = "clear" /\ r.proof = user.password /\ user.password <= version
    BY <1>0, TypeFacts DEF Request, Steps
  <2> HIDE DEF r
  <2>3. SoundRequest(r, version)
    BY <2>2 DEF SoundRequest
  <2> QED BY <1>0, <2>1, <2>3, RequestOnly
<1>4. ASSUME \/ AttemptFail(p) \/ AttemptClear(p) \/ CodeClear(p)
      PROVE  /\ UNCHANGED <<user, version, changed, token, cached, made>>
             /\ failures' \in [Counter -> 0..MaxAttempts] /\ guesses' \in [Counter -> Nat] /\ mishap' \subseteq Mishaps
  <2>1. CASE AttemptFail(p)
    <3> DEFINE c == req[p].counter
    <3>1. /\ req[p].pc = "fail" /\ c \in Counter /\ req[p].count \in Nat
          /\ failures' = [failures EXCEPT ![c] = req[p].count + 1]
          /\ guesses' = [guesses EXCEPT ![c] = guesses[c] + 1]
          /\ mishap' \subseteq mishap \cup {"miscounted"}
          /\ UNCHANGED <<user, version, changed, token, cached, made>>
      BY <1>0, <2>1 DEF AttemptFail, Request
    <3>2. req[p].count + 1 \in 0..MaxAttempts
      BY <1>0, <3>1, BoundsAssumption DEF SoundRequest
    <3> QED BY <3>1, <3>2, TypeFacts DEF Mishaps
  <2>2. CASE AttemptClear(p)
    BY <1>0, <2>2, TypeFacts, BoundsAssumption DEF AttemptClear, Request
  <2>3. CASE CodeClear(p)
    <3>1. "otp" \in Counter /\ 0 \in 0..MaxAttempts
      BY BoundsAssumption DEF Counter
    <3>2. /\ failures' = [failures EXCEPT !["otp"] = 0] /\ guesses' = [guesses EXCEPT !["otp"] = 0]
          /\ UNCHANGED <<user, version, changed, token, cached, made, mishap>>
      BY <2>3 DEF CodeClear
    <3> QED BY <3>1, <3>2, TypeFacts
  <2> QED BY <1>4, <2>1, <2>2, <2>3
<1>5. ASSUME NEW r, SoundRequest(r, version), req' = [req EXCEPT ![p] = r],
             \/ AttemptFail(p) \/ AttemptClear(p) \/ CodeClear(p)
      PROVE  Typed'
  <2>1. /\ token' \in [Token -> TokenRow] /\ \A t \in Token : token'[t].proof <= version
        /\ cached' \in {Null} \cup SUBSET Permission /\ made' \in Nat
    BY <1>4, <1>5, TypeFacts
  <2> QED BY <1>4, <1>5, <2>1, RowKept
<1>6. CASE AttemptFail(p)
  BY <1>0, <1>5, <1>6, NextStep DEF AttemptFail
<1>7. CASE CodeClear(p)
  BY <1>0, <1>5, <1>7, NextStep DEF CodeClear
<1>8. CASE AttemptClear(p)
  <2>1. PICK step \in {"issue", "otpSave"} : Goto(p, step)
    <3>1. Goto(p, IF req[p].counter = "login" THEN "issue" ELSE "otpSave")
      BY <1>8 DEF AttemptClear
    <3>2. CASE req[p].counter = "login"
      BY <3>1, <3>2
    <3>3. CASE req[p].counter # "login"
      BY <3>1, <3>3
    <3> QED BY <3>2, <3>3
  <2>2. SoundRequest([req[p] EXCEPT !.pc = step], version)
    <3>1. req[p].pc # "insert"
      BY <1>8 DEF AttemptClear
    <3> QED BY <3>1, GoesOn
  <2> QED BY <1>5, <1>8, <2>1, <2>2, NextStep
<1> QED BY <1>1, <1>2, <1>3, <1>6, <1>7, <1>8

LEMMA TokenTyped ==
    ASSUME Typed, NEW p \in Proc, UNCHANGED roleVars,
           RefreshRotate(p) \/ TokenIssue(p) \/ PermissionsForget(p) \/ Halt(p)
    PROVE  Typed'
<1>0. /\ version \in Nat /\ made \in Nat /\ req[p] \in Request /\ SoundRequest(req[p], version)
      /\ req[p].proof \in Nat /\ req[p].late \in BOOLEAN /\ (req[p].pc # "insert" => req[p].proof <= version)
  BY NextStep, TypeFacts DEF SoundRequest, Request
<1>1. ASSUME NEW r, SoundRequest(r, version), req' = [req EXCEPT ![p] = r],
             UNCHANGED <<user, version, changed, failures, guesses, made>>,
             token' \in [Token -> TokenRow], \A t \in Token : token'[t].proof <= version,
             cached' \in {Null} \cup SUBSET Permission, mishap' \subseteq Mishaps
      PROVE  Typed'
  <2>1. failures' \in [Counter -> 0..MaxAttempts] /\ guesses' \in [Counter -> Nat] /\ made' \in Nat
    BY <1>1, TypeFacts
  <2> QED BY <1>1, <2>1, RowKept
<1>2. CASE RefreshRotate(p)
  <2>1. /\ token' \in [Token -> TokenRow] /\ \A t \in Token : token'[t].proof <= version
        /\ cached' \in {Null} \cup SUBSET Permission /\ mishap' \subseteq Mishaps
    <3>1. CASE Exists
      <4>1. token' = [token EXCEPT ![req[p].token].status = "recent"] /\ req[p].token \in Token
        BY <1>0, <1>2, <3>1 DEF RefreshRotate, SoundRequest
      <4>2. cached' = cached /\ mishap' = mishap
        BY <1>2 DEF RefreshRotate, history
      <4> QED BY <4>1, <4>2, TypeFacts DEF TokenRow
    <3>2. CASE ~Exists
      BY <1>2, <3>2, TypeFacts DEF RefreshRotate, history
    <3> QED BY <3>1, <3>2
  <2>2. /\ req' = [req EXCEPT ![p] = [req[p] EXCEPT !.pc = "issue"]] /\ req[p].pc # "insert"
        /\ UNCHANGED <<user, version, changed, failures, guesses, made>>
    BY <1>2, NextStep DEF RefreshRotate, history
  <2>3. SoundRequest([req[p] EXCEPT !.pc = "issue"], version)
    BY <2>2, GoesOn
  <2> QED BY <1>1, <2>1, <2>2, <2>3
<1>3. CASE TokenIssue(p)
  <2>1. /\ token' \in [Token -> TokenRow] /\ \A t \in Token : token'[t].proof <= version
        /\ cached' \in {Null} \cup SUBSET Permission /\ mishap' \subseteq Mishaps
    <3>1. CASE Exists
      <4>1. PICK t \in Token : token' = [token EXCEPT ![t] = [status |-> "live", proof |-> req[p].proof,
                                                              late |-> req[p].late]]
        BY <1>3, <3>1 DEF TokenIssue
      <4>2. [status |-> "live", proof |-> req[p].proof, late |-> req[p].late] \in TokenRow
        BY <1>0 DEF TokenRow
      <4>3. cached' = cached /\ mishap' = mishap /\ req[p].pc = "issue"
        BY <1>3 DEF TokenIssue, history
      <4> QED BY <1>0, <4>1, <4>2, <4>3, TypeFacts
    <3>2. CASE ~Exists
      BY <1>3, <3>2, TypeFacts DEF TokenIssue, history
    <3> QED BY <3>1, <3>2
  <2>2. req[p].pc = "issue" /\ (Goto(p, "forget") \/ End(p)) /\ UNCHANGED <<user, version, changed, failures, guesses, made>>
    BY <1>3 DEF TokenIssue, history
  <2>3. SoundRequest([req[p] EXCEPT !.pc = "forget"], version) /\ SoundRequest(Idle, version)
    BY <1>0, <2>2, GoesOn, NextStep
  <2> QED BY <1>1, <2>1, <2>2, <2>3, NextStep
<1>4. CASE PermissionsForget(p)
  <2>1. /\ cached' = Null /\ End(p) /\ UNCHANGED <<user, version, changed, failures, guesses, made, token, mishap>>
    BY <1>4 DEF PermissionsForget, history
  <2> QED BY <1>0, <1>1, <2>1, NextStep, TypeFacts
<1>5. CASE Halt(p)
  <2>1. /\ mishap' \subseteq mishap \cup {"halfway"} /\ End(p)
        /\ UNCHANGED <<user, version, changed, failures, guesses, made, token, cached>>
    BY <1>5 DEF Halt
  <2>2. mishap' \subseteq Mishaps
    BY <2>1, TypeFacts DEF Mishaps
  <2> QED BY <1>0, <1>1, <2>1, <2>2, NextStep, TypeFacts
<1> QED BY <1>2, <1>3, <1>4, <1>5

\* A step of p that changes the row: the account may have been made, and is not removed.
LEMMA RowChanged ==
    ASSUME Typed, NEW p \in Proc, NEW r, SoundRequest(r, version'), req' = [req EXCEPT ![p] = r],
           UNCHANGED <<failures, token, cached, made, guesses, roleVars>>,
           user' \in User, version' \in {version, version + 1}, user'.password <= version',
           changed' \in 0..version', mishap' \subseteq Mishaps, Exists => Exists'
    PROVE  Typed'
<1>1. /\ version' \in Nat /\ version <= version' /\ failures' \in [Counter -> 0..MaxAttempts]
      /\ token' \in [Token -> TokenRow] /\ cached' \in {Null} \cup SUBSET Permission /\ made' \in Nat
      /\ guesses' \in [Counter -> Nat]
  BY TypeFacts
<1>2. \A t \in Token : token'[t].proof <= version'
  BY <1>1, TypeFacts DEF TokenRow
<1>3. UNCHANGED <<role, assignment, tx, guard>> /\ (~Exists' => assignment.status = "none")
  BY TypeFacts DEF roleVars
<1> QED BY <1>1, <1>2, <1>3, Assembled

LEMMA SavedTyped ==
    ASSUME Typed, NEW p \in Proc, req[p].pc \in {"insert", "userSave"}, CountPassword(p),
           user' = Saved(req[p])
    PROVE  /\ user' \in User /\ version' \in {version, version + 1} /\ user'.password <= version'
           /\ user'.status = req[p].entity.status /\ Exists' /\ req[p].proof <= version'
<1>1. req[p] \in Request /\ SoundRequest(req[p], version) /\ version \in Nat /\ user \in User /\ user.password <= version
  BY NextStep, TypeFacts
<1>2. /\ version' = (IF req[p].password THEN version + 1 ELSE version) /\ version' \in {version, version + 1}
      /\ req[p].password \in BOOLEAN /\ req[p].entity \in Columns
  BY <1>1 DEF CountPassword, Request
<1>3. user' \in User /\ user'.status = req[p].entity.status /\ user'.password <= version'
  <2> DEFINE password == IF req[p].password THEN version + 1 ELSE user.password
             otp == IF req[p].otp = "kept" THEN user.otp ELSE req[p].otp = "sent"
  <2>a. user.password \in Nat /\ user.otp \in BOOLEAN
    BY <1>1 DEF User
  <2>b. password \in Nat /\ password <= version'
    BY <1>1, <1>2, <2>a
  <2>c. otp \in BOOLEAN
    <3>1. CASE req[p].otp = "kept"
      BY <2>a, <3>1
    <3>2. CASE req[p].otp # "kept"
      BY <3>2
    <3> QED BY <3>1, <3>2
  <2>1. password \in Nat /\ password <= version' /\ otp \in BOOLEAN
    BY <2>b, <2>c
  <2>2. user' = [status |-> req[p].entity.status, role |-> req[p].entity.role, reset |-> req[p].entity.reset,
                 parent |-> req[p].entity.parent, password |-> password, otp |-> otp]
    BY DEF Saved
  <2> HIDE DEF password, otp
  <2> QED BY <1>2, <2>1, <2>2 DEF User, Columns
<1>4. Exists'
  BY <1>1, <1>3 DEF SoundRequest, Exists, Alive
<1>5. req[p].proof <= version'
  BY <1>1, <1>2 DEF SoundRequest, Request
<1> QED BY <1>2, <1>3, <1>4, <1>5

LEMMA SaveTyped ==
    ASSUME Typed, NEW p \in Proc, UNCHANGED roleVars, UserInsert(p) \/ UserSave(p) \/ OtpSave(p) \/ PasswordUpdate(p)
    PROVE  Typed'
<1>0. /\ UNCHANGED <<failures, token, cached, made, guesses>> /\ req[p] \in Request /\ SoundRequest(req[p], version)
      /\ version \in Nat /\ req[p].pc \in {"insert", "userSave", "otpSave", "passwordUpdate"}
  BY NextStep, TypeFacts DEF UserInsert, UserSave, OtpSave, PasswordUpdate
<1>1. ASSUME UNCHANGED <<user, version, changed, mishap>>, NEW r, SoundRequest(r, version), req' = [req EXCEPT ![p] = r]
      PROVE  Typed'
  <2>1. user' \in User /\ user'.password <= version' /\ changed' \in 0..version' /\ mishap' \subseteq Mishaps
    BY <1>1, TypeFacts
  <2>2. (Exists => Exists') /\ SoundRequest(r, version')
    BY <1>1 DEF Exists
  <2> QED BY <1>0, <1>1, <2>1, <2>2, RowChanged
<1>2. SoundRequest(Idle, version) /\ (End(p) => req' = [req EXCEPT ![p] = Idle])
  BY <1>0, NextStep
<1>3. ASSUME req[p].pc \in {"insert", "userSave"}, CountPassword(p), user' = Saved(req[p]), AfterSave(p),
             changed' = changed, mishap' \subseteq Mishaps
      PROVE  Typed'
  <2>1. /\ user' \in User /\ version' \in {version, version + 1} /\ user'.password <= version' /\ Exists'
        /\ req[p].proof <= version' /\ version' \in Nat
    BY <1>0, <1>3, SavedTyped
  <2>2. changed' \in 0..version'
    BY <1>3, <2>1, TypeFacts
  <2>3. PICK r : SoundRequest(r, version') /\ req' = [req EXCEPT ![p] = r]
    BY <1>3, <2>1, AfterSaveSound
  <2> QED BY <1>0, <1>3, <2>1, <2>2, <2>3, RowChanged
<1>4. CASE UserInsert(p)
  <2>1. CASE user.status = "none"
    BY <1>3, <1>4, <2>1, TypeFacts DEF UserInsert
  <2>2. CASE user.status # "none"
    BY <1>1, <1>2, <1>4, <2>2 DEF UserInsert
  <2> QED BY <2>1, <2>2
<1>5. CASE UserSave(p)
  <2>1. CASE Exists \/ req[p].password
    <3>1. mishap' \subseteq Mishaps
      <4>1. mishap' \subseteq mishap \cup {"stale"} \cup {"revived"}
        BY <1>5, <2>1 DEF UserSave
      <4> QED BY <4>1, TypeFacts DEF Mishaps
    <3> QED BY <1>3, <1>5, <2>1, <3>1 DEF UserSave
  <2>2. CASE ~(Exists \/ req[p].password)
    BY <1>1, <1>2, <1>5, <2>2 DEF UserSave
  <2> QED BY <2>1, <2>2
<1>6. CASE OtpSave(p)
  <2>1. CASE Exists
    <3>1. /\ user' = [user EXCEPT !.status = "active", !.role = req[p].read.role, !.otp = FALSE]
          /\ mishap' \subseteq mishap \cup {"stale"} /\ Goto(p, "issue") /\ UNCHANGED <<version, changed>>
          /\ req[p].pc = "otpSave"
      BY <1>6, <2>1 DEF OtpSave
    <3>2. req[p].read.role \in Role
      BY <1>0 DEF Request, Columns
    <3>3. user' \in User /\ user'.password <= version' /\ Exists'
      BY <3>1, <3>2, TypeFacts DEF User, Status, Exists
    <3>4. changed' \in 0..version' /\ mishap' \subseteq Mishaps /\ version' = version
      BY <3>1, TypeFacts DEF Mishaps
    <3>5. SoundRequest([req[p] EXCEPT !.pc = "issue"], version)
      BY <3>1, GoesOn
    <3> QED BY <1>0, <3>1, <3>3, <3>4, <3>5, NextStep, RowChanged
  <2>2. CASE ~Exists
    BY <1>1, <1>2, <1>6, <2>2 DEF OtpSave
  <2> QED BY <2>1, <2>2
<1>7. CASE PasswordUpdate(p)
  <2>1. Goto(p, "signOut") /\ req[p].pc = "passwordUpdate" /\ mishap' = mishap
    BY <1>7 DEF PasswordUpdate
  <2>2. \A v \in Nat : version <= v => SoundRequest([req[p] EXCEPT !.pc = "signOut"], v)
    BY <2>1, GotoSound
  <2>3. req' = [req EXCEPT ![p] = [req[p] EXCEPT !.pc = "signOut"]]
    BY <2>1, NextStep
  <2>4. CASE Exists
    <3>1. /\ user' = [user EXCEPT !.password = version + 1,
                                  !.reset = IF req[p].entity.reset THEN FALSE ELSE user.reset]
          /\ version' = version + 1 /\ changed' = version + 1
      BY <1>7, <2>4 DEF PasswordUpdate
    <3>2. user' \in User /\ user'.password <= version' /\ Exists'
      <4>1. PICK reset \in BOOLEAN : user' = [user EXCEPT !.password = version + 1, !.reset = reset]
        <5>1. CASE req[p].entity.reset
          BY <3>1, <5>1
        <5>2. CASE ~req[p].entity.reset
          <6>1. user.reset \in BOOLEAN
            BY TypeFacts DEF User
          <6> QED BY <3>1, <5>2, <6>1
        <5> QED BY <5>1, <5>2
      <4>2. user \in User /\ version + 1 \in Nat
        BY TypeFacts
      <4>3. user' \in User /\ user'.password = version + 1 /\ user'.status = user.status
        BY <4>1, <4>2 DEF User
      <4>4. version' = version + 1
        BY <3>1
      <4> QED BY <1>0, <2>4, <4>3, <4>4 DEF Exists
    <3>3. /\ changed' \in 0..version' /\ mishap' \subseteq Mishaps /\ version' \in {version, version + 1}
          /\ SoundRequest([req[p] EXCEPT !.pc = "signOut"], version')
      BY <1>0, <2>1, <2>2, <3>1, TypeFacts
    <3> QED BY <1>0, <2>3, <3>2, <3>3, RowChanged
  <2>5. CASE ~Exists
    <3>1. SoundRequest([req[p] EXCEPT !.pc = "signOut"], version)
      BY <1>0, <2>2
    <3>2. UNCHANGED <<user, version, changed, mishap>>
      BY <1>7, <2>5 DEF PasswordUpdate
    <3> QED BY <1>1, <2>3, <3>1, <3>2
  <2> QED BY <2>4, <2>5
<1> QED BY <1>4, <1>5, <1>6, <1>7

\* The only step that touches other requests.
LEMMA SignOutTyped ==
    ASSUME Typed, NEW p \in Proc, UNCHANGED roleVars, SignOut(p)
    PROVE  Typed'
<1>1. /\ UNCHANGED <<user, failures, cached, made, version, changed, guesses, mishap>>
      /\ UNCHANGED <<role, assignment, tx, guard>>
  BY DEF SignOut, history, roleVars
<1>2. token' \in [Token -> TokenRow] /\ \A t \in Token : token'[t].proof <= version
  <2>1. token' = [t \in Token |-> IF token[t].status = "live" THEN [token[t] EXCEPT !.status = "recent"] ELSE token[t]]
    BY DEF SignOut
  <2>2. ASSUME NEW t \in Token PROVE token'[t] \in TokenRow /\ token'[t].proof <= version
    <3>1. token[t] \in TokenRow /\ token[t].proof <= version
      BY TypeFacts
    <3>2. CASE token[t].status = "live"
      <4>1. token'[t] = [token[t] EXCEPT !.status = "recent"]
        BY <2>1, <3>2
      <4> QED BY <3>1, <4>1 DEF TokenRow
    <3>3. CASE token[t].status # "live"
      BY <2>1, <3>1, <3>3
    <3> QED BY <3>2, <3>3
  <2> QED BY <2>1, <2>2
<1>3. ASSUME NEW q \in Proc PROVE SoundRequest(req'[q], version)
  <2>1. \/ req'[q] = [Idle EXCEPT !.pc = "forget"]
        \/ req'[q] = [req[q] EXCEPT !.late = TRUE]
        \/ req'[q] = req[q]
    BY DEF SignOut
  <2>2. SoundRequest([Idle EXCEPT !.pc = "forget"], version) /\ SoundRequest(req[q], version)
    BY IdleSound, PlainSound, TypeFacts
  <2>3. SoundRequest([req[q] EXCEPT !.late = TRUE], version)
    BY <2>2 DEF SoundRequest, Request
  <2> QED BY <2>1, <2>2, <2>3
<1>4. req' \in [Proc -> Request]
  <2>1. req' = [q \in Proc |-> req'[q]]
    BY DEF SignOut
  <2> QED BY <1>3, <2>1 DEF SoundRequest
<1>5. \A q \in Proc : req'[q].pc = "rotate" => req'[q].token \in Token
  BY <1>3 DEF SoundRequest
<1>6. AccountTypes'
  BY <1>1, <1>2, <1>4, <1>5, TypeFacts DEF AccountTypes, Mishaps
<1>7. TypeOK'
  BY <1>1, <1>6, TypeFacts DEF TypeOK, Typed
<1> QED BY <1>1, <1>3, <1>7, TypeFacts DEF Typed, Exists

\* The deletion takes the assignment with it.
LEMMA RemoveTyped ==
    ASSUME Typed, NEW p \in Proc, Remove(p)
    PROVE  Typed'
<1>1. /\ UNCHANGED <<failures, cached, made, version, changed, guesses, mishap, role, tx, guard>>
      /\ assignment' = NoAssignment /\ End(p)
  BY DEF Remove, UserRemove, history
<1>2. user' \in User /\ user'.password <= version
  <2>1. [NoUser EXCEPT !.status = "deleted"] \in User /\ [NoUser EXCEPT !.status = "deleted"].password = 0
    BY IdleSound DEF NoUser, User, Status
  <2> QED BY <2>1, TypeFacts DEF Remove, UserRemove
<1>3. token' \in [Token -> TokenRow] /\ \A t \in Token : token'[t].proof <= version
  <2>1. token' = [t \in Token |-> IF token[t].status = "unused" THEN token[t]
                                  ELSE [token[t] EXCEPT !.status = "revoked"]]
    BY DEF Remove, UserRemove
  <2>2. ASSUME NEW t \in Token PROVE token'[t] \in TokenRow /\ token'[t].proof <= version
    <3>1. token[t] \in TokenRow /\ token[t].proof <= version
      BY TypeFacts
    <3>2. CASE token[t].status # "unused"
      <4>1. token'[t] = [token[t] EXCEPT !.status = "revoked"]
        BY <2>1, <3>2
      <4> QED BY <3>1, <4>1 DEF TokenRow
    <3>3. CASE token[t].status = "unused"
      BY <2>1, <3>1, <3>3
    <3> QED BY <3>2, <3>3
  <2> QED BY <2>1, <2>2
<1>4. req' \in [Proc -> Request] /\ \A q \in Proc : SoundRequest(req'[q], version)
  BY <1>1, NextStep, IdleSound, TypeFacts
<1>5. \A q \in Proc : req'[q].pc = "rotate" => req'[q].token \in Token
  BY <1>4 DEF SoundRequest
<1>6. AccountTypes'
  BY <1>1, <1>2, <1>3, <1>4, <1>5, TypeFacts DEF AccountTypes, Mishaps
<1>7. assignment' \in Assignment /\ assignment'.status = "none"
  BY <1>1, IdleSound DEF NoAssignment
<1>8. TypeOK'
  BY <1>1, <1>6, <1>7, TypeFacts DEF TypeOK, Typed
<1> QED BY <1>1, <1>4, <1>7, <1>8, TypeFacts DEF Typed, Exists

LEMMA ClockTyped ==
    ASSUME Typed, UNCHANGED roleVars, Clock
    PROVE  Typed'
<1>1. /\ UNCHANGED <<user, cached, req, made, version, changed, mishap, role, assignment, tx, guard>>
      /\ failures' \in [Counter -> 0..MaxAttempts] /\ guesses' \in [Counter -> Nat]
      /\ token' \in [Token -> TokenRow] /\ \A t \in Token : token'[t].proof <= version
  <2>1. ASSUME NEW c \in Counter, AttemptsExpire(c)
        PROVE  /\ failures' \in [Counter -> 0..MaxAttempts] /\ guesses' \in [Counter -> Nat]
               /\ UNCHANGED <<user, cached, req, made, version, changed, mishap, token>>
    BY <2>1, TypeFacts, BoundsAssumption DEF AttemptsExpire
  <2>2. ASSUME NEW t \in Token, TokenAge(t)
        PROVE  /\ token' \in [Token -> TokenRow] /\ \A x \in Token : token'[x].proof <= version
               /\ UNCHANGED <<user, cached, req, made, version, changed, mishap, failures, guesses>>
    BY <2>2, TypeFacts DEF TokenAge, TokenRow, history
  <2> QED BY <2>1, <2>2, TypeFacts DEF Clock, roleVars
<1>2. AccountTypes'
  BY <1>1, TypeFacts DEF AccountTypes, Mishaps, SoundRequest
<1>3. TypeOK'
  BY <1>1, <1>2, TypeFacts DEF TypeOK, Typed
<1> QED BY <1>1, <1>3, TypeFacts DEF Typed, Exists

(***************************************************************************)
(* Types: roles, transactions and checks                                   *)
(***************************************************************************)
\* A step of RbacService or its guard, put together.
LEMMA RbacAssembled ==
    ASSUME Typed, UNCHANGED <<failures, token, req, changed, guesses>>, made' \in Nat,
           user' \in User, version' \in {version, version + 1}, user'.password <= version',
           cached' \in {Null} \cup SUBSET Permission, mishap' \subseteq Mishaps,
           role' \in [RoleId -> {Null} \cup SUBSET Permission], assignment' \in Assignment,
           assignment'.status # "none" => assignment'.role \in RoleId /\ role'[assignment'.role] # Null,
           tx' \in [Tx -> Transaction], \A a \in Tx : SoundTx(tx'[a]), guard' \in [Guard -> Check],
           ~Exists' => assignment'.status = "none"
    PROVE  Typed'
<1>1. version' \in Nat /\ version <= version'
  BY TypeFacts
<1>2. ASSUME NEW p \in Proc PROVE SoundRequest(req'[p], version')
  <2>1. req'[p] = req[p] /\ SoundRequest(req[p], version) /\ req[p].proof \in Nat
    BY TypeFacts DEF Request
  <2> QED BY <1>1, <2>1, TypeFacts DEF SoundRequest
<1>3. \A t \in Token : token'[t].proof <= version'
  BY <1>1, TypeFacts DEF TokenRow
<1>4. changed' \in 0..version'
  BY <1>1, TypeFacts
<1>5. AccountTypes'
  BY <1>1, <1>2, <1>3, <1>4, TypeFacts DEF AccountTypes, Mishaps, SoundRequest
<1>6. TypeOK'
  BY <1>5 DEF TypeOK, SoundTx
<1> QED BY <1>2, <1>6 DEF Typed

\* ... that leaves the account alone.
LEMMA AccountKept ==
    ASSUME Typed, UNCHANGED <<user, failures, token, req, version, changed, guesses>>, made' \in Nat,
           cached' \in {Null} \cup SUBSET Permission, mishap' \subseteq Mishaps,
           role' \in [RoleId -> {Null} \cup SUBSET Permission], assignment' = assignment,
           assignment.status # "none" => role'[assignment.role] # Null,
           tx' \in [Tx -> Transaction], \A a \in Tx : SoundTx(tx'[a]), guard' \in [Guard -> Check]
    PROVE  Typed'
<1>1. user' \in User /\ version' \in {version, version + 1} /\ user'.password <= version'
  BY TypeFacts
<1>2. assignment' \in Assignment /\ (assignment'.status # "none" => assignment'.role \in RoleId /\ role'[assignment'.role] # Null)
  BY TypeFacts
<1>3. ~Exists' => assignment'.status = "none"
  BY TypeFacts DEF Exists
<1> QED BY <1>1, <1>2, <1>3, RbacAssembled

LEMMA RoleTyped ==
    ASSUME Typed, NEW r \in RoleId, RoleCreate(r) \/ RoleDelete(r), made' \in Nat
    PROVE  Typed'
<1>1. /\ UNCHANGED <<user, failures, token, req, version, changed, guesses, cached, mishap, assignment, tx, guard>>
      /\ role' \in [RoleId -> {Null} \cup SUBSET Permission]
  BY TypeFacts DEF RoleCreate, RoleDelete, history
<1>2. assignment.status # "none" => role'[assignment.role] # Null
  <2>1. CASE RoleCreate(r)
    <3>1. PICK permissions \in SUBSET Permission : role' = [role EXCEPT ![r] = permissions]
      BY <2>1 DEF RoleCreate
    <3> QED BY <3>1, TypeFacts, PermissionAssumption
  <2>2. CASE RoleDelete(r)
    BY <2>2, TypeFacts DEF RoleDelete
  <2> QED BY <2>1, <2>2
<1> QED BY <1>1, <1>2, AccountKept, TypeFacts

LEMMA BeginTyped ==
    ASSUME Typed, NEW a \in Tx, NEW t, SoundTx(t), TxBegin(a, t), made' \in Nat
    PROVE  Typed'
<1>1. /\ UNCHANGED <<user, failures, token, req, version, changed, guesses, cached, mishap, role, assignment, guard>>
      /\ tx' = [tx EXCEPT ![a] = t]
  BY DEF TxBegin, history
<1>2. tx' \in [Tx -> Transaction] /\ \A b \in Tx : SoundTx(tx'[b])
  BY <1>1, TypeFacts DEF SoundTx
<1> QED BY <1>1, <1>2, AccountKept, TypeFacts

\* Every transaction begins sound.
LEMMA TransactionTyped ==
    ASSUME Typed, NEW a \in Tx, made' \in Nat,
           \/ \E r \in RoleId : RoleUpdate(a, r) \/ AdminCreate(a, r) \/ AdminAssign(a, r)
           \/ AdminRevoke(a)
    PROVE  Typed'
<1>0. /\ NoTx \in Transaction /\ NoColumns \in Columns /\ NoAssignment \in Assignment
      /\ ColumnsOf(user) \in Columns /\ assignment \in Assignment /\ "admin" \in Role /\ Primary \subseteq Role
      /\ ColumnsOf(user).status = user.status
  BY IdleSound, TypeFacts DEF Role, ColumnsOf
<1>1. ASSUME NEW r \in RoleId, RoleUpdate(a, r)
      PROVE  Typed'
  <2>1. PICK permissions \in SUBSET Permission :
            TxBegin(a, [NoTx EXCEPT !.kind = "role", !.id = r, !.permissions = permissions])
    BY <1>1 DEF RoleUpdate
  <2>2. SoundTx([NoTx EXCEPT !.kind = "role", !.id = r, !.permissions = permissions])
    BY <1>0 DEF SoundTx, Transaction
  <2> QED BY <2>1, <2>2, BeginTyped
<1>2. ASSUME NEW r \in RoleId, AdminCreate(a, r)
      PROVE  Typed'
  <2> DEFINE draft == [NoColumns EXCEPT !.status = "active", !.role = "admin"]
             drafted == [NoAssignment EXCEPT !.status = "active", !.role = r]
  <2>1. draft \in Columns /\ Alive(draft.status) /\ draft.role = "admin"
    BY <1>0 DEF Columns, Status, Alive
  <2>2. drafted \in Assignment /\ drafted.role = r /\ drafted.status = "active"
    BY <1>0 DEF Assignment, Held
  <2>3. TxBegin(a, [NoTx EXCEPT !.kind = "create", !.draft = draft, !.drafted = drafted])
    BY <1>2 DEF AdminCreate
  <2> HIDE DEF draft, drafted
  <2>4. SoundTx([NoTx EXCEPT !.kind = "create", !.draft = draft, !.drafted = drafted])
    BY <1>0, <2>1, <2>2 DEF SoundTx, Transaction
  <2> QED BY <2>3, <2>4, BeginTyped
<1>3. ASSUME NEW r \in RoleId, AdminAssign(a, r)
      PROVE  Typed'
  <2> DEFINE previous == IF assignment.previous = Null /\ user.role \in Primary THEN user.role ELSE assignment.previous
             found == ColumnsOf(user)
             draft == [ColumnsOf(user) EXCEPT !.role = "admin"]
             drafted == [status |-> "active", role |-> r, previous |-> previous]
             held == assignment.status
  <2>1. draft \in Columns /\ Alive(draft.status) /\ draft.role = "admin" /\ found \in Columns
    BY <1>0, <1>3 DEF Columns, Alive, AdminAssign, Exists
  <2>2. drafted \in Assignment /\ drafted.role = r /\ drafted.status = "active" /\ held \in Held
    BY <1>0 DEF Assignment, Held
  <2>3. TxBegin(a, [NoTx EXCEPT !.kind = "assign", !.found = found, !.draft = draft, !.held = held, !.drafted = drafted])
    BY <1>3 DEF AdminAssign
  <2> HIDE DEF found, draft, drafted, held
  <2>4. SoundTx([NoTx EXCEPT !.kind = "assign", !.found = found, !.draft = draft, !.held = held, !.drafted = drafted])
    BY <1>0, <2>1, <2>2 DEF SoundTx, Transaction
  <2> QED BY <2>3, <2>4, BeginTyped
<1>4. CASE AdminRevoke(a)
  <2> DEFINE previous == IF assignment.previous = Null THEN "student" ELSE assignment.previous
             found == ColumnsOf(user)
             draft == [ColumnsOf(user) EXCEPT !.role = previous]
             drafted == [assignment EXCEPT !.status = "revoked"]
  <2>1. Exists /\ assignment.status = "active"
    BY <1>4 DEF AdminRevoke
  <2>2. previous \in Primary
    BY <1>0, PrimaryAssumption DEF Assignment
  <2> HIDE DEF previous
  <2>3. draft \in Columns /\ Alive(draft.status) /\ draft.role # "admin" /\ found \in Columns
    BY <1>0, <2>1, <2>2, PrimaryAssumption DEF Columns, Alive, Exists
  <2>4. drafted \in Assignment /\ drafted.role \in RoleId /\ drafted.status = "revoked" /\ "active" \in Held
    BY <1>0, <2>1, TypeFacts DEF Assignment, Held
  <2>5. TxBegin(a, [NoTx EXCEPT !.kind = "revoke", !.found = found, !.held = "active", !.drafted = drafted,
                                !.draft = draft])
    BY <1>4 DEF AdminRevoke, previous
  <2> HIDE DEF found, draft, drafted
  <2>6. SoundTx([NoTx EXCEPT !.kind = "revoke", !.found = found, !.held = "active", !.drafted = drafted,
                             !.draft = draft])
    BY <1>0, <2>3, <2>4 DEF SoundTx, Transaction
  <2> QED BY <2>5, <2>6, BeginTyped
<1> QED BY <1>1, <1>2, <1>3, <1>4

LEMMA TxTyped ==
    ASSUME Typed, NEW a \in Tx, TxClear(a) \/ TxCommit(a) \/ TxAbort(a)
    PROVE  Typed'
<1>0. tx[a] \in Transaction /\ SoundTx(tx[a]) /\ NoTx \in Transaction /\ SoundTx(NoTx)
  BY IdleSound, TypeFacts
<1>1. CASE TxClear(a)
  <2>1. /\ UNCHANGED <<user, failures, token, req, made, version, changed, guesses, role, assignment, guard>>
        /\ tx' = [tx EXCEPT ![a].cleared = TRUE]
        /\ cached' \in {cached, Null} /\ mishap' \subseteq mishap \cup {"uncleared"}
    BY <1>1 DEF TxClear
  <2>2. SoundTx([tx[a] EXCEPT !.cleared = TRUE])
    BY <1>0 DEF SoundTx, Transaction
  <2>3. tx' = [tx EXCEPT ![a] = [tx[a] EXCEPT !.cleared = TRUE]]
    BY <2>1
  <2>4. tx' \in [Tx -> Transaction] /\ \A b \in Tx : SoundTx(tx'[b])
    BY <2>2, <2>3, TypeFacts DEF SoundTx
  <2>5. mishap' \subseteq Mishaps /\ cached' \in {Null} \cup SUBSET Permission
    BY <2>1, TypeFacts DEF Mishaps
  <2> QED BY <2>1, <2>4, <2>5, AccountKept, TypeFacts
<1>2. ASSUME tx' = [tx EXCEPT ![a] = NoTx]
      PROVE  tx' \in [Tx -> Transaction] /\ \A b \in Tx : SoundTx(tx'[b])
  BY <1>0, <1>2, TypeFacts
<1>3. CASE TxAbort(a)
  <2>1. UNCHANGED <<user, failures, token, req, made, version, changed, guesses, cached, mishap, role, assignment, guard>>
    BY <1>3 DEF TxAbort, accountVars
  <2>2. tx' \in [Tx -> Transaction] /\ \A b \in Tx : SoundTx(tx'[b])
    BY <1>2, <1>3 DEF TxAbort
  <2> QED BY <2>1, <2>2, AccountKept, TypeFacts
<1>4. CASE TxCommit(a)
  <2> DEFINE t == tx[a]
  <2>1. /\ CanCommit(t) /\ UNCHANGED <<failures, token, cached, req, made, changed, guesses, guard>>
        /\ tx' = [tx EXCEPT ![a] = NoTx]
    BY <1>4 DEF TxCommit
  <2>2. tx' \in [Tx -> Transaction] /\ \A b \in Tx : SoundTx(tx'[b])
    BY <1>2, <2>1
  <2>3. CASE t.kind = "role"
    <3>1. /\ role' = [role EXCEPT ![t.id] = t.permissions] /\ UNCHANGED <<user, assignment, version, mishap>>
          /\ t.id \in RoleId /\ t.permissions \in SUBSET Permission
      BY <1>0, <1>4, <2>3 DEF TxCommit, SoundTx, Transaction
    <3>2. /\ role' \in [RoleId -> {Null} \cup SUBSET Permission]
          /\ assignment.status # "none" => role'[assignment.role] # Null
      BY <3>1, TypeFacts, PermissionAssumption
    <3> QED BY <2>1, <2>2, <3>1, <3>2, AccountKept, TypeFacts
  <2>4. CASE t.kind # "role"
    <3>1. /\ t.kind \in {"create", "assign", "revoke"} /\ role[t.drafted.role] # Null /\ t.drafted.role \in RoleId
          /\ Alive(t.draft.status) /\ t.draft \in Columns /\ t.drafted \in Assignment
          /\ t.drafted.status \in {"active", "revoked"}
          /\ t.kind # "create" => ((t.held = "none") <=> (assignment.status = "none"))
      BY <1>0, <2>1, <2>4 DEF CanCommit, SoundTx, Transaction
    <3> DEFINE password == IF t.kind = "create" THEN version + 1 ELSE user.password
               status == IF t.kind = "assign" /\ t.held # "none" THEN assignment.status ELSE t.drafted.status
    <3>2. /\ user' = [status |-> t.draft.status, role |-> t.draft.role, reset |-> t.draft.reset,
                      parent |-> t.draft.parent, otp |-> user.otp, password |-> password]
          /\ version' = (IF t.kind = "create" THEN version + 1 ELSE version) /\ UNCHANGED role
          /\ assignment' = IF t.kind = "assign" /\ t.held # "none"
                           THEN [t.drafted EXCEPT !.status = assignment.status] ELSE t.drafted
          /\ mishap' \subseteq mishap \cup {"stale", "reassigned"}
      BY <1>4, <2>4 DEF TxCommit
    <3>3. password \in Nat /\ password <= version' /\ version' \in {version, version + 1} /\ user.otp \in BOOLEAN
      BY <3>2, TypeFacts DEF User
    <3> HIDE DEF password
    <3>4. user' \in User /\ user'.password <= version' /\ user'.status = t.draft.status
      BY <3>1, <3>2, <3>3 DEF User, Columns
    <3>5. assignment' \in Assignment /\ assignment'.role = t.drafted.role
      BY <3>1, <3>2, TypeFacts DEF Assignment
    <3>6. Exists' /\ mishap' \subseteq Mishaps
      BY <3>1, <3>2, <3>4, TypeFacts DEF Exists, Alive, Mishaps
    <3>7. /\ cached' \in {Null} \cup SUBSET Permission /\ guard' \in [Guard -> Check] /\ made' \in Nat
          /\ role' \in [RoleId -> {Null} \cup SUBSET Permission]
          /\ assignment'.role \in RoleId /\ role'[assignment'.role] # Null
      BY <2>1, <3>1, <3>2, <3>5, TypeFacts
    <3> QED BY <2>1, <2>2, <3>3, <3>4, <3>5, <3>6, <3>7, RbacAssembled
  <2> QED BY <2>3, <2>4
<1> QED BY <1>1, <1>3, <1>4

LEMMA CheckTyped ==
    ASSUME Typed,
           \/ \E g \in Guard : (CheckBegin(g) /\ made' \in Nat) \/ CheckRead(g) \/ CheckFill(g)
           \/ CacheExpire
    PROVE  Typed'
<1>1. ASSUME NEW g \in Guard, \/ CheckBegin(g) /\ made' \in Nat
                              \/ CheckRead(g)
                              \/ CheckFill(g)
      PROVE  /\ UNCHANGED <<user, failures, token, req, version, changed, guesses, role, assignment, tx>>
             /\ cached' \in {Null} \cup SUBSET Permission /\ mishap' \subseteq Mishaps /\ guard' \in [Guard -> Check]
             /\ made' \in Nat
  <2>1. guard[g] \in Check /\ NoCheck \in Check
    BY IdleSound, TypeFacts
  <2>2. CASE CheckBegin(g) /\ made' \in Nat
    <3>1. guard' = [guard EXCEPT ![g] = [guard[g] EXCEPT !.pc = "read"]]
      BY <2>2 DEF CheckBegin
    <3>2. [guard[g] EXCEPT !.pc = "read"] \in Check
      BY <2>1 DEF Check
    <3>3. UNCHANGED <<user, failures, token, req, version, changed, guesses, role, assignment, tx, cached, mishap>>
      BY <2>2 DEF CheckBegin, history
    <3> QED BY <2>2, <3>1, <3>2, <3>3, TypeFacts
  <2>3. CASE CheckRead(g)
    <3> DEFINE keys == IF assignment.status = "active" THEN Granted ELSE Null
    <3>1. guard' = [guard EXCEPT ![g] = [pc |-> "fill", keys |-> keys]]
      BY <2>3 DEF CheckRead
    <3>2. keys \in {Null} \cup SUBSET Permission
      BY TypeFacts DEF Granted
    <3> HIDE DEF keys
    <3>3. [pc |-> "fill", keys |-> keys] \in Check
      BY <3>2 DEF Check
    <3>4. UNCHANGED <<user, failures, token, req, version, changed, guesses, role, assignment, tx, cached, mishap, made>>
      BY <2>3 DEF CheckRead, accountVars
    <3> QED BY <3>1, <3>3, <3>4, TypeFacts
  <2>4. CASE CheckFill(g)
    <3>1. /\ cached' = guard[g].keys /\ mishap' \subseteq mishap \cup {"crossed"} /\ guard' = [guard EXCEPT ![g] = NoCheck]
          /\ UNCHANGED <<user, failures, token, req, version, changed, guesses, role, assignment, tx, made>>
      BY <2>4 DEF CheckFill
    <3> QED BY <2>1, <3>1, TypeFacts DEF Check, Mishaps
  <2> QED BY <1>1, <2>2, <2>3, <2>4
<1>2. CASE CacheExpire
  <2>1. /\ UNCHANGED <<user, failures, token, req, version, changed, guesses, role, assignment, tx, made, mishap, guard>>
        /\ cached' = Null
    BY <1>2 DEF CacheExpire, history, roleVars
  <2> QED BY <2>1, AccountKept, TypeFacts
<1>3. ASSUME NEW g \in Guard, \/ CheckBegin(g) /\ made' \in Nat
                              \/ CheckRead(g)
                              \/ CheckFill(g)
      PROVE  Typed'
  BY <1>1, <1>3, AccountKept, TypeFacts
<1> QED BY <1>2, <1>3

LEMMA InitTyped ==
    ASSUME Init
    PROVE  Typed
<1>1. /\ failures = [c \in Counter |-> 0] /\ cached = Null /\ made = 0 /\ version = 0 /\ changed = 0 /\ mishap = {}
      /\ guesses = [c \in Counter |-> 0] /\ req = [p \in Proc |-> Idle]
      /\ token = [t \in Token |-> [status |-> "unused", proof |-> 0, late |-> FALSE]]
      /\ assignment = NoAssignment /\ tx = [a \in Tx |-> NoTx] /\ guard = [g \in Guard |-> NoCheck]
      /\ role \in [RoleId -> {Null} \cup {{x} : x \in Permission}]
  BY DEF Init, AccountInit
<1>2. user \in User /\ user.password = 0
  <2>1. NoUser \in User /\ NoUser.password = 0
    BY IdleSound DEF NoUser
  <2>2. PICK status \in {"none", "pending", "active"} : user = NoUser \/ user = [NoUser EXCEPT !.status = status]
    BY DEF Init, AccountInit
  <2> QED BY <2>1, <2>2 DEF User, Status
<1>3. [status |-> "unused", proof |-> 0, late |-> FALSE] \in TokenRow
  BY DEF TokenRow
<1>4. role \in [RoleId -> {Null} \cup SUBSET Permission]
  BY <1>1
<1>5. /\ failures \in [Counter -> 0..MaxAttempts] /\ guesses \in [Counter -> Nat] /\ changed \in 0..version
  BY <1>1, BoundsAssumption
<1>6. /\ token \in [Token -> TokenRow] /\ \A t \in Token : token[t].proof <= version
  BY <1>1, <1>3
<1>7. /\ req \in [Proc -> Request] /\ \A p \in Proc : SoundRequest(req[p], version)
      /\ tx \in [Tx -> Transaction] /\ guard \in [Guard -> Check] /\ \A a \in Tx : SoundTx(tx[a])
  BY <1>1, IdleSound
<1>8. assignment \in Assignment /\ assignment.status = "none"
  BY <1>1, IdleSound DEF NoAssignment
<1>9. AccountTypes
  BY <1>1, <1>2, <1>5, <1>6, <1>7 DEF AccountTypes, SoundRequest
<1>10. TypeOK
  <2>1. \A a \in Tx : /\ tx[a].kind = "role" => tx[a].id \in RoleId
                      /\ tx[a].kind \in {"assign", "revoke", "create"} => tx[a].drafted.role \in RoleId
    BY <1>7 DEF SoundTx
  <2> QED BY <1>4, <1>7, <1>8, <1>9, <2>1 DEF TypeOK
<1> QED BY <1>7, <1>8, <1>10 DEF Typed

LEMMA NextTyped ==
    ASSUME Typed, [Next]_vars
    PROVE  Typed'
<1>0. made \in Nat /\ (made' = made + 1 => made' \in Nat)
  BY TypeFacts
<1>1. ASSUME NEW p \in Proc, AccountServe(p), UNCHANGED roleVars
      PROVE  Typed'
  BY <1>1, ServeTyped
<1>2. ASSUME NEW p \in Proc, AccountContinue(p), UNCHANGED roleVars
      PROVE  Typed'
  BY <1>2, AttemptTyped, TokenTyped, SaveTyped, SignOutTyped DEF AccountContinue
<1>3. ASSUME NEW p \in Proc, Remove(p)
      PROVE  Typed'
  BY <1>3, RemoveTyped
<1>4. CASE Clock /\ UNCHANGED roleVars
  BY <1>4, ClockTyped
<1>5. CASE RbacServe
  BY <1>0, <1>5, RoleTyped, TransactionTyped, CheckTyped DEF RbacServe, RbacRoute
<1>6. CASE RbacContinue
  BY <1>6, TxTyped, CheckTyped DEF RbacContinue
<1>7. CASE CacheExpire
  BY <1>7, CheckTyped
<1>8. CASE UNCHANGED vars
  <2>1. /\ UNCHANGED <<user, failures, token, req, version, changed, guesses, cached, made, mishap>>
        /\ UNCHANGED <<role, assignment, tx, guard>>
    BY <1>8 DEF vars, accountVars, roleVars
  <2> QED BY <2>1, AccountKept, TypeFacts
<1> QED BY <1>1, <1>2, <1>3, <1>4, <1>5, <1>6, <1>7, <1>8 DEF Next

\* In every reachable state of Accounts and Roles the variables hold what their rows, keys and
\* requests can hold, and the role of an assignment, revoked or not, exists.
THEOREM Types == Spec => []TypeOK
<1>1. Init => Typed
  BY InitTyped
<1>2. Typed /\ [Next]_vars => Typed'
  BY NextTyped
<1>3. Typed => TypeOK
  BY DEF Typed
<1> QED BY <1>1, <1>2, <1>3, PTL DEF Spec

(***************************************************************************)
(* What the steps leave alone                                              *)
(***************************************************************************)
LEMMA RouteKeeps ==
    ASSUME NEW p \in Proc, AccountServe(p)
    PROVE  /\ UNCHANGED <<user, failures, cached, history>>
           /\ token' = token \/ \E t \in Token : LogoutOne(p, t)
<1>1. ASSUME NEW t \in Token, LogoutOne(p, t)
      PROVE  UNCHANGED <<user, failures, cached, history>>
  BY <1>1 DEF LogoutOne
<1>2. CASE ~(\E t \in Token : LogoutOne(p, t))
  BY <1>2 DEF AccountServe, AccountRoute, CreateFind, ProfileFind, AcademicFind, RoleFind, LinkFind, SuspendFind,
         ActivateFind, DeleteFind, RegisterFind, OAuthFind, CodeFind, ForgotFind, AttemptBegin, RefreshFind,
         ChangeFind, ResetFind, LogoutAll
<1> QED BY <1>1, <1>2

LEMMA RbacKeeps ==
    ASSUME RbacServe \/ RbacContinue \/ CacheExpire
    PROVE  UNCHANGED <<failures, token, req, changed, guesses>> /\ mishap \subseteq mishap'
<1>1. CASE RbacServe
  BY <1>1 DEF RbacServe, RbacRoute, RoleCreate, RoleDelete, RoleUpdate, AdminCreate, AdminAssign, AdminRevoke,
         TxBegin, CheckBegin, history
<1>2. CASE RbacContinue
  <2>1. ASSUME NEW a \in Tx, TxClear(a)
        PROVE  UNCHANGED <<failures, token, req, changed, guesses>> /\ mishap \subseteq mishap'
    BY <2>1 DEF TxClear
  <2>2. ASSUME NEW a \in Tx, TxCommit(a)
        PROVE  UNCHANGED <<failures, token, req, changed, guesses>> /\ mishap \subseteq mishap'
    BY <2>2 DEF TxCommit
  <2>3. ASSUME NEW a \in Tx, TxAbort(a)
        PROVE  UNCHANGED <<failures, token, req, changed, guesses>> /\ mishap \subseteq mishap'
    BY <2>3 DEF TxAbort, accountVars
  <2>4. ASSUME NEW g \in Guard, CheckRead(g) \/ CheckFill(g)
        PROVE  UNCHANGED <<failures, token, req, changed, guesses>> /\ mishap \subseteq mishap'
    BY <2>4 DEF CheckRead, CheckFill, accountVars
  <2> QED BY <1>2, <2>1, <2>2, <2>3, <2>4 DEF RbacContinue
<1>3. CASE CacheExpire
  BY <1>3 DEF CacheExpire, history
<1> QED BY <1>1, <1>2, <1>3

(***************************************************************************)
(* Locked out                                                              *)
(***************************************************************************)
\* The counter in Redis counts.
Counted == "miscounted" \notin mishap => \A c \in Counter : guesses[c] = failures[c]

\* A step that counts neither.
LEMMA CountKept ==
    ASSUME Counted, UNCHANGED <<failures, guesses>>, mishap \subseteq mishap'
    PROVE  Counted'
BY DEF Counted

LEMMA CountStep ==
    ASSUME Typed, Counted, [Next]_vars
    PROVE  Counted'
<1>1. ASSUME NEW p \in Proc, AccountServe(p)
      PROVE  Counted'
  BY <1>1, RouteKeeps, CountKept DEF history
<1>2. ASSUME NEW c \in Counter, failures' = [failures EXCEPT ![c] = 0], guesses' = [guesses EXCEPT ![c] = 0],
             mishap' = mishap
      PROVE  Counted'
  BY <1>2, TypeFacts DEF Counted
<1>3. ASSUME NEW p \in Proc, AttemptFail(p)
      PROVE  Counted'
  <2> DEFINE c == req[p].counter
  <2>1. /\ failures' = [failures EXCEPT ![c] = req[p].count + 1] /\ guesses' = [guesses EXCEPT ![c] = guesses[c] + 1]
        /\ mishap' = IF failures[c] = req[p].count THEN mishap ELSE mishap \cup {"miscounted"}
    BY <1>3 DEF AttemptFail
  <2>2. c \in Counter
    BY NextStep DEF Request
  <2> QED BY <2>1, <2>2, TypeFacts DEF Counted
<1>4. ASSUME NEW p \in Proc, AttemptClear(p) \/ CodeClear(p)
      PROVE  Counted'
  <2>1. req[p].counter \in Counter /\ "otp" \in Counter
    BY NextStep DEF Request, Counter
  <2> QED BY <1>2, <1>4, <2>1 DEF AttemptClear, CodeClear
<1>5. ASSUME NEW p \in Proc, AccountContinue(p)
      PROVE  Counted'
  <2>1. CASE AttemptFail(p) \/ AttemptClear(p) \/ CodeClear(p)
    BY <1>3, <1>4, <2>1
  <2>2. CASE UserInsert(p) \/ UserSave(p) \/ OtpSave(p) \/ PasswordUpdate(p) \/ Halt(p)
    <3>1. UNCHANGED <<failures, guesses>> /\ mishap \subseteq mishap'
      BY <2>2 DEF UserInsert, UserSave, OtpSave, PasswordUpdate, Halt
    <3> QED BY <3>1, CountKept
  <2>3. CASE \/ AttemptWrong(p) \/ AttemptRefused(p) \/ AttemptRight(p) \/ RefreshRotate(p) \/ TokenIssue(p)
             \/ PermissionsForget(p) \/ SignOut(p)
    <3>1. UNCHANGED <<failures, guesses>> /\ mishap \subseteq mishap'
      BY <2>3 DEF AttemptWrong, AttemptRefused, AttemptRight, RefreshRotate, TokenIssue, PermissionsForget, SignOut,
             history
    <3> QED BY <3>1, CountKept
  <2> QED BY <1>5, <2>1, <2>2, <2>3 DEF AccountContinue
<1>6. ASSUME NEW p \in Proc, Remove(p)
      PROVE  Counted'
  BY <1>6, CountKept DEF Remove, UserRemove, history
<1>7. CASE Clock
  <2>1. ASSUME NEW c \in Counter, AttemptsExpire(c)
        PROVE  Counted'
    BY <1>2, <2>1 DEF AttemptsExpire
  <2>2. ASSUME NEW t \in Token, TokenAge(t)
        PROVE  Counted'
    BY <2>2, CountKept DEF TokenAge, history
  <2> QED BY <1>7, <2>1, <2>2 DEF Clock
<1>8. CASE RbacServe \/ RbacContinue \/ CacheExpire
  BY <1>8, RbacKeeps, CountKept
<1>9. CASE UNCHANGED vars
  BY <1>9, CountKept DEF vars, accountVars
<1> QED BY <1>1, <1>5, <1>6, <1>7, <1>8, <1>9 DEF Next

\* "Account temporarily locked due to too many failed attempts": after MaxAttempts failed logins or codes
\* there is no other before the counter is cleared, unless an attempt wrote a count that was read
\* before another one's was written.
THEOREM LockedOut == Spec => []LockedOutUnlessMiscounted
<1>1. Init => Typed /\ Counted
  <2>1. ASSUME Init PROVE Counted
    BY <2>1 DEF Init, AccountInit, Counted
  <2> QED BY <2>1, InitTyped
<1>2. Typed /\ Counted /\ [Next]_vars => Typed' /\ Counted'
  BY NextTyped, CountStep
<1>3. Typed /\ Counted => LockedOutUnlessMiscounted
  BY TypeFacts, BoundsAssumption DEF Counted, LockedOutUnlessMiscounted
<1> QED BY <1>1, <1>2, <1>3, PTL DEF Spec

(***************************************************************************)
(* The administrator and his role                                          *)
(***************************************************************************)
\* A step that changes neither.
LEMMA AssignmentKept ==
    ASSUME Typed, AssignedIsAdmin, UNCHANGED assignment, mishap \subseteq mishap',
           \/ "stale" \notin mishap' => (user'.role = "admin" <=> user.role = "admin")
           \/ ~Exists
    PROVE  AssignedIsAdmin'
BY TypeFacts DEF AssignedIsAdmin

LEMMA AssignedStep ==
    ASSUME Typed, AssignedIsAdmin, [Next]_vars
    PROVE  AssignedIsAdmin'
<1>1. ASSUME NEW p \in Proc, AccountServe(p), UNCHANGED roleVars
      PROVE  AssignedIsAdmin'
  BY <1>1, RouteKeeps, AssignmentKept DEF history, roleVars
<1>2. ASSUME NEW p \in Proc, AccountContinue(p), UNCHANGED roleVars
      PROVE  AssignedIsAdmin'
  <2>0. assignment' = assignment
    BY <1>2 DEF roleVars
  <2>1. CASE UserInsert(p)
    BY <2>0, <2>1, AssignmentKept DEF UserInsert, Exists
  <2>2. CASE UserSave(p)
    <3>1. mishap \subseteq mishap'
      BY <2>2 DEF UserSave
    <3>2. CASE "stale" \notin mishap' /\ Exists
      <4>1. user' = Saved(req[p]) /\ ~IsStale(p) /\ req[p].pc = "userSave"
        BY <2>2, <3>2 DEF UserSave
      <4>2. req[p].read.role = user.role /\ (req[p].entity.role = "admin" <=> req[p].read.role = "admin")
        BY <4>1, NextStep DEF IsStale, ColumnsOf, SoundRequest
      <4>3. user'.role = req[p].entity.role
        BY <4>1 DEF Saved
      <4> QED BY <2>0, <3>1, <4>2, <4>3, AssignmentKept
    <3>3. CASE "stale" \in mishap' \/ ~Exists
      BY <2>0, <3>1, <3>3, AssignmentKept
    <3> QED BY <3>2, <3>3
  <2>3. CASE OtpSave(p)
    <3>1. mishap \subseteq mishap'
      BY <2>3 DEF OtpSave
    <3>2. "stale" \notin mishap' /\ Exists => user'.role = user.role
      <4>1. ASSUME "stale" \notin mishap', Exists
            PROVE  user'.role = user.role
        <5>1. user' = [user EXCEPT !.status = "active", !.role = req[p].read.role, !.otp = FALSE] /\ ~IsStale(p)
          BY <2>3, <4>1 DEF OtpSave
        <5> QED BY <5>1, TypeFacts DEF IsStale, ColumnsOf, User
      <4> QED BY <4>1
    <3> QED BY <2>0, <3>1, <3>2, AssignmentKept
  <2>4. CASE PasswordUpdate(p)
    <3>1. mishap' = mishap /\ user'.role = user.role
      <4>1. CASE Exists
        BY <2>4, <4>1, TypeFacts DEF PasswordUpdate, User
      <4>2. CASE ~Exists
        BY <2>4, <4>2 DEF PasswordUpdate
      <4>3. mishap' = mishap
        BY <2>4 DEF PasswordUpdate
      <4> QED BY <4>1, <4>2, <4>3
    <3> QED BY <2>0, <3>1, AssignmentKept
  <2>5. CASE ~(UserInsert(p) \/ UserSave(p) \/ OtpSave(p) \/ PasswordUpdate(p))
    <3>1. user' = user /\ mishap \subseteq mishap'
      BY <1>2, <2>5 DEF AccountContinue, AttemptWrong, AttemptRefused, AttemptRight, AttemptFail, AttemptClear, CodeClear,
             RefreshRotate, TokenIssue, PermissionsForget, SignOut, Halt, history
    <3> QED BY <2>0, <3>1, AssignmentKept
  <2> QED BY <2>1, <2>2, <2>3, <2>4, <2>5
<1>3. ASSUME NEW p \in Proc, Remove(p)
      PROVE  AssignedIsAdmin'
  BY <1>3, IdleSound DEF Remove, AssignedIsAdmin, NoAssignment
<1>4. CASE Clock /\ UNCHANGED roleVars
  <2>1. user' = user /\ mishap' = mishap /\ assignment' = assignment
    BY <1>4 DEF Clock, AttemptsExpire, TokenAge, history, roleVars
  <2> QED BY <2>1, AssignmentKept
<1>5. ASSUME NEW a \in Tx, TxCommit(a)
      PROVE  AssignedIsAdmin'
  <2> DEFINE t == tx[a]
  <2>1. CASE t.kind = "role"
    BY <1>5, <2>1, AssignmentKept DEF TxCommit
  <2>2. CASE t.kind # "role"
    <3>1. /\ t.kind \in {"create", "assign", "revoke"} /\ SoundTx(t) /\ CanCommit(t) /\ user'.role = t.draft.role
          /\ assignment' = IF t.kind = "assign" /\ t.held # "none"
                           THEN [t.drafted EXCEPT !.status = assignment.status] ELSE t.drafted
          /\ t.kind = "assign" /\ assignment.status = "revoked" => "reassigned" \in mishap'
      BY <1>5, <2>2, TypeFacts DEF TxCommit, CanCommit
    <3>2. CASE t.kind # "assign"
      BY <3>1, <3>2 DEF SoundTx, AssignedIsAdmin
    <3>3. CASE t.kind = "assign"
      <4>1. assignment'.status = (IF t.held # "none" THEN assignment.status ELSE "active") /\ user'.role = "admin"
        BY <3>1, <3>3 DEF SoundTx, Transaction, Assignment
      <4>2. assignment.status \in Held
        BY TypeFacts DEF Assignment
      <4> QED BY <3>1, <3>3, <4>1, <4>2 DEF AssignedIsAdmin, CanCommit, Held
    <3> QED BY <3>2, <3>3
  <2> QED BY <2>1, <2>2
<1>6. CASE RbacServe \/ CacheExpire \/ (RbacContinue /\ ~\E a \in Tx : TxCommit(a))
  <2>1. user' = user /\ assignment' = assignment
    BY <1>6 DEF RbacServe, RbacRoute, RoleCreate, RoleDelete, RoleUpdate, AdminCreate, AdminAssign, AdminRevoke,
           TxBegin, CheckBegin, RbacContinue, TxClear, TxAbort, CheckRead, CheckFill, accountVars, CacheExpire, roleVars
  <2> QED BY <1>6, <2>1, RbacKeeps, AssignmentKept
<1>7. CASE UNCHANGED vars
  BY <1>7, AssignmentKept DEF vars, accountVars, roleVars
<1> QED BY <1>1, <1>2, <1>3, <1>4, <1>5, <1>6, <1>7 DEF Next, RbacContinue

\* 'Cannot mutate admin accounts through this endpoint', and the revocation: who is assigned a role is
\* an admin and whose assignment is revoked is none, unless a stale save of the account or an
\* assignment after a revocation came between.
THEOREM Assigned == Spec => []AssignedIsAdmin
<1>1. Init => Typed /\ AssignedIsAdmin
  <2>1. ASSUME Init PROVE AssignedIsAdmin
    BY <2>1 DEF Init, NoAssignment, AssignedIsAdmin
  <2> QED BY <2>1, InitTyped
<1>2. Typed /\ AssignedIsAdmin /\ [Next]_vars => Typed' /\ AssignedIsAdmin'
  BY NextTyped, AssignedStep
<1> QED BY <1>1, <1>2, PTL DEF Spec

(***************************************************************************)
(* Signed out                                                              *)
(***************************************************************************)
\* The password in force was not set before the last change, ...
Kept == Exists => user.password >= changed
\* ... and while nobody is still to be signed out, who has a token, or is about to be given one,
\* knew that password or is late.
Clean == "halfway" \notin mishap /\ \A p \in Proc : req[p].pc # "signOut"
Bearer(r) ==
    \/ r.pc \in {"clear", "otpSave", "rotate", "issue"}
    \/ r.pc \in {"insert", "userSave"} /\ r.then = "issue"
Knows(r) == Bearer(r) /\ ~r.late => r.proof >= changed
TokensKnow == \A t \in Token : token[t].status = "live" /\ ~token[t].late => token[t].proof >= changed

SignedInv == Kept /\ (Clean => TokensKnow /\ \A p \in Proc : Knows(req[p]))

\* What p goes on with, by what it went on with before.
LEMMA KnowsStep ==
    ASSUME Typed, SignedInv, NEW p \in Proc, NEW r, req' = [req EXCEPT ![p] = r],
           changed' = changed, Kept', mishap \subseteq mishap', req[p].pc # "signOut" \/ "halfway" \in mishap',
           Clean => Knows(r), Clean => TokensKnow'
    PROVE  SignedInv'
<1>1. ASSUME Clean'
      PROVE  TokensKnow' /\ \A q \in Proc : Knows(req[q])'
  <2>1. \A q \in Proc : req'[q] = IF q = p THEN r ELSE req[q]
    BY TypeFacts
  <2>2. Clean
    BY <1>1, <2>1 DEF Clean
  <2>3. ASSUME NEW q \in Proc PROVE Knows(req[q])'
    BY <2>1, <2>2 DEF SignedInv, Knows, Bearer
  <2> QED BY <2>2, <2>3
<1> QED BY <1>1 DEF SignedInv

\* ... when he bears nothing.
LEMMA EmptyHanded ==
    ASSUME NEW r, r.pc \notin {"clear", "otpSave", "rotate", "issue"},
           r.pc \in {"insert", "userSave"} => r.then # "issue"
    PROVE  Knows(r)
BY DEF Knows, Bearer

LEMMA KeptStep ==
    ASSUME Typed, Kept, changed' = changed,
           Exists' => (user'.password = user.password /\ Exists) \/ user'.password = version + 1
    PROVE  Kept'
BY TypeFacts DEF Kept

\* Who is served knows the password in force, or shows a token; or he is not given one.
LEMMA RouteKnows ==
    ASSUME Typed, SignedInv, NEW p \in Proc, AccountServe(p), ~\E t \in Token : LogoutOne(p, t)
    PROVE  \E r : Begin(p, r) /\ (Clean => Knows(r))
<1>1. ASSUME NEW e \in Columns, NEW sets \in BOOLEAN
      PROVE  /\ Knows(Found(e)) /\ Knows([Found(e) EXCEPT !.password = sets])
             /\ Knows([Found(e) EXCEPT !.password = TRUE, !.otp = "cleared"])
             /\ Knows([Found(e) EXCEPT !.otp = "sent", !.then = "otpClear"])
  <2>0. ASSUME NEW r, Saves(r, e, 0), r.then # "issue"
        PROVE  Knows(r)
    BY <2>0, EmptyHanded DEF Saves
  <2>1. /\ Saves(Found(e), e, 0) /\ Found(e).then = "idle"
        /\ Saves([Found(e) EXCEPT !.password = sets], e, 0) /\ [Found(e) EXCEPT !.password = sets].then = "idle"
        /\ Saves([Found(e) EXCEPT !.password = TRUE, !.otp = "cleared"], e, 0)
        /\ [Found(e) EXCEPT !.password = TRUE, !.otp = "cleared"].then = "idle"
        /\ Saves([Found(e) EXCEPT !.otp = "sent", !.then = "otpClear"], e, 0)
        /\ [Found(e) EXCEPT !.otp = "sent", !.then = "otpClear"].then = "otpClear"
    <3>1. 0 \in Nat
      OBVIOUS
    <3> QED BY <3>1, FoundShapes
  <2>2. Knows(Found(e)) /\ Knows([Found(e) EXCEPT !.password = sets])
    BY <2>0, <2>1
  <2>3. Knows([Found(e) EXCEPT !.password = TRUE, !.otp = "cleared"])
    BY <2>0, <2>1
  <2>4. Knows([Found(e) EXCEPT !.otp = "sent", !.then = "otpClear"])
    BY <2>0, <2>1
  <2> QED BY <2>2, <2>3, <2>4
<1>2. ASSUME NEW e \in Columns
      PROVE  /\ Knows([Idle EXCEPT !.pc = "insert", !.password = TRUE, !.entity = e])
             /\ Knows([Idle EXCEPT !.pc = "passwordUpdate", !.entity = e])
             /\ Knows([Idle EXCEPT !.pc = "passwordUpdate"]) /\ Knows([Idle EXCEPT !.pc = "remove"])
             /\ Knows([Idle EXCEPT !.pc = "signOut"])
             /\ \A c : \A n : Knows([Idle EXCEPT !.pc = "attempt", !.counter = c, !.count = n])
  BY DEF Idle, Knows, Bearer
<1>3. /\ NoColumns \in Columns /\ [NoColumns EXCEPT !.reset = TRUE] \in Columns
      /\ \A given \in Role : [NoColumns EXCEPT !.status = "active", !.role = given] \in Columns
      /\ [NoColumns EXCEPT !.status = "active"] \in Columns
      /\ ColumnsOf(user) \in Columns
      /\ \A status \in {user.status, "active", "suspended"} : [ColumnsOf(user) EXCEPT !.status = status] \in Columns
      /\ \A given \in Primary : [ColumnsOf(user) EXCEPT !.role = given] \in Columns
      /\ [ColumnsOf(user) EXCEPT !.parent = TRUE] \in Columns /\ [ColumnsOf(user) EXCEPT !.reset = TRUE] \in Columns
  BY IdleSound, TypeFacts DEF NoColumns, Columns, Status, Role, ColumnsOf
<1>4. CASE ProfileFind(p)
  <2>1. PICK status \in {user.status, "active", "suspended"}, sets \in BOOLEAN :
            Begin(p, [Found([ColumnsOf(user) EXCEPT !.status = status]) EXCEPT !.password = sets])
    BY <1>4 DEF ProfileFind
  <2> QED BY <1>1, <1>3, <2>1
<1>5. CASE \/ AcademicFind(p) \/ RoleFind(p) \/ LinkFind(p) \/ SuspendFind(p) \/ ActivateFind(p) \/ CodeFind(p)
           \/ ForgotFind(p)
  <2>1. \/ \E e \in Columns : Begin(p, Found(e))
        \/ Begin(p, [Found(ColumnsOf(user)) EXCEPT !.otp = "sent", !.then = "otpClear"])
    BY <1>3, <1>5 DEF AcademicFind, RoleFind, LinkFind, SuspendFind, ActivateFind, CodeFind, ForgotFind
  <2>2. TRUE \in BOOLEAN
    OBVIOUS
  <2> QED BY <1>1, <1>3, <2>1, <2>2
<1>6. CASE CreateFind(p)
  BY <1>2, <1>3, <1>6 DEF CreateFind
<1>7. CASE \/ DeleteFind(p) \/ ChangeFind(p) \/ ResetFind(p) \/ LogoutAll(p) \/ \E c \in Counter : AttemptBegin(p, c)
  BY <1>2, <1>3, <1>7 DEF DeleteFind, ChangeFind, ResetFind, LogoutAll, AttemptBegin
<1>8. CASE RegisterFind(p)
  <2>1. \/ Begin(p, [Idle EXCEPT !.pc = "insert", !.password = TRUE, !.entity = [NoColumns EXCEPT !.status = "active"]])
        \/ Begin(p, [Found([ColumnsOf(user) EXCEPT !.status = "active"]) EXCEPT !.password = TRUE, !.otp = "cleared"])
    BY <1>8 DEF RegisterFind
  <2>2. TRUE \in BOOLEAN
    OBVIOUS
  <2> QED BY <1>1, <1>2, <1>3, <2>1, <2>2
<1>9. CASE OAuthFind(p)
  <2>1. CASE user.status = "none"
    <3> DEFINE r == [Idle EXCEPT !.pc = "insert", !.password = TRUE, !.then = "issue", !.proof = version + 1,
                                 !.entity = [NoColumns EXCEPT !.status = "active"]]
    <3>1. Begin(p, r)
      BY <1>9, <2>1 DEF OAuthFind
    <3>2. r.proof = version + 1
      BY DEF Idle
    <3> HIDE DEF r
    <3> QED BY <3>1, <3>2, TypeFacts DEF Knows
  <2>2. CASE user.status # "none"
    <3> DEFINE a == [Found(ColumnsOf(user)) EXCEPT !.then = "issue", !.proof = user.password]
               b == [Idle EXCEPT !.pc = "issue", !.proof = user.password]
    <3>1. Begin(p, a) \/ Begin(p, b)
      BY <1>9, <2>2 DEF OAuthFind
    <3>2. a.proof = user.password /\ b.proof = user.password
      BY DEF Found, Idle
    <3>3. user.password >= changed
      BY <1>9, <2>2 DEF OAuthFind, SignedInv, Kept, Exists
    <3> HIDE DEF a, b
    <3> QED BY <3>1, <3>2, <3>3 DEF Knows
  <2> QED BY <2>1, <2>2
<1>10. CASE \E t \in Token : RefreshFind(p, t)
  <2>1. PICK t \in Token : RefreshFind(p, t)
    BY <1>10
  <2> DEFINE pc == IF token[t].status = "live" THEN "rotate" ELSE "issue"
             late == token[t].late \/ token[t].status = "recent"
             r == [Idle EXCEPT !.pc = pc, !.token = t, !.proof = token[t].proof, !.late = late]
  <2>2. Begin(p, r) /\ token[t].status \in {"live", "recent"}
    BY <2>1 DEF RefreshFind
  <2>3. r.proof = token[t].proof /\ r.late = late
    BY DEF Idle
  <2> HIDE DEF r
  <2>4. ASSUME Clean PROVE Knows(r)
    BY <2>2, <2>3, <2>4 DEF SignedInv, TokensKnow, Knows
  <2> QED BY <2>2, <2>4
<1> QED BY <1>4, <1>5, <1>6, <1>7, <1>8, <1>9, <1>10 DEF AccountServe, AccountRoute

\* Each step of a request already begun, the last two aside.
LEMMA ContinueKnows ==
    ASSUME Typed, SignedInv, NEW p \in Proc, AccountContinue(p), ~PasswordUpdate(p), ~SignOut(p)
    PROVE  SignedInv'
<1>0. /\ req[p] \in Request /\ SoundRequest(req[p], version) /\ changed' = changed
      /\ (End(p) => req' = [req EXCEPT ![p] = Idle])
      /\ \A step : Goto(p, step) => req' = [req EXCEPT ![p] = [req[p] EXCEPT !.pc = step]]
      /\ Knows(Idle) /\ mishap \subseteq mishap'
  <2>1. Knows(Idle)
    BY DEF Idle, Knows, Bearer
  <2>2. changed' = changed
    BY DEF AccountContinue, UserInsert, UserSave, CodeClear, AttemptWrong, AttemptRefused, AttemptRight, AttemptFail,
       AttemptClear, OtpSave, RefreshRotate, TokenIssue, PermissionsForget, Halt, history
  <2>3. mishap \subseteq mishap'
    BY DEF AccountContinue, UserInsert, UserSave, CodeClear, AttemptWrong, AttemptRefused, AttemptRight, AttemptFail,
       AttemptClear, OtpSave, RefreshRotate, TokenIssue, PermissionsForget, Halt, history
  <2> QED BY <2>1, <2>2, <2>3, NextStep
<1>1. ASSUME Bearer(req[p]), NEW step \in {"issue", "otpSave"}
      PROVE  Clean => Knows([req[p] EXCEPT !.pc = step])
  <2> DEFINE r == [req[p] EXCEPT !.pc = step]
  <2>1. r.late = req[p].late /\ r.proof = req[p].proof
    BY <1>0 DEF Request
  <2> HIDE DEF r
  <2>2. Clean => Knows(r)
    BY <1>1, <2>1 DEF SignedInv, Knows
  <2> QED BY <2>2 DEF r
<1>2. ASSUME UNCHANGED user
      PROVE  Kept'
  BY <1>0, <1>2 DEF SignedInv, Kept, Exists
<1>3. ASSUME UNCHANGED token
      PROVE  Clean => TokensKnow'
  BY <1>0, <1>3 DEF SignedInv, TokensKnow
<1>4. CASE UserInsert(p) \/ UserSave(p)
  <2>1. UNCHANGED token /\ req[p].pc \in {"insert", "userSave"}
    BY <1>4 DEF UserInsert, UserSave
  <2>2. CASE user' = user /\ End(p)
    BY <1>0, <1>2, <1>3, <2>1, <2>2, KnowsStep
  <2>3. CASE user' = Saved(req[p]) /\ AfterSave(p) /\ (Exists \/ req[p].password)
    <3>1. user'.password = IF req[p].password THEN version + 1 ELSE user.password
      BY <2>3 DEF Saved
    <3>2. Kept'
      BY <1>0, <2>3, <3>1, KeptStep DEF SignedInv
    <3>3. CASE req[p].then = "idle"
      BY <1>0, <1>3, <2>1, <2>3, <3>2, <3>3, KnowsStep DEF AfterSave
    <3>4. CASE req[p].then # "idle"
      <4> DEFINE r == [req[p] EXCEPT !.pc = req[p].then, !.read = NoColumns, !.entity = NoColumns]
      <4>1. req' = [req EXCEPT ![p] = r]
        BY <2>3, <3>4, NextStep DEF AfterSave
      <4>2. r.pc = req[p].then /\ r.pc \in {"issue", "otpClear", "forget"} /\ r.proof = req[p].proof /\ r.late = req[p].late
        BY <1>0, <3>4 DEF Request
      <4> HIDE DEF r
      <4>3. Clean => Knows(r)
        BY <2>1, <4>2 DEF SignedInv, Knows, Bearer
      <4> QED BY <1>0, <1>3, <2>1, <3>2, <4>1, <4>3, KnowsStep
    <3> QED BY <3>3, <3>4
  <2> QED BY <1>0, <1>4, <2>2, <2>3 DEF UserInsert, UserSave, SoundRequest
<1>5. CASE OtpSave(p)
  <2>1. UNCHANGED token /\ req[p].pc = "otpSave"
    BY <1>5 DEF OtpSave
  <2>2. CASE Exists
    <3>1. user' = [user EXCEPT !.status = "active", !.role = req[p].read.role, !.otp = FALSE] /\ Goto(p, "issue")
      BY <1>5, <2>2 DEF OtpSave
    <3>2. user'.password = user.password
      BY <3>1, TypeFacts DEF User
    <3>3. Kept'
      BY <1>0, <2>2, <3>2, KeptStep DEF SignedInv
    <3>4. Clean => Knows([req[p] EXCEPT !.pc = "issue"])
      BY <1>1, <2>1 DEF Bearer
    <3> QED BY <1>0, <1>3, <2>1, <3>1, <3>3, <3>4, KnowsStep
  <2>3. CASE ~Exists
    BY <1>0, <1>2, <1>3, <1>5, <2>1, <2>3, KnowsStep DEF OtpSave
  <2> QED BY <2>2, <2>3
<1>6. CASE AttemptWrong(p)
  <2>1. UNCHANGED <<user, token>> /\ req[p].pc = "attempt" /\ Goto(p, "fail")
    BY <1>6 DEF AttemptWrong
  <2>2. Knows([req[p] EXCEPT !.pc = "fail"])
    BY <1>0 DEF Knows, Bearer, Request
  <2> QED BY <1>0, <1>2, <1>3, <2>1, <2>2, KnowsStep
<1>7. CASE AttemptRight(p)
  <2> DEFINE r == [req[p] EXCEPT !.pc = "clear", !.read = ColumnsOf(user), !.proof = user.password, !.then = "forget"]
  <2>1. UNCHANGED <<user, token>> /\ req[p].pc = "attempt" /\ req' = [req EXCEPT ![p] = r] /\ Exists
    BY <1>7, NextStep DEF AttemptRight, Exists
  <2>2. r.proof = user.password
    BY <1>0 DEF Request
  <2> HIDE DEF r
  <2>3. Knows(r)
    BY <2>1, <2>2 DEF Knows, SignedInv, Kept
  <2> QED BY <1>0, <1>2, <1>3, <2>1, <2>3, KnowsStep
<1>8. CASE AttemptClear(p)
  <2>1. UNCHANGED <<user, token>> /\ req[p].pc = "clear"
    BY <1>8 DEF AttemptClear
  <2>2. Goto(p, "issue") \/ Goto(p, "otpSave")
    BY <1>8 DEF AttemptClear
  <2>3. (Clean => Knows([req[p] EXCEPT !.pc = "issue"])) /\ (Clean => Knows([req[p] EXCEPT !.pc = "otpSave"]))
    BY <1>1, <2>1 DEF Bearer
  <2> QED BY <1>0, <1>2, <1>3, <2>1, <2>2, <2>3, KnowsStep
<1>9. CASE AttemptRefused(p) \/ AttemptFail(p) \/ CodeClear(p) \/ PermissionsForget(p)
  <2>1. UNCHANGED <<user, token>> /\ req[p].pc # "signOut" /\ End(p)
    BY <1>9 DEF AttemptRefused, AttemptFail, CodeClear, PermissionsForget
  <2> QED BY <1>0, <1>2, <1>3, <2>1, KnowsStep
<1>10. CASE Halt(p)
  <2>1. UNCHANGED <<user, token>> /\ (req[p].pc = "signOut" => "halfway" \in mishap') /\ End(p)
    BY <1>10 DEF Halt
  <2> QED BY <1>0, <1>2, <1>3, <2>1, KnowsStep
<1>11. CASE RefreshRotate(p)
  <2>1. UNCHANGED user /\ req[p].pc = "rotate" /\ Goto(p, "issue") /\ req[p].token \in Token
    BY <1>0, <1>11 DEF RefreshRotate, SoundRequest
  <2>2. \A t \in Token : token'[t].status = "live" => token'[t] = token[t]
    BY <1>11, <2>1, TypeFacts DEF RefreshRotate, TokenRow
  <2>3. Clean => TokensKnow'
    BY <1>0, <2>2 DEF SignedInv, TokensKnow
  <2>4. Clean => Knows([req[p] EXCEPT !.pc = "issue"])
    BY <1>1, <2>1 DEF Bearer
  <2> QED BY <1>0, <1>2, <2>1, <2>3, <2>4, KnowsStep
<1>12. CASE TokenIssue(p)
  <2>1. UNCHANGED user /\ req[p].pc = "issue" /\ (Goto(p, "forget") \/ End(p))
    BY <1>12 DEF TokenIssue
  <2>2. \A t \in Token : token'[t] = token[t] \/ (token'[t].late = req[p].late /\ token'[t].proof = req[p].proof)
    BY <1>12, TypeFacts DEF TokenIssue
  <2>3. Clean => TokensKnow'
    BY <1>0, <2>1, <2>2 DEF SignedInv, TokensKnow, Knows, Bearer
  <2>4. Knows([req[p] EXCEPT !.pc = "forget"])
    BY <1>0 DEF Knows, Bearer, Request
  <2> QED BY <1>0, <1>2, <2>1, <2>3, <2>4, KnowsStep
<1> QED BY <1>4, <1>5, <1>6, <1>7, <1>8, <1>9, <1>10, <1>11, <1>12 DEF AccountContinue

LEMMA SignedStep ==
    ASSUME Typed, SignedInv, [Next]_vars
    PROVE  SignedInv'
\* A step that leaves requests and passwords alone.
<1>0. ASSUME UNCHANGED <<req, changed>>, mishap \subseteq mishap', Kept',
             \A t \in Token : token'[t].status = "live" => token'[t] = token[t]
      PROVE  SignedInv'
  BY <1>0 DEF SignedInv, Clean, TokensKnow, Knows, Bearer
<1>1. ASSUME NEW p \in Proc, AccountServe(p)
      PROVE  SignedInv'
  <2>1. UNCHANGED <<user, changed, mishap>>
    BY <1>1, RouteKeeps DEF history
  <2>2. Kept'
    BY <2>1 DEF SignedInv, Kept, Exists
  <2>3. CASE \E t \in Token : LogoutOne(p, t)
    <3>1. PICK t \in Token : LogoutOne(p, t)
      BY <2>3
    <3> DEFINE r == [Idle EXCEPT !.pc = "forget"]
    <3>2. token' = [token EXCEPT ![t].status = "recent"] /\ Begin(p, r)
      BY <3>1 DEF LogoutOne
    <3>3. \A x \in Token : token'[x].status = "live" => token'[x] = token[x]
      BY <3>2, TypeFacts DEF TokenRow
    <3>4. Clean => TokensKnow'
      BY <2>1, <3>3 DEF SignedInv, TokensKnow
    <3>5. Knows(r)
      BY DEF Idle, Knows, Bearer
    <3> HIDE DEF r
    <3> QED BY <2>1, <2>2, <3>2, <3>4, <3>5, KnowsStep DEF Begin
  <2>4. CASE ~\E t \in Token : LogoutOne(p, t)
    <3>1. PICK r : Begin(p, r) /\ (Clean => Knows(r))
      BY <1>1, <2>4, RouteKnows
    <3>2. token' = token
      BY <1>1, <2>4, RouteKeeps
    <3>3. Clean => TokensKnow'
      BY <2>1, <3>2 DEF SignedInv, TokensKnow
    <3> QED BY <2>1, <2>2, <3>1, <3>3, KnowsStep DEF Begin
  <2> QED BY <2>3, <2>4
<1>2. ASSUME NEW p \in Proc, PasswordUpdate(p)
      PROVE  SignedInv'
  <2>1. req'[p].pc = "signOut"
    BY <1>2, NextStep, TypeFacts DEF PasswordUpdate, Request
  <2>2. Kept'
    <3>1. CASE Exists
      <4>1. version' = version + 1 /\ changed' = version + 1 /\ user'.password = version + 1
        BY <1>2, <3>1, TypeFacts DEF PasswordUpdate, User
      <4> QED BY <4>1, TypeFacts DEF Kept
    <3>2. CASE ~Exists
      BY <1>2, <3>2 DEF PasswordUpdate, Kept, Exists
    <3> QED BY <3>1, <3>2
  <2> QED BY <2>1, <2>2 DEF SignedInv, Clean
<1>3. ASSUME NEW p \in Proc, SignOut(p)
      PROVE  SignedInv'
  <2>1. UNCHANGED <<user, changed, mishap>>
    BY <1>3 DEF SignOut, history
  <2>2. \A t \in Token : token'[t].status # "live"
    <3>1. ASSUME NEW t \in Token PROVE token'[t].status # "live"
      <4>1. token'[t] = IF token[t].status = "live" THEN [token[t] EXCEPT !.status = "recent"] ELSE token[t]
        BY <1>3 DEF SignOut
      <4> QED BY <4>1, TypeFacts DEF TokenRow
    <3> QED BY <3>1
  <2>3. ASSUME NEW q \in Proc PROVE Knows(req[q])'
    <3>1. CASE q = p
      <4>1. req'[q] = [Idle EXCEPT !.pc = "forget"]
        BY <1>3, <3>1 DEF SignOut
      <4>2. req'[q].pc = "forget"
        BY <4>1 DEF Idle
      <4> QED BY <4>2 DEF Knows, Bearer
    <3>2. CASE q # p /\ req[q].pc \in Proven
      <4>1. req'[q] = [req[q] EXCEPT !.late = TRUE] /\ req[q] \in Request
        BY <1>3, <3>2, TypeFacts DEF SignOut
      <4>2. req'[q].late
        BY <4>1 DEF Request
      <4> QED BY <4>2 DEF Knows
    <3>3. CASE q # p /\ req[q].pc \notin Proven
      <4>1. req'[q] = req[q]
        BY <1>3, <3>3 DEF SignOut
      <4> QED BY <3>3, <4>1 DEF Knows, Bearer, Proven
    <3> QED BY <3>1, <3>2, <3>3
  <2>4. Kept'
    BY <2>1 DEF SignedInv, Kept, Exists
  <2> QED BY <2>2, <2>3, <2>4 DEF SignedInv, TokensKnow
<1>4. ASSUME NEW p \in Proc, AccountContinue(p)
      PROVE  SignedInv'
  BY <1>2, <1>3, <1>4, ContinueKnows
<1>5. ASSUME NEW p \in Proc, Remove(p)
      PROVE  SignedInv'
  <2>1. UNCHANGED <<changed, mishap>> /\ req[p].pc = "remove" /\ End(p)
    BY <1>5 DEF Remove, UserRemove, history
  <2>2. ~Exists'
    <3>1. [NoUser EXCEPT !.status = "deleted"].status = "deleted"
      BY DEF NoUser
    <3> QED BY <1>5, <3>1 DEF Remove, UserRemove, Exists
  <2>3. \A t \in Token : token'[t].status # "live"
    <3>1. ASSUME NEW t \in Token PROVE token'[t].status # "live"
      <4>1. token'[t] = IF token[t].status = "unused" THEN token[t] ELSE [token[t] EXCEPT !.status = "revoked"]
        BY <1>5 DEF Remove, UserRemove
      <4> QED BY <4>1, TypeFacts DEF TokenRow
    <3> QED BY <3>1
  <2>4. Knows(Idle) /\ req' = [req EXCEPT ![p] = Idle]
    BY <2>1, NextStep DEF Idle, Knows, Bearer
  <2> QED BY <2>1, <2>2, <2>3, <2>4, KnowsStep DEF Kept, TokensKnow
<1>6. CASE Clock
  <2>1. UNCHANGED <<user, req, changed, mishap>>
    BY <1>6 DEF Clock, AttemptsExpire, TokenAge, history
  <2>2. \A t \in Token : token'[t].status = "live" => token'[t] = token[t]
    BY <1>6, TypeFacts DEF Clock, AttemptsExpire, TokenAge, TokenRow
  <2> QED BY <1>0, <2>1, <2>2 DEF SignedInv, Kept, Exists
<1>7. ASSUME NEW a \in Tx, TxCommit(a)
      PROVE  Kept'
  <2> DEFINE t == tx[a]
  <2>1. changed' = changed /\ CanCommit(t)
    BY <1>7 DEF TxCommit
  <2>2. CASE t.kind = "role"
    BY <1>7, <2>1, <2>2 DEF TxCommit, SignedInv, Kept, Exists
  <2>3. CASE t.kind # "role"
    <3>1. user'.password = IF t.kind = "create" THEN version + 1 ELSE user.password
      BY <1>7, <2>3 DEF TxCommit
    <3> QED BY <2>1, <2>3, <3>1, KeptStep DEF SignedInv, CanCommit
  <2> QED BY <2>2, <2>3
<1>8. CASE RbacServe \/ CacheExpire \/ RbacContinue
  <2>1. UNCHANGED <<token, req, changed>> /\ mishap \subseteq mishap'
    BY <1>8, RbacKeeps
  <2>2. CASE \E a \in Tx : TxCommit(a)
    BY <1>0, <1>7, <2>1, <2>2
  <2>3. CASE ~\E a \in Tx : TxCommit(a)
    <3>1. user' = user
      BY <1>8, <2>3 DEF RbacServe, RbacRoute, RoleCreate, RoleDelete, RoleUpdate, AdminCreate, AdminAssign, AdminRevoke,
             TxBegin, CheckBegin, RbacContinue, TxClear, TxAbort, CheckRead, CheckFill, accountVars, CacheExpire
    <3>2. Kept'
      BY <2>1, <3>1 DEF SignedInv, Kept, Exists
    <3> QED BY <1>0, <2>1, <3>2
  <2> QED BY <2>2, <2>3
<1>9. CASE UNCHANGED vars
  <2>1. UNCHANGED <<user, req, changed, mishap, token>>
    BY <1>9 DEF vars, accountVars
  <2> QED BY <1>0, <2>1 DEF SignedInv, Kept, Exists
<1> QED BY <1>1, <1>4, <1>5, <1>6, <1>8, <1>9 DEF Next

\* "Revoke all sessions for security": when a password was changed and the sessions revoked, no token
\* works for who only knew an older one, unless he was being served then, his revoked token was
\* renewed within the grace window, or the request stopped half way.
THEOREM SignedOut == Spec => []SignedOutUnlessLate
<1>1. Init => Typed /\ SignedInv
  <2>1. ASSUME Init PROVE SignedInv
    <3>1. /\ user.password = 0 /\ changed = 0 /\ req = [p \in Proc |-> Idle]
          /\ \A t \in Token : token[t].status = "unused"
      BY <2>1 DEF Init, AccountInit, NoUser
    <3>2. Knows(Idle)
      BY DEF Idle, Knows, Bearer
    <3> QED BY <3>1, <3>2 DEF SignedInv, Kept, TokensKnow
  <2> QED BY <2>1, InitTyped
<1>2. Typed /\ SignedInv /\ [Next]_vars => Typed' /\ SignedInv'
  BY NextTyped, SignedStep
<1>3. Typed /\ SignedInv => SignedOutUnlessLate
  BY DEF SignedInv, Clean, TokensKnow, SignedOutUnlessLate
<1> QED BY <1>1, <1>2, <1>3, PTL DEF Spec

(***************************************************************************)
(* Cached permissions                                                      *)
(***************************************************************************)
\* A change that leaves the account's cache alone: of a role it does not hold.
Spared(t) == t.kind = "role" /\ (assignment.status # "active" \/ assignment.role # t.id)
Regular == user.status # "deleted" /\ {"crossed", "uncleared", "revived"} \cap mishap = {}

\* What is cached is granted, and nothing is cached from the clearing of a change to its commit.
CacheInv == Regular =>
    /\ cached \in {Null, Granted}
    /\ \A a \in Tx : tx[a].cleared => cached = Null \/ Spared(tx[a])

\* A step that caches nothing, commits nothing and sees to no cache.
LEMMA CacheKept ==
    ASSUME CacheInv, cached' \in {cached, Null}, Granted' = Granted, UNCHANGED assignment, mishap \subseteq mishap',
           user.status = "deleted" => user'.status = "deleted" \/ "revived" \in mishap',
           \A a \in Tx : tx'[a].cleared => tx'[a] = tx[a]
    PROVE  CacheInv'
BY DEF CacheInv, Regular, Spared

LEMMA AccountCache ==
    ASSUME Typed, CacheInv, NEW p \in Proc, AccountServe(p) \/ AccountContinue(p), UNCHANGED roleVars
    PROVE  CacheInv'
<1>1. UNCHANGED <<assignment, role, tx>> /\ Granted' = Granted
  BY DEF roleVars, Granted
<1>2. CASE AccountServe(p)
  BY <1>1, <1>2, RouteKeeps, CacheKept DEF history
<1>3. CASE UserInsert(p) \/ UserSave(p)
  <2>1. cached' = cached /\ mishap \subseteq mishap'
    BY <1>3 DEF UserInsert, UserSave
  <2>2. user.status = "deleted" => user' = user \/ "revived" \in mishap'
    BY <1>3 DEF UserInsert, UserSave, Exists
  <2> QED BY <1>1, <2>1, <2>2, CacheKept
<1>4. CASE OtpSave(p) \/ PasswordUpdate(p)
  <2>1. cached' = cached /\ mishap \subseteq mishap'
    BY <1>4 DEF OtpSave, PasswordUpdate
  <2>2. user.status = "deleted" => user' = user
    BY <1>4 DEF OtpSave, PasswordUpdate, Exists
  <2> QED BY <1>1, <2>1, <2>2, CacheKept
<1>5. CASE AccountContinue(p) /\ ~(UserInsert(p) \/ UserSave(p) \/ OtpSave(p) \/ PasswordUpdate(p))
  <2>1. user' = user /\ cached' \in {cached, Null} /\ mishap \subseteq mishap'
    BY <1>5 DEF AccountContinue, AttemptWrong, AttemptRefused, AttemptRight, AttemptFail, AttemptClear, CodeClear,
           RefreshRotate, TokenIssue, PermissionsForget, SignOut, Halt, history
  <2> QED BY <1>1, <2>1, CacheKept
<1> QED BY <1>2, <1>3, <1>4, <1>5

LEMMA RemoveCache ==
    ASSUME Typed, CacheInv, NEW p \in Proc, Remove(p)
    PROVE  CacheInv'
<1>1. UNCHANGED <<cached, mishap, tx, role>> /\ assignment'.status = "none"
  BY DEF Remove, UserRemove, history, NoAssignment
<1>2. Exists => user'.status = "deleted"
  BY DEF Remove, UserRemove, NoUser
<1>3. CASE Exists
  BY <1>2, <1>3 DEF CacheInv, Regular
<1>4. CASE ~Exists
  <2>1. user' = user /\ assignment.status = "none"
    BY <1>4, TypeFacts DEF Remove, UserRemove
  <2>2. Granted' = Granted
    BY <1>1, <2>1 DEF Granted
  <2> QED BY <1>1, <2>1, <2>2 DEF CacheInv, Regular, Spared
<1> QED BY <1>3, <1>4

\* What a change of roles or assignments begins with is not cleared.
LEMMA BeginCache ==
    ASSUME Typed, CacheInv, RbacServe
    PROVE  CacheInv'
<1>1. ASSUME NEW r \in RoleId, RoleCreate(r) \/ RoleDelete(r)
      PROVE  CacheInv'
  <2>1. UNCHANGED <<user, cached, assignment, tx>> /\ mishap' = mishap
    BY <1>1 DEF RoleCreate, RoleDelete, history
  <2>2. assignment.status # "none" => role'[assignment.role] = role[assignment.role]
    <3>1. CASE RoleCreate(r)
      BY <3>1, TypeFacts DEF RoleCreate
    <3>2. CASE RoleDelete(r)
      BY <3>2, TypeFacts DEF RoleDelete
    <3> QED BY <1>1, <3>1, <3>2
  <2>3. Granted' = Granted
    BY <2>1, <2>2 DEF Granted
  <2> QED BY <2>1, <2>3, CacheKept
<1>2. ASSUME NEW a \in Tx, NEW t, TxBegin(a, t), ~t.cleared
      PROVE  CacheInv'
  <2>1. UNCHANGED <<user, cached, assignment, role>> /\ mishap' = mishap /\ tx' = [tx EXCEPT ![a] = t]
    BY <1>2 DEF TxBegin, history
  <2>2. \A b \in Tx : tx'[b].cleared => tx'[b] = tx[b]
    BY <1>2, <2>1, TypeFacts
  <2>3. Granted' = Granted
    BY <2>1 DEF Granted
  <2> QED BY <2>1, <2>2, <2>3, CacheKept
<1>3. ASSUME NEW a \in Tx, NEW r \in RoleId, RoleUpdate(a, r)
      PROVE  CacheInv'
  <2>1. PICK permissions \in SUBSET Permission :
            TxBegin(a, [NoTx EXCEPT !.kind = "role", !.id = r, !.permissions = permissions])
    BY <1>3 DEF RoleUpdate
  <2>2. ~[NoTx EXCEPT !.kind = "role", !.id = r, !.permissions = permissions].cleared
    BY DEF NoTx
  <2> QED BY <1>2, <2>1, <2>2
<1>4. ASSUME NEW a \in Tx, NEW r \in RoleId, AdminCreate(a, r)
      PROVE  CacheInv'
  <2> DEFINE t == [NoTx EXCEPT !.kind = "create", !.draft = [NoColumns EXCEPT !.status = "active", !.role = "admin"],
                               !.drafted = [NoAssignment EXCEPT !.status = "active", !.role = r]]
  <2>1. TxBegin(a, t)
    BY <1>4 DEF AdminCreate
  <2>2. ~t.cleared
    BY DEF NoTx
  <2> HIDE DEF t
  <2> QED BY <1>2, <2>1, <2>2
<1>5. ASSUME NEW a \in Tx, NEW r \in RoleId, AdminAssign(a, r)
      PROVE  CacheInv'
  <2> DEFINE previous == IF assignment.previous = Null /\ user.role \in Primary THEN user.role ELSE assignment.previous
             t == [NoTx EXCEPT !.kind = "assign", !.found = ColumnsOf(user),
                               !.draft = [ColumnsOf(user) EXCEPT !.role = "admin"], !.held = assignment.status,
                               !.drafted = [status |-> "active", role |-> r, previous |-> previous]]
  <2>1. TxBegin(a, t)
    BY <1>5 DEF AdminAssign
  <2>2. ~t.cleared
    BY DEF NoTx
  <2> HIDE DEF t
  <2> QED BY <1>2, <2>1, <2>2
<1>6. ASSUME NEW a \in Tx, AdminRevoke(a)
      PROVE  CacheInv'
  <2> DEFINE previous == IF assignment.previous = Null THEN "student" ELSE assignment.previous
             t == [NoTx EXCEPT !.kind = "revoke", !.found = ColumnsOf(user), !.held = "active",
                               !.drafted = [assignment EXCEPT !.status = "revoked"],
                               !.draft = [ColumnsOf(user) EXCEPT !.role = previous]]
  <2>1. TxBegin(a, t)
    BY <1>6 DEF AdminRevoke
  <2>2. ~t.cleared
    BY DEF NoTx
  <2> HIDE DEF t
  <2> QED BY <1>2, <2>1, <2>2
<1>7. ASSUME NEW g \in Guard, CheckBegin(g)
      PROVE  CacheInv'
  <2>1. UNCHANGED <<user, cached, assignment, role, tx>> /\ mishap' = mishap
    BY <1>7 DEF CheckBegin, history
  <2> QED BY <2>1, CacheKept DEF Granted
<1> QED BY <1>1, <1>3, <1>4, <1>5, <1>6, <1>7 DEF RbacServe, RbacRoute

LEMMA TxCache ==
    ASSUME Typed, CacheInv, NEW a \in Tx, TxClear(a) \/ TxCommit(a) \/ TxAbort(a)
    PROVE  CacheInv'
<1> DEFINE t == tx[a]
<1>0. NoTx.cleared = FALSE /\ t \in Transaction /\ SoundTx(t)
  BY TypeFacts DEF NoTx
<1>1. CASE TxClear(a)
  <2>1. UNCHANGED <<user, role, assignment>> /\ tx' = [tx EXCEPT ![a].cleared = TRUE] /\ Granted' = Granted
    BY <1>1 DEF TxClear, Granted
  <2>2. /\ tx'[a].kind = t.kind /\ tx'[a].id = t.id
        /\ \A b \in Tx : b # a => tx'[b] = tx[b]
    BY <1>0, <2>1, TypeFacts DEF Transaction
  <2>3. Spared(t) => cached' = cached /\ mishap' = mishap
    BY <1>1, <2>1, <2>2 DEF TxClear, Spared
  <2>4. ~Spared(t) => (cached' = Null /\ mishap' = mishap) \/ "uncleared" \in mishap'
    BY <1>1 DEF TxClear, Spared
  <2>5. CASE "uncleared" \in mishap'
    BY <2>5 DEF CacheInv, Regular
  <2>6. CASE Spared(t)
    <3>1. Regular' => Regular
      BY <2>1, <2>3, <2>6 DEF Regular
    <3>2. ASSUME Regular', NEW b \in Tx, tx'[b].cleared
          PROVE  \/ cached' = Null
                 \/ tx'[b].kind = "role" /\ (assignment'.status # "active" \/ assignment'.role # tx'[b].id)
      <4>1. CASE b = a
        BY <2>1, <2>2, <2>6, <4>1 DEF Spared
      <4>2. CASE b # a
        BY <2>1, <2>2, <2>3, <2>6, <3>1, <3>2, <4>2 DEF CacheInv, Spared
      <4> QED BY <4>1, <4>2
    <3> QED BY <2>1, <2>3, <2>6, <3>1, <3>2 DEF CacheInv, Spared
  <2>7. CASE cached' = Null
    BY <2>7 DEF CacheInv
  <2> QED BY <2>4, <2>5, <2>6, <2>7
<1>2. CASE TxAbort(a)
  <2>1. UNCHANGED <<user, cached, mishap, role, assignment>> /\ tx' = [tx EXCEPT ![a] = NoTx]
    BY <1>2 DEF TxAbort, accountVars
  <2>2. \A b \in Tx : tx'[b].cleared => tx'[b] = tx[b]
    BY <1>0, <2>1, TypeFacts
  <2> QED BY <2>1, <2>2, CacheKept DEF Granted
<1>3. CASE TxCommit(a)
  <2>1. /\ t.cleared /\ CanCommit(t) /\ cached' = cached /\ mishap \subseteq mishap' /\ tx' = [tx EXCEPT ![a] = NoTx]
    BY <1>3 DEF TxCommit
  <2>2. \A b \in Tx : tx'[b].cleared => tx'[b] = tx[b]
    BY <1>0, <2>1, TypeFacts
  <2>3. Regular' => Regular
    <3>1. CASE t.kind = "role"
      BY <1>3, <2>1, <3>1 DEF TxCommit, Regular
    <3>2. CASE t.kind # "role"
      BY <2>1, <3>2 DEF CanCommit, Exists, Regular
    <3> QED BY <3>1, <3>2
  <2>4. CASE cached = Null
    BY <2>1, <2>4 DEF CacheInv
  <2>5. CASE Spared(t)
    <3>1. role' = [role EXCEPT ![t.id] = t.permissions] /\ UNCHANGED <<user, assignment>> /\ t.id \in RoleId
      BY <1>0, <1>3, <2>5 DEF TxCommit, Spared, SoundTx
    <3>2. Granted' = Granted
      BY <2>5, <3>1, TypeFacts DEF Granted, Spared
    <3> QED BY <2>1, <2>2, <3>1, <3>2, CacheKept
  <2>6. CASE cached # Null /\ ~Spared(t)
    BY <2>1, <2>3, <2>6 DEF CacheInv
  <2> QED BY <2>4, <2>5, <2>6
<1> QED BY <1>1, <1>2, <1>3

LEMMA CheckCache ==
    ASSUME Typed, CacheInv, CacheExpire \/ \E g \in Guard : CheckRead(g) \/ CheckFill(g)
    PROVE  CacheInv'
<1>1. CASE CacheExpire
  <2>1. UNCHANGED <<user, assignment, role, tx, mishap>> /\ cached' = Null
    BY <1>1 DEF CacheExpire, roleVars, history
  <2> QED BY <2>1, CacheKept DEF Granted
<1>2. ASSUME NEW g \in Guard, CheckRead(g)
      PROVE  CacheInv'
  <2>1. UNCHANGED <<user, cached, assignment, role, tx, mishap>>
    BY <1>2 DEF CheckRead, accountVars
  <2> QED BY <2>1, CacheKept DEF Granted
<1>3. ASSUME NEW g \in Guard, CheckFill(g)
      PROVE  CacheInv'
  <2> DEFINE keys == guard[g].keys
  <2>1. /\ UNCHANGED <<user, assignment, role, tx>> /\ cached' = keys
        /\ mishap' = IF keys # Null /\ (keys # Granted \/ \E a \in Tx : tx[a].cleared) THEN mishap \cup {"crossed"} ELSE mishap
    BY <1>3 DEF CheckFill
  <2>2. Granted' = Granted
    BY <2>1 DEF Granted
  <2>3. CASE keys = Null
    BY <2>1, <2>3 DEF CacheInv
  <2>4. CASE keys = Granted /\ ~\E a \in Tx : tx[a].cleared
    BY <2>1, <2>2, <2>4 DEF CacheInv
  <2>5. CASE keys # Null /\ (keys # Granted \/ \E a \in Tx : tx[a].cleared)
    BY <2>1, <2>5 DEF CacheInv, Regular
  <2> QED BY <2>3, <2>4, <2>5
<1> QED BY <1>1, <1>2, <1>3

LEMMA CacheStep ==
    ASSUME Typed, CacheInv, [Next]_vars
    PROVE  CacheInv'
<1>1. CASE Clock /\ UNCHANGED roleVars
  <2>1. UNCHANGED <<user, cached, assignment, role, tx, mishap>>
    BY <1>1 DEF Clock, AttemptsExpire, TokenAge, history, roleVars
  <2> QED BY <2>1, CacheKept DEF Granted
<1>2. CASE RbacContinue
  BY <1>2, TxCache, CheckCache DEF RbacContinue
<1>3. CASE UNCHANGED vars
  <2>1. UNCHANGED <<user, cached, assignment, role, tx, mishap>>
    BY <1>3 DEF vars, accountVars, roleVars
  <2> QED BY <2>1, CacheKept DEF Granted
<1> QED BY <1>1, <1>2, <1>3, AccountCache, RemoveCache, BeginCache, CheckCache DEF Next

\* "RBAC service owns permission cache population": what is cached for an account is what its assignment
\* gives it, unless a check filled the cache across a change, the cache could not be cleared, or the
\* account came back after its deletion.
THEOREM Cached == Spec => []CachedIsGranted
<1>1. Init => Typed /\ CacheInv
  <2>1. ASSUME Init PROVE CacheInv
    BY <2>1 DEF Init, AccountInit, NoTx, CacheInv
  <2> QED BY <2>1, InitTyped
<1>2. Typed /\ CacheInv /\ [Next]_vars => Typed' /\ CacheInv'
  BY NextTyped, CacheStep
<1>3. CacheInv => CachedIsGranted
  BY DEF CacheInv, Regular, Exists, CachedIsGranted
<1> QED BY <1>1, <1>2, <1>3, PTL DEF Spec
=============================================================================
