------------------------------ MODULE Accounts ------------------------------
(***************************************************************************)
(* AuthService and UsersService: one account (one e-mail address), its     *)
(* refresh tokens, the counters of failed attempts and the cached          *)
(* permissions. Each awaited call is an action, on what the request has    *)
(* remembered since the calls before.                                      *)
(*                                                                         *)
(* save() writes every column the entity was loaded with; the password and *)
(* the one-time code are not loaded, and are written only when they were   *)
(* assigned. Links, codes and tokens may expire at any time. A refused     *)
(* request that has changed nothing is left out.                           *)
(***************************************************************************)
EXTENDS Integers

CONSTANTS
    Proc,         \* requests in progress at the same time
    Token,        \* refresh tokens
    Primary,      \* the roles that are nobody's privilege
    MaxAttempts,  \* maxLoginAttempts
    MaxRequests,  \* bound: requests made
    Permission,
    Null

ASSUME PrimaryAssumption == "student" \in Primary /\ "admin" \notin Primary
ASSUME BoundsAssumption == MaxAttempts \in Nat \ {0} /\ MaxRequests \in Nat
ASSUME NoTokenAssumption == Null \notin Token

VARIABLES
    user,      \* the users row
    failures,  \* login_attempts and otp_attempts, in Redis
    token,     \* refresh_tokens
    cached,    \* the account's permissions in Redis
    req,       \* the requests in progress
    made,      \* requests made so far
    version,   \* history: passwords set so far
    changed,   \* history: the last one set by a change or a reset
    guesses,   \* history: failed attempts since the counter was last cleared
    mishap     \* history: what has befallen the row and the counters

accountVars == <<user, failures, token, cached, req, made, version, changed, guesses, mishap>>
history == <<version, changed, guesses, mishap>>

Role == Primary \cup {"admin"}
\* "suspended" stands for DEACTIVATED too; a deleted account's address is not used again.
Status == {"none", "pending", "active", "suspended", "deleted"}
Exists == user.status \notin {"none", "deleted"}
Columns == [status : Status, role : Role, reset : BOOLEAN, parent : BOOLEAN]
User == [status : Status, role : Role, reset : BOOLEAN, parent : BOOLEAN, password : Nat, otp : BOOLEAN]
NoColumns == [status |-> "none", role |-> "student", reset |-> FALSE, parent |-> FALSE]
NoUser == [status |-> "none", role |-> "student", reset |-> FALSE, parent |-> FALSE, password |-> 0, otp |-> FALSE]
ColumnsOf(u) == [status |-> u.status, role |-> u.role, reset |-> u.reset, parent |-> u.parent]

Counter == {"login", "otp"}
\* proof is the password that was in force when the token's owner was last authenticated;
\* late: by then he had been signed out, or the token was renewed within the grace window.
TokenRow == [status : {"unused", "live", "recent", "revoked"}, proof : Nat, late : BOOLEAN]

Steps == {"idle", "insert", "userSave", "otpClear", "attempt", "fail", "clear", "otpSave", "rotate",
          "issue", "forget", "passwordUpdate", "signOut", "remove"}
\* read is the row as it was found and entity what will be saved of it; password: the save
\* sets a new one; otp: what it does to the one-time code; then: what comes after the save.
Request == [pc : Steps, counter : Counter, count : Nat, read : Columns, entity : Columns,
            password : BOOLEAN, otp : {"kept", "sent", "cleared"}, then : {"idle", "issue", "otpClear", "forget"},
            token : Token \cup {Null}, proof : Nat, late : BOOLEAN]
Idle == [pc |-> "idle", counter |-> "login", count |-> 0, read |-> NoColumns, entity |-> NoColumns,
         password |-> FALSE, otp |-> "kept", then |-> "idle", token |-> Null, proof |-> 0, late |-> FALSE]

\* An address nobody has registered, or an account that was made before.
AccountInit ==
    /\ user \in {NoUser} \cup {[NoUser EXCEPT !.status = status] : status \in {"pending", "active"}}
    /\ failures = [c \in Counter |-> 0]
    /\ token = [t \in Token |-> [status |-> "unused", proof |-> 0, late |-> FALSE]]
    /\ cached = Null
    /\ req = [p \in Proc |-> Idle]
    /\ made = 0
    /\ version = 0
    /\ changed = 0
    /\ guesses = [c \in Counter |-> 0]
    /\ mishap = {}

Goto(p, step) == req' = [req EXCEPT ![p].pc = step]
End(p) == req' = [req EXCEPT ![p] = Idle]
Begin(p, request) == req[p].pc = "idle" /\ req' = [req EXCEPT ![p] = request]

(***************************************************************************)
(* Saving the row                                                          *)
(***************************************************************************)
\* A row of the entity's columns; a password and a code only if they were assigned.
Saved(r) ==
    [status |-> r.entity.status, role |-> r.entity.role, reset |-> r.entity.reset, parent |-> r.entity.parent,
     password |-> IF r.password THEN version + 1 ELSE user.password,
     otp |-> IF r.otp = "kept" THEN user.otp ELSE r.otp = "sent"]
CountPassword(p) == version' = IF req[p].password THEN version + 1 ELSE version
\* The columns have changed since they were read, and are overwritten.
IsStale(p) == ColumnsOf(user) # req[p].read

AfterSave(p) ==
    IF req[p].then = "idle" THEN End(p)
    ELSE req' = [req EXCEPT ![p].pc = req[p].then, ![p].read = NoColumns, ![p].entity = NoColumns]

\* The insert of a new account; email is unique.
UserInsert(p) ==
    /\ req[p].pc = "insert"
    /\ IF user.status = "none"
       THEN user' = Saved(req[p]) /\ CountPassword(p) /\ AfterSave(p)
       ELSE UNCHANGED <<user, version>> /\ End(p)
    /\ UNCHANGED <<failures, token, cached, made, changed, guesses, mishap>>

\* The save of an account that was found. When it was deleted meanwhile the save inserts it
\* again, which fails unless a password was assigned.
UserSave(p) ==
    /\ req[p].pc = "userSave"
    /\ IF Exists \/ req[p].password
       THEN /\ user' = Saved(req[p])
            /\ CountPassword(p)
            /\ mishap' = mishap \cup (IF IsStale(p) THEN {"stale"} ELSE {})
                                \cup (IF Exists THEN {} ELSE {"revived"})
            /\ AfterSave(p)
       ELSE UNCHANGED <<user, version, mishap>> /\ End(p)
    /\ UNCHANGED <<failures, token, cached, made, changed, guesses>>

Found(entity) == [Idle EXCEPT !.pc = "userSave", !.read = ColumnsOf(user), !.entity = entity]

(***************************************************************************)
(* UsersService                                                            *)
(***************************************************************************)
\* create(), with any role the administrator gives.
CreateFind(p) ==
    /\ user.status = "none"
    /\ \E given \in Role :
           Begin(p, [Idle EXCEPT !.pc = "insert", !.password = TRUE,
                                 !.entity = [NoColumns EXCEPT !.status = "active", !.role = given]])
    /\ UNCHANGED <<user, failures, token, cached, history>>

\* update(): by the user himself, or by an administrator, who may change the status too;
\* either may set a password. The e-mail address is taken to stay.
ProfileFind(p) ==
    /\ Exists
    /\ \E status \in {user.status, "active", "suspended"}, sets \in BOOLEAN :
           Begin(p, [Found([ColumnsOf(user) EXCEPT !.status = status]) EXCEPT !.password = sets])
    /\ UNCHANGED <<user, failures, token, cached, history>>

\* updateAcademicProfile(): 'Only students can submit academic onboarding data'.
AcademicFind(p) ==
    /\ Exists /\ user.role = "student"
    /\ Begin(p, Found(ColumnsOf(user)))
    /\ UNCHANGED <<user, failures, token, cached, history>>

\* Mutant: administrators are not excepted.
RoleFind_Unchecked(p) ==
    /\ Exists
    /\ \E given \in Primary : Begin(p, Found([ColumnsOf(user) EXCEPT !.role = given]))
    /\ UNCHANGED <<user, failures, token, cached, history>>

\* updateRole(): 'Cannot mutate admin accounts through this endpoint'.
RoleFind(p) ==
    /\ Exists /\ user.role # "admin"
    /\ \E given \in Primary : Begin(p, Found([ColumnsOf(user) EXCEPT !.role = given]))
    /\ UNCHANGED <<user, failures, token, cached, history>>

\* linkParent() by an administrator; linkChildByEmail() by a parent asks that there is none.
LinkFind(p) ==
    /\ Exists /\ user.role = "student"
    /\ Begin(p, Found([ColumnsOf(user) EXCEPT !.parent = TRUE]))
    /\ UNCHANGED <<user, failures, token, cached, history>>

\* suspend(): 'Cannot suspend admin'.
SuspendFind(p) ==
    /\ Exists /\ user.role # "admin"
    /\ Begin(p, Found([ColumnsOf(user) EXCEPT !.status = "suspended"]))
    /\ UNCHANGED <<user, failures, token, cached, history>>

ActivateFind(p) ==
    /\ Exists
    /\ Begin(p, Found([ColumnsOf(user) EXCEPT !.status = "active"]))
    /\ UNCHANGED <<user, failures, token, cached, history>>

\* delete(): 'Cannot delete admin'; ...
DeleteFind(p) ==
    /\ Exists /\ user.role # "admin"
    /\ Begin(p, [Idle EXCEPT !.pc = "remove"])
    /\ UNCHANGED <<user, failures, token, cached, history>>

\* ... the row is removed and its tokens with it.
UserRemove(p) ==
    /\ req[p].pc = "remove"
    /\ user' = IF Exists THEN [NoUser EXCEPT !.status = "deleted"] ELSE user
    /\ token' = [t \in Token |-> IF token[t].status = "unused" THEN token[t] ELSE [token[t] EXCEPT !.status = "revoked"]]
    /\ End(p)
    /\ UNCHANGED <<failures, cached, made, history>>

(***************************************************************************)
(* Registration, codes and links                                           *)
(***************************************************************************)
\* register(): a pending account is taken over and made active, ...
RegisterFind(p) ==
    /\ user.status \in {"none", "pending"}
    /\ IF user.status = "none"
       THEN Begin(p, [Idle EXCEPT !.pc = "insert", !.password = TRUE,
                                  !.entity = [NoColumns EXCEPT !.status = "active"]])
       ELSE Begin(p, [Found([ColumnsOf(user) EXCEPT !.status = "active"])
                          EXCEPT !.password = TRUE, !.otp = "cleared"])
    /\ UNCHANGED <<user, failures, token, cached, history>>

\* validateOAuthLogin(): ... here an account is made, or linked to Google, or neither.
OAuthFind(p) ==
    /\ user.status # "deleted"
    /\ IF user.status = "none"
       THEN Begin(p, [Idle EXCEPT !.pc = "insert", !.password = TRUE, !.then = "issue", !.proof = version + 1,
                                  !.entity = [NoColumns EXCEPT !.status = "active"]])
       ELSE \/ Begin(p, [Found(ColumnsOf(user)) EXCEPT !.then = "issue", !.proof = user.password])
            \/ Begin(p, [Idle EXCEPT !.pc = "issue", !.proof = user.password])
    /\ UNCHANGED <<user, failures, token, cached, history>>

\* requestOtp(): 'This code is only available for account verification'.
CodeFind(p) ==
    /\ user.status = "pending"
    /\ Begin(p, [Found(ColumnsOf(user)) EXCEPT !.otp = "sent", !.then = "otpClear"])
    /\ UNCHANGED <<user, failures, token, cached, history>>

\* The attempts at the code are forgotten.
CodeClear(p) ==
    /\ req[p].pc = "otpClear"
    /\ failures' = [failures EXCEPT !["otp"] = 0]
    /\ guesses' = [guesses EXCEPT !["otp"] = 0]
    /\ End(p)
    /\ UNCHANGED <<user, token, cached, made, version, changed, mishap>>

\* forgotPassword() saves the link's token with the row.
ForgotFind(p) ==
    /\ Exists
    /\ Begin(p, Found([ColumnsOf(user) EXCEPT !.reset = TRUE]))
    /\ UNCHANGED <<user, failures, token, cached, history>>

(***************************************************************************)
(* Attempts                                                                *)
(***************************************************************************)
\* Mutant: the counter is read and not looked at.
AttemptBegin_Unlimited(p, c) ==
    /\ Begin(p, [Idle EXCEPT !.pc = "attempt", !.counter = c, !.count = failures[c]])
    /\ UNCHANGED <<user, failures, token, cached, history>>

\* login() and verifyOtp(): 'Account temporarily locked due to too many failed attempts.'
AttemptBegin(p, c) ==
    /\ failures[c] < MaxAttempts
    /\ Begin(p, [Idle EXCEPT !.pc = "attempt", !.counter = c, !.count = failures[c]])
    /\ UNCHANGED <<user, failures, token, cached, history>>

\* The account is found and the password or code compared: 'Invalid credentials', 'Invalid OTP'; ...
AttemptWrong(p) ==
    /\ req[p].pc = "attempt"
    /\ Exists => user.status = IF req[p].counter = "login" THEN "active" ELSE "pending"
    /\ Goto(p, "fail")
    /\ UNCHANGED <<user, failures, token, cached, made, history>>

\* ... 'Account is not active', 'OTP has expired': refused, and not counted; ...
AttemptRefused(p) ==
    /\ req[p].pc = "attempt"
    /\ Exists
    /\ End(p)
    /\ UNCHANGED <<user, failures, token, cached, made, history>>

\* ... or right.
AttemptRight(p) ==
    /\ req[p].pc = "attempt"
    /\ IF req[p].counter = "login" THEN user.status = "active" ELSE user.status = "pending" /\ user.otp
    /\ req' = [req EXCEPT ![p].pc = "clear", ![p].read = ColumnsOf(user), ![p].proof = user.password,
                          ![p].then = "forget"]
    /\ UNCHANGED <<user, failures, token, cached, made, history>>

\* One more than was read when the attempt began.
AttemptFail(p) ==
    LET c == req[p].counter IN
    /\ req[p].pc = "fail"
    /\ failures' = [failures EXCEPT ![c] = req[p].count + 1]
    /\ guesses' = [guesses EXCEPT ![c] = @ + 1]
    /\ mishap' = IF failures[c] = req[p].count THEN mishap ELSE mishap \cup {"miscounted"}
    /\ End(p)
    /\ UNCHANGED <<user, token, cached, made, version, changed>>

AttemptClear(p) ==
    LET c == req[p].counter IN
    /\ req[p].pc = "clear"
    /\ failures' = [failures EXCEPT ![c] = 0]
    /\ guesses' = [guesses EXCEPT ![c] = 0]
    /\ Goto(p, IF c = "login" THEN "issue" ELSE "otpSave")
    /\ UNCHANGED <<user, token, cached, made, version, changed, mishap>>

\* verifyOtp() makes the account active and uses up the code: it has loaded neither the
\* link's token nor the parent.
OtpSave(p) ==
    /\ req[p].pc = "otpSave"
    /\ IF Exists
       THEN /\ user' = [user EXCEPT !.status = "active", !.role = req[p].read.role, !.otp = FALSE]
            /\ mishap' = IF IsStale(p) THEN mishap \cup {"stale"} ELSE mishap
            /\ Goto(p, "issue")
       ELSE UNCHANGED <<user, mishap>> /\ End(p)
    /\ UNCHANGED <<failures, token, cached, made, version, changed, guesses>>

\* 15 minutes after the last failed attempt.
AttemptsExpire(c) ==
    /\ failures[c] > 0
    /\ failures' = [failures EXCEPT ![c] = 0]
    /\ guesses' = [guesses EXCEPT ![c] = 0]
    /\ UNCHANGED <<user, token, cached, req, made, version, changed, mishap>>

(***************************************************************************)
(* Tokens                                                                  *)
(***************************************************************************)
\* refreshTokens(): 'User account is not active'; a token revoked within the grace window
\* is as good as a live one, ...
RefreshFind(p, t) ==
    /\ user.status = "active"
    /\ token[t].status \in {"live", "recent"}
    /\ Begin(p, [Idle EXCEPT !.pc = IF token[t].status = "live" THEN "rotate" ELSE "issue", !.token = t,
                             !.proof = token[t].proof, !.late = token[t].late \/ token[t].status = "recent"])
    /\ UNCHANGED <<user, failures, token, cached, history>>

\* ... which is revoked, ...
RefreshRotate(p) ==
    /\ req[p].pc = "rotate"
    /\ token' = IF Exists THEN [token EXCEPT ![req[p].token].status = "recent"] ELSE token
    /\ Goto(p, "issue")
    /\ UNCHANGED <<user, failures, cached, made, history>>

\* ... and generateTokens() saves another; userId is a foreign key. Login and verification
\* then clear the cached permissions.
TokenIssue(p) ==
    /\ req[p].pc = "issue"
    /\ IF Exists
       THEN \E t \in Token :
               /\ token[t].status = "unused"
               /\ token' = [token EXCEPT ![t] = [status |-> "live", proof |-> req[p].proof, late |-> req[p].late]]
       ELSE UNCHANGED token
    /\ IF Exists /\ req[p].then = "forget" THEN Goto(p, "forget") ELSE End(p)
    /\ UNCHANGED <<user, failures, cached, made, history>>

\* cacheUserPermissions(), and the end of logout().
PermissionsForget(p) ==
    /\ req[p].pc = "forget"
    /\ cached' = Null
    /\ End(p)
    /\ UNCHANGED <<user, failures, token, made, history>>

\* The grace window closes, or the token expires.
TokenAge(t) ==
    /\ token[t].status \in {"live", "recent"}
    /\ token' = [token EXCEPT ![t].status = "revoked"]
    /\ UNCHANGED <<user, failures, cached, req, made, history>>

\* logout() of one token: revoked now, also when it was revoked before.
LogoutOne(p, t) ==
    /\ token[t].status # "unused" /\ Exists
    /\ token' = [token EXCEPT ![t].status = "recent"]
    /\ Begin(p, [Idle EXCEPT !.pc = "forget"])
    /\ UNCHANGED <<user, failures, cached, history>>

\* changePassword(): the current one was right, or there is none; ...
ChangeFind(p) ==
    /\ user.status = "active"
    /\ Begin(p, [Idle EXCEPT !.pc = "passwordUpdate"])
    /\ UNCHANGED <<user, failures, token, cached, history>>

\* ... resetPassword(): the link is the one that was sent, and has not expired.
ResetFind(p) ==
    /\ Exists /\ user.reset
    /\ Begin(p, [Idle EXCEPT !.pc = "passwordUpdate", !.entity = [NoColumns EXCEPT !.reset = TRUE]])
    /\ UNCHANGED <<user, failures, token, cached, history>>

\* Mutant: the sessions go on.
PasswordUpdate_KeepSessions(p) ==
    /\ req[p].pc = "passwordUpdate"
    /\ IF Exists
       THEN /\ user' = [user EXCEPT !.password = version + 1, !.reset = IF req[p].entity.reset THEN FALSE ELSE @]
            /\ version' = version + 1
            /\ changed' = version + 1
       ELSE UNCHANGED <<user, version, changed>>
    /\ Goto(p, "forget")
    /\ UNCHANGED <<failures, token, cached, made, guesses, mishap>>

\* The columns are updated: password, and the link that was used.
PasswordUpdate(p) ==
    /\ req[p].pc = "passwordUpdate"
    /\ IF Exists
       THEN /\ user' = [user EXCEPT !.password = version + 1, !.reset = IF req[p].entity.reset THEN FALSE ELSE @]
            /\ version' = version + 1
            /\ changed' = version + 1
       ELSE UNCHANGED <<user, version, changed>>
    /\ Goto(p, "signOut")
    /\ UNCHANGED <<failures, token, cached, made, guesses, mishap>>

\* Who is about to be given a token, for what he was found to know before.
Proven == {"insert", "userSave", "clear", "otpSave", "rotate", "issue"}

\* "Revoke all tokens for user": logout-all, and the end of a change of password.
SignOut(p) ==
    /\ req[p].pc = "signOut"
    /\ token' = [t \in Token |-> IF token[t].status = "live" THEN [token[t] EXCEPT !.status = "recent"] ELSE token[t]]
    /\ req' = [q \in Proc |-> IF q = p THEN [Idle EXCEPT !.pc = "forget"]
                              ELSE IF req[q].pc \in Proven THEN [req[q] EXCEPT !.late = TRUE] ELSE req[q]]
    /\ UNCHANGED <<user, failures, cached, made, history>>

LogoutAll(p) ==
    /\ Exists
    /\ Begin(p, [Idle EXCEPT !.pc = "signOut"])
    /\ UNCHANGED <<user, failures, token, cached, history>>

\* The process stops, or Redis or the queue fails, and nobody goes on.
Halt(p) ==
    /\ req[p].pc # "idle"
    /\ mishap' = IF req[p].pc = "signOut" THEN mishap \cup {"halfway"} ELSE mishap
    /\ End(p)
    /\ UNCHANGED <<user, failures, token, cached, made, version, changed, guesses>>

(***************************************************************************)
(* The services                                                            *)
(***************************************************************************)
AccountContinue(p) ==
    \/ UserInsert(p) \/ UserSave(p) \/ CodeClear(p)
    \/ AttemptWrong(p) \/ AttemptRefused(p) \/ AttemptRight(p)
    \/ AttemptFail(p) \/ AttemptClear(p) \/ OtpSave(p)
    \/ RefreshRotate(p) \/ TokenIssue(p) \/ PermissionsForget(p)
    \/ PasswordUpdate(p) \/ SignOut(p) \/ Halt(p)

\* The routes of AuthController, UsersController and ParentsController.
AccountRoute(p) ==
    \/ CreateFind(p) \/ ProfileFind(p) \/ AcademicFind(p) \/ RoleFind(p)
    \/ LinkFind(p) \/ SuspendFind(p) \/ ActivateFind(p) \/ DeleteFind(p)
    \/ RegisterFind(p) \/ OAuthFind(p) \/ CodeFind(p) \/ ForgotFind(p)
    \/ \E c \in Counter : AttemptBegin(p, c)
    \/ \E t \in Token : RefreshFind(p, t) \/ LogoutOne(p, t)
    \/ ChangeFind(p) \/ ResetFind(p) \/ LogoutAll(p)

AccountServe(p) == AccountRoute(p) /\ made < MaxRequests /\ made' = made + 1
Clock == (\E c \in Counter : AttemptsExpire(c)) \/ (\E t \in Token : TokenAge(t))

(***************************************************************************)
(* Properties                                                              *)
(***************************************************************************)
\* Every variable holds what its row, its key or a request's memory can hold, and no
\* password is in force that nobody has set.
AccountTypes ==
    /\ user \in User /\ user.password <= version
    /\ failures \in [Counter -> 0..MaxAttempts]
    /\ token \in [Token -> TokenRow]
    /\ \A t \in Token : token[t].proof <= version
    /\ cached \in {Null} \cup SUBSET Permission
    /\ req \in [Proc -> Request]
    /\ \A p \in Proc : req[p].pc = "rotate" => req[p].token \in Token
    /\ made \in Nat /\ version \in Nat
    /\ changed \in 0..version
    /\ guesses \in [Counter -> Nat]
    /\ mishap \subseteq {"stale", "miscounted", "halfway", "reassigned", "crossed", "uncleared", "revived"}

\* "Account temporarily locked due to too many failed attempts" (login, verifyOtp): after
\* MaxAttempts answers of 'Invalid credentials' there is no other before the counter is cleared
\* or expires, unless an attempt wrote a count that was read before another one's was written.
LockedOutUnlessMiscounted ==
    "miscounted" \notin mishap => \A c \in Counter : guesses[c] <= MaxAttempts

\* "Revoke all sessions for security" (changePassword), "Revoke all refresh tokens for
\* security" (resetPassword): when a password was changed and the sessions revoked, no token
\* works for who only knew an older one, unless he was being served at that moment, his
\* revoked token was renewed within the grace window, or the request stopped half way.
SignedOutUnlessLate ==
    /\ "halfway" \notin mishap
    /\ \A p \in Proc : req[p].pc # "signOut"
    => \A t \in Token : token[t].status = "live" /\ ~token[t].late => token[t].proof >= changed
=============================================================================
