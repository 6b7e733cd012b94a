------------------------------- MODULE Roles -------------------------------
(***************************************************************************)
(* RbacService and PermissionsGuard: what an account may do as an          *)
(* administrator. The service's changes are transactions of a super        *)
(* administrator; they clear the account's cached permissions before they  *)
(* commit. The guard reads the cache, or the rows, and fills the cache.    *)
(* The accounts' own services (Accounts) work on the same row meanwhile.   *)
(***************************************************************************)
EXTENDS Accounts

CONSTANTS
    RoleId,  \* admin_roles that may be assigned
    Tx,      \* transactions in progress at the same time
    Guard    \* checks of permissions in progress

ASSUME RoleIdAssumption == Null \notin RoleId
ASSUME PermissionAssumption == \A S \in SUBSET Permission : S # Null

VARIABLES
    role,        \* admin_roles: the permissions of each
    assignment,  \* the account's row of admin_users
    tx,          \* the transactions in progress
    guard        \* the checks in progress

roleVars == <<role, assignment, tx, guard>>
vars == <<accountVars, roleVars>>

Held == {"none", "active", "revoked"}
Assignment == [status : Held, role : RoleId \cup {Null}, previous : Primary \cup {Null}]
NoAssignment == [status |-> "none", role |-> Null, previous |-> Null]

\* found is the account as the transaction found it; draft and drafted are what it will save
\* of the account and its assignment (held, until now), id and permissions what it will save
\* of a role; cleared: the cache has been seen to.
Transaction == [kind : {"idle", "assign", "revoke", "create", "role"}, cleared : BOOLEAN,
                found : Columns, draft : Columns, held : Held, drafted : Assignment,
                id : RoleId \cup {Null}, permissions : SUBSET Permission]
NoTx == [kind |-> "idle", cleared |-> FALSE, found |-> NoColumns, draft |-> NoColumns,
         held |-> "none", drafted |-> NoAssignment, id |-> Null, permissions |-> {}]
Check == [pc : {"idle", "read", "fill"}, keys : {Null} \cup SUBSET Permission]
NoCheck == [pc |-> "idle", keys |-> Null]

Init ==
    /\ AccountInit
    /\ role \in [RoleId -> {Null} \cup {{x} : x \in Permission}]
    /\ assignment = NoAssignment
    /\ tx = [a \in Tx |-> NoTx]
    /\ guard = [g \in Guard |-> NoCheck]

(***************************************************************************)
(* Roles                                                                   *)
(***************************************************************************)
\* createRole(): names are unique.
RoleCreate(r) ==
    /\ role[r] = Null
    /\ \E permissions \in SUBSET Permission : role' = [role EXCEPT ![r] = permissions]
    /\ UNCHANGED <<user, failures, token, cached, req, history, assignment, tx, guard>>

\* Mutant: only active assignments are counted, and nothing stops the delete.
RoleDelete_ActiveOnly(r) ==
    /\ role[r] # Null
    /\ assignment.status = "active" => assignment.role # r
    /\ role' = [role EXCEPT ![r] = Null]
    /\ UNCHANGED <<user, failures, token, cached, req, history, assignment, tx, guard>>

\* deleteRole() counts the assignments, revoked ones too; the foreign key would stop it.
RoleDelete(r) ==
    /\ role[r] # Null
    /\ assignment.status # "none" => assignment.role # r
    /\ role' = [role EXCEPT ![r] = Null]
    /\ UNCHANGED <<user, failures, token, cached, req, history, assignment, tx, guard>>

\* Every other change: what the transaction finds ...
TxBegin(a, transaction) ==
    /\ tx[a].kind = "idle"
    /\ tx' = [tx EXCEPT ![a] = transaction]
    /\ UNCHANGED <<user, failures, token, cached, req, history, role, assignment, guard>>

RoleUpdate(a, r) ==
    /\ role[r] # Null
    /\ \E permissions \in SUBSET Permission :
           TxBegin(a, [NoTx EXCEPT !.kind = "role", !.id = r, !.permissions = permissions])

\* createAdmin(): a new account, with its assignment.
AdminCreate(a, r) ==
    /\ role[r] # Null /\ user.status = "none"
    /\ TxBegin(a, [NoTx EXCEPT !.kind = "create", !.draft = [NoColumns EXCEPT !.status = "active", !.role = "admin"],
                               !.drafted = [NoAssignment EXCEPT !.status = "active", !.role = r]])

\* updateAdminRole(): the role the account had is kept the first time. revokedAt is set to
\* undefined, which save() leaves as it is in the table.
AdminAssign(a, r) ==
    /\ role[r] # Null /\ Exists
    /\ TxBegin(a, [NoTx EXCEPT
           !.kind = "assign", !.found = ColumnsOf(user), !.draft = [ColumnsOf(user) EXCEPT !.role = "admin"],
           !.held = assignment.status,
           !.drafted = [status |-> "active", role |-> r,
                        previous |-> IF assignment.previous = Null /\ user.role \in Primary
                                     THEN user.role ELSE assignment.previous]])

\* revokeAdmin(): an active administrator becomes what he was, or a student.
AdminRevoke(a) ==
    /\ Exists /\ assignment.status = "active"
    /\ TxBegin(a, [NoTx EXCEPT
           !.kind = "revoke", !.found = ColumnsOf(user), !.held = "active", !.drafted = [assignment EXCEPT !.status = "revoked"],
           !.draft = [ColumnsOf(user) EXCEPT
                          !.role = IF assignment.previous = Null THEN "student" ELSE assignment.previous]])

\* Mutant: what is cached stays.
TxClear_Kept(a) ==
    /\ tx[a].kind # "idle" /\ ~tx[a].cleared
    /\ tx' = [tx EXCEPT ![a].cleared = TRUE]
    /\ UNCHANGED <<user, failures, token, cached, req, made, history, role, assignment, guard>>

\* ... the cached permissions are deleted ("Failed to invalidate permission cache" is only
\* logged): a role's, if the account holds it; ...
TxClear(a) ==
    /\ tx[a].kind # "idle" /\ ~tx[a].cleared
    /\ tx' = [tx EXCEPT ![a].cleared = TRUE]
    /\ IF tx[a].kind = "role" /\ (assignment.status # "active" \/ assignment.role # tx[a].id)
       THEN UNCHANGED <<cached, mishap>>
       ELSE \/ cached' = Null /\ UNCHANGED mishap
            \/ cached # Null /\ mishap' = mishap \cup {"uncleared"} /\ UNCHANGED cached
    /\ UNCHANGED <<user, failures, token, req, made, version, changed, guesses, role, assignment, guard>>

\* ... and what was saved is committed. E-mail addresses and the accounts of assignments are
\* unique, and an assignment's role must exist. An account deleted meanwhile would be inserted
\* without a password, which is not loaded with it and may not be null.
CanCommit(t) ==
    \/ t.kind = "role"
    \/ t.kind = "create" /\ user.status = "none" /\ role[t.drafted.role] # Null
    \/ /\ t.kind \in {"assign", "revoke"} /\ Exists /\ role[t.drafted.role] # Null
       /\ (t.held = "none") = (assignment.status = "none")

TxCommit(a) ==
    LET t == tx[a] IN
    /\ t.cleared /\ CanCommit(t)
    /\ IF t.kind = "role"
       THEN /\ role' = [role EXCEPT ![t.id] = t.permissions]
            /\ UNCHANGED <<user, assignment, version, mishap>>
       ELSE /\ user' = [status |-> t.draft.status, role |-> t.draft.role, reset |-> t.draft.reset,
                        parent |-> t.draft.parent, otp |-> user.otp,
                        password |-> IF t.kind = "create" THEN version + 1 ELSE user.password]
            /\ assignment' = IF t.kind = "assign" /\ t.held # "none"
                             THEN [t.drafted EXCEPT !.status = assignment.status] ELSE t.drafted
            /\ version' = IF t.kind = "create" THEN version + 1 ELSE version
            /\ mishap' = mishap \cup (IF t.kind # "create" /\ ColumnsOf(user) # t.found THEN {"stale"} ELSE {})
                                \cup (IF t.kind = "assign" /\ assignment.status = "revoked" THEN {"reassigned"} ELSE {})
            /\ UNCHANGED role
    /\ tx' = [tx EXCEPT ![a] = NoTx]
    /\ UNCHANGED <<failures, token, cached, req, made, changed, guesses, guard>>

\* Any statement may fail: all is rolled back, but the cache is not.
TxAbort(a) ==
    /\ tx[a].kind # "idle"
    /\ tx' = [tx EXCEPT ![a] = NoTx]
    /\ UNCHANGED <<accountVars, role, assignment, guard>>

(***************************************************************************)
(* Checks                                                                  *)
(***************************************************************************)
\* What the rows give the account.
Granted == IF assignment.status = "active" THEN role[assignment.role] ELSE {}

\* getPermissionKeysForUser(): the cache has none, or an empty list; ...
CheckBegin(g) ==
    /\ guard[g].pc = "idle"
    /\ user.status = "active"
    /\ cached \in {Null, {}}
    /\ guard' = [guard EXCEPT ![g].pc = "read"]
    /\ UNCHANGED <<user, failures, token, cached, req, history, role, assignment, tx>>

\* ... the assignment that is not revoked, with its role's permissions; ...
CheckRead(g) ==
    /\ guard[g].pc = "read"
    /\ guard' = [guard EXCEPT ![g] = [pc |-> "fill", keys |-> IF assignment.status = "active" THEN Granted ELSE Null]]
    /\ UNCHANGED <<accountVars, role, assignment, tx>>

\* ... which are cached; or the key is deleted, if there is none.
CheckFill(g) ==
    LET keys == guard[g].keys IN
    /\ guard[g].pc = "fill"
    /\ cached' = keys
    /\ mishap' = IF keys # Null /\ (keys # Granted \/ \E a \in Tx : tx[a].cleared)
                 THEN mishap \cup {"crossed"} ELSE mishap
    /\ guard' = [guard EXCEPT ![g] = NoCheck]
    /\ UNCHANGED <<user, failures, token, req, made, version, changed, guesses, role, assignment, tx>>

CacheExpire ==
    /\ cached # Null
    /\ cached' = Null
    /\ UNCHANGED <<user, failures, token, req, made, history, roleVars>>

(***************************************************************************)
(* The services together                                                   *)
(***************************************************************************)
\* The routes of RbacController that change something, and the guard of every other.
RbacRoute ==
    \/ \E r \in RoleId : RoleCreate(r) \/ RoleDelete(r)
    \/ \E a \in Tx : \/ \E r \in RoleId : RoleUpdate(a, r) \/ AdminCreate(a, r) \/ AdminAssign(a, r)
                    \/ AdminRevoke(a)
    \/ \E g \in Guard : CheckBegin(g)

RbacServe == RbacRoute /\ made < MaxRequests /\ made' = made + 1

RbacContinue ==
    \/ \E a \in Tx : TxClear(a) \/ TxCommit(a) \/ TxAbort(a)
    \/ \E g \in Guard : CheckRead(g) \/ CheckFill(g)

\* An account takes its assignment with it.
Remove(p) == UserRemove(p) /\ assignment' = NoAssignment /\ UNCHANGED <<role, tx, guard>>

Next ==
    \/ \E p \in Proc : \/ (AccountServe(p) \/ AccountContinue(p)) /\ UNCHANGED roleVars
                       \/ Remove(p)
    \/ Clock /\ UNCHANGED roleVars
    \/ RbacServe \/ RbacContinue \/ CacheExpire

Spec == Init /\ [][Next]_vars

(***************************************************************************)
(* Properties                                                              *)
(***************************************************************************)
\* Every variable holds what its row, its key or a request's memory can hold, and the role
\* of an assignment, revoked or not, exists.
TypeOK ==
    /\ AccountTypes
    /\ role \in [RoleId -> {Null} \cup SUBSET Permission]
    /\ assignment \in Assignment
    /\ assignment.status # "none" => assignment.role \in RoleId /\ role[assignment.role] # Null
    /\ tx \in [Tx -> Transaction]
    /\ \A a \in Tx : /\ tx[a].kind = "role" => tx[a].id \in RoleId
                     /\ tx[a].kind \in {"assign", "revoke", "create"} => tx[a].drafted.role \in RoleId
    /\ guard \in [Guard -> Check]

\* "RBAC service owns permission cache population": what is cached for an account is what its
\* assignment gives it, through changes of its role and of the role's permissions, logins and
\* checks: unless a check filled the cache with what it had read before a change, or while
\* one was not committed, the cache could not be cleared, or the account came back by a stale
\* save after its deletion, which leaves the cache alone.
CachedIsGranted ==
    Exists /\ {"crossed", "uncleared", "revived"} \cap mishap = {} /\ (\A a \in Tx : ~tx[a].cleared)
        => cached \in {Null, Granted}

\* 'Cannot mutate admin accounts through this endpoint', 'Use RBAC admin management endpoints for
\* privileged roles' (updateRole), and the revocation: who is assigned is an admin and whose
\* assignment is revoked is none; unless his row was saved as it was before a change, or he was
\* assigned again after a revocation, which leaves the assignment revoked.
AssignedIsAdmin ==
    "stale" \notin mishap =>
        /\ assignment.status = "active" => user.role = "admin"
        /\ assignment.status = "revoked" /\ "reassigned" \notin mishap => user.role # "admin"
=============================================================================
