------------------------------ MODULE Sessions ------------------------------
(* Who may do what for how long: the users of a tenant, the tokens they     *)
(* hold and the requests those tokens let through (auth/jwt.py,             *)
(* dependencies.py, rbac.py, service.py, router.py, password.py,            *)
(* tenants/router.py, connectors/directory_sync.py).  A request is judged   *)
(* by its access token alone; rows are read when tokens are issued.         *)
EXTENDS Integers, FiniteSets

CONSTANTS
    Users,        \* the users that may exist; ids are never used again
    Admin,        \* the account the installation creates
    Roles,        \* the roles of the instance, OWNER and VIEWER among them
    AccessLife,   \* ticks an access token lives (15 minutes)
    MaxTokens     \* access tokens alive at a time

ASSUME SessionBounds ==
    /\ Admin \in Users /\ IsFiniteSet(Users)
    /\ {"OWNER", "VIEWER"} \subseteq Roles /\ Roles \subseteq {"OWNER", "ADMIN", "ANALYST", "VIEWER"}
    /\ AccessLife \in Nat \ {0} /\ MaxTokens \in Nat

VARIABLES
    account,    \* the users rows
    enforced,   \* tenants.sso_enforced
    access,     \* the access tokens not yet expired
    refresh,    \* the users that hold a refresh token (7 days: longer than a run)
    idle,       \* ticks since a user's row was last active
    lost        \* ticks since a user's row last had a role

sessionVars == <<account, enforced, access, refresh, idle, lost>>

NoAccount == [exists |-> FALSE, known |-> FALSE, active |-> FALSE, role |-> "VIEWER",
              flag |-> FALSE, password |-> FALSE, allow |-> FALSE]
Forever == 2 * AccessLife
Aged(n) == IF n < Forever THEN n + 1 ELSE n

SessionsTypeOK ==
    /\ account \in [Users -> [exists : BOOLEAN, known : BOOLEAN, active : BOOLEAN, role : Roles,
                              flag : BOOLEAN, password : BOOLEAN, allow : BOOLEAN]]
    /\ enforced \in BOOLEAN
    /\ access \in SUBSET [user : Users, role : Roles, flag : BOOLEAN, age : 0 .. AccessLife - 1]
    /\ refresh \in SUBSET Users
    /\ idle \in [Users -> 0 .. Forever]
    /\ lost \in [Users -> [Roles -> 0 .. Forever]]

\* create_admin: one owner with the default password, to be changed at once.
SessionsInit ==
    /\ account = [u \in Users |->
         IF u = Admin THEN [exists |-> TRUE, known |-> TRUE, active |-> TRUE, role |-> "OWNER",
                            flag |-> TRUE, password |-> TRUE, allow |-> TRUE]
         ELSE NoAccount]
    /\ enforced = FALSE
    /\ access = {} /\ refresh = {}
    /\ idle = [u \in Users |-> IF u = Admin THEN 0 ELSE Forever]
    /\ lost = [u \in Users |-> [r \in Roles |-> IF u = Admin /\ r = "OWNER" THEN 0 ELSE Forever]]

\* The ages follow the rows.
Recorded ==
    /\ idle' = [u \in Users |-> IF account'[u].active THEN 0 ELSE idle[u]]
    /\ lost' = [u \in Users |-> [r \in Roles |->
                 IF account'[u].exists /\ account'[u].role = r THEN 0 ELSE lost[u][r]]]

Write(u, values) == account' = [account EXCEPT ![u] = values] /\ Recorded

AccessTokenUnflagged(u, row) == [user |-> u, role |-> row.role, flag |-> FALSE, age |-> 0]
AccessToken(u, row) == [user |-> u, role |-> row.role, flag |-> row.flag, age |-> 0]

IssueAccess(u, row) ==
    /\ access' = access \cup {AccessToken(u, row)}
    /\ Cardinality(access') <= MaxTokens
IssueTokens(u, row) == IssueAccess(u, row) /\ refresh' = refresh \cup {u}

-----------------------------------------------------------------------------
\* The first user of a tenant becomes its owner.
NewRole == IF \E u \in Users : account[u].exists THEN "VIEWER" ELSE "OWNER"

Register(u) ==
    /\ ~account[u].known
    /\ LET row == [exists |-> TRUE, known |-> TRUE, active |-> TRUE, role |-> NewRole,
                   flag |-> FALSE, password |-> TRUE, allow |-> TRUE]
       IN Write(u, row) /\ IssueTokens(u, row)
    /\ UNCHANGED enforced

LoginWithPassword(u) ==
    /\ account[u].exists /\ account[u].active /\ account[u].password
    /\ ~(enforced /\ ~account[u].allow)
    /\ IssueTokens(u, account[u])
    /\ UNCHANGED <<account, enforced, idle, lost>>

\* The callback of an identity provider: a new user is stored, a known one
\* must be active.
LoginWithSso(u) ==
    /\ account[u].exists \/ ~account[u].known
    /\ LET row == IF account[u].exists THEN account[u]
                  ELSE [exists |-> TRUE, known |-> TRUE, active |-> TRUE, role |-> NewRole,
                        flag |-> FALSE, password |-> FALSE, allow |-> TRUE]
       IN row.active /\ Write(u, row) /\ IssueTokens(u, row)
    /\ UNCHANGED enforced

RefreshWithoutRow(u) ==
    /\ u \in refresh
    /\ IssueAccess(u, account[u])
    /\ UNCHANGED <<account, enforced, refresh, idle, lost>>
Refresh(u) ==
    /\ u \in refresh /\ account[u].exists /\ account[u].active
    /\ IssueAccess(u, account[u])
    /\ UNCHANGED <<account, enforced, refresh, idle, lost>>

\* change-password under a flagged token completes the rotation: the row is
\* found by its id, active or not, and fresh tokens are issued.
Rotate(t) ==
    /\ t.flag /\ account[t.user].exists
    /\ LET row == [account[t.user] EXCEPT !.flag = FALSE, !.password = TRUE] IN
       Write(t.user, row) /\ IssueTokens(t.user, row)
    /\ UNCHANGED enforced

-----------------------------------------------------------------------------
(* Requests an owner's token lets through *)

\* A flagged token reaches nothing outside the allowlist.
Permits(t, role) == ~t.flag /\ t.role = role

ChangeRole(t, u, role) ==
    /\ Permits(t, "OWNER") /\ account[u].exists
    /\ Write(u, [account[u] EXCEPT !.role = role])
    /\ UNCHANGED <<enforced, access, refresh>>
Deactivate(t, u) ==
    /\ Permits(t, "OWNER") /\ account[u].exists /\ u # t.user
    /\ Write(u, [account[u] EXCEPT !.active = FALSE])
    /\ UNCHANGED <<enforced, access, refresh>>
DeleteUser(t, u) ==
    /\ Permits(t, "OWNER") /\ account[u].exists /\ u # t.user
    /\ Write(u, [NoAccount EXCEPT !.known = TRUE])
    /\ UNCHANGED <<enforced, access, refresh>>
\* POST /users stores a user, or gives the one of this address a role and,
\* where the body has one, a password, and activates it.
CreateUser(t, u, role, password) ==
    /\ Permits(t, "OWNER") /\ (account[u].exists \/ ~account[u].known)
    /\ Write(u, [account[u] EXCEPT !.exists = TRUE, !.known = TRUE, !.active = TRUE, !.role = role,
                                   !.password = @ \/ password, !.allow = TRUE])
    /\ UNCHANGED <<enforced, access, refresh>>
TogglePasswordLogin(t, u) ==
    /\ Permits(t, "OWNER") /\ account[u].exists
    /\ Write(u, [account[u] EXCEPT !.allow = ~@])
    /\ UNCHANGED <<enforced, access, refresh>>
EnforceSso(t) ==
    /\ Permits(t, "OWNER")
    /\ enforced' = ~enforced
    /\ UNCHANGED <<account, access, refresh, idle, lost>>

\* A directory sync takes is_active from the provider and stores unknown
\* addresses without password login.
DirectorySync(u, active) ==
    /\ account[u].exists \/ ~account[u].known
    /\ Write(u, IF account[u].exists THEN [account[u] EXCEPT !.active = active]
                ELSE [NoAccount EXCEPT !.exists = TRUE, !.known = TRUE, !.active = active])
    /\ UNCHANGED <<enforced, access, refresh>>

\* Time passes; access tokens expire.
Tick ==
    /\ access' = {[t EXCEPT !.age = @ + 1] : t \in {s \in access : s.age + 1 < AccessLife}}
    /\ idle' = [u \in Users |-> IF account[u].active THEN 0 ELSE Aged(idle[u])]
    /\ lost' = [u \in Users |-> [r \in Roles |->
                 IF account[u].exists /\ account[u].role = r THEN 0 ELSE Aged(lost[u][r])]]
    /\ UNCHANGED <<account, enforced, refresh>>

SessionsNext ==
    \/ \E u \in Users : Register(u) \/ LoginWithPassword(u) \/ LoginWithSso(u) \/ Refresh(u)
    \/ \E t \in access : Rotate(t) \/ EnforceSso(t)
    \/ \E t \in access, u \in Users : Deactivate(t, u) \/ DeleteUser(t, u) \/ TogglePasswordLogin(t, u)
    \/ \E t \in access, u \in Users, role \in Roles :
         ChangeRole(t, u, role) \/ (\E password \in BOOLEAN : CreateUser(t, u, role, password))
    \/ \E u \in Users, active \in BOOLEAN : DirectorySync(u, active)
    \/ Tick

-----------------------------------------------------------------------------
(* A request under an unexpired token has an authority its user really had  *)
(* since it was issued - or, for is_active, within the life of one token    *)
(* before, because the forced rotation issues tokens without reading it.    *)
AuthorityRecent ==
    \A t \in access :
        /\ lost[t.user][t.role] <= t.age
        /\ idle[t.user] <= t.age + (IF t.flag THEN 0 ELSE AccessLife - 1)

(* No token passes the gate while the row still demands a new password,     *)
(* whichever way the token was issued.                                      *)
GateHolds == \A t \in access : account[t.user].flag => t.flag

(* A user the tenant deactivates for good is locked out for good, refresh   *)
(* tokens and forced rotations notwithstanding.                             *)
LockedOut ==
    \A u \in Users :
        <>[](account[u].known /\ ~account[u].active) => <>[](\A t \in access : t.user # u)

(* What tokens carry is what rows said when, or shortly before, they were    *)
(* issued.                                                                  *)
TokensSound == SessionsTypeOK /\ AuthorityRecent /\ GateHolds
=============================================================================
