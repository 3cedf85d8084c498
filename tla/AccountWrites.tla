---------------------------- MODULE AccountWrites ----------------------------
(* The writers of users and of the tenant's settings, from their first read *)
(* to their commit, interleaved (auth/password.py, auth/service.py,          *)
(* auth/router.py, tenants/router.py, connectors/directory_sync.py).  A      *)
(* session reads committed rows and writes the columns it changed.  Three    *)
(* parts are followed that share no row and no decision: the roles of one    *)
(* tenant's users; the password and the token of one account that stays; and *)
(* the settings of a tenant.                                                 *)
EXTENDS Integers, FiniteSets, Sequences, SequencesExt

CONSTANTS
    Requests,     \* requests open at a time
    Emails,       \* addresses of users
    Passwords,    \* passwords a user or an owner may set
    HistoryCount, \* history_count of the tenant's policy
    MaxRequests   \* requests of a run

ASSUME WriteBounds ==
    HistoryCount \in Nat /\ MaxRequests \in Nat /\ "none" \notin Passwords

VARIABLES
    member,     \* the committed role of each user, "none" without a row
    ruled,      \* users who ever were owners: their tokens outlive the role
    granted,    \* users whose role an owner has set
    overruled,  \* whether an owner's row was demoted or deleted
    secret,     \* the committed password of one account, and its history
    token,      \* the entry of _reset_tokens mailed to it
    tenant,     \* sso_enforced and idp_provider
    request,    \* the open requests, with what they read and will write
    used,       \* times the token set a password
    past,       \* every password the account had and who set it, oldest first
    raced,      \* rows read by a request that was open when another wrote them
    opened      \* requests so far

userVars == <<member, ruled, granted, overruled>>
writeVars == <<userVars, secret, token, tenant, request, used, past, raced, opened>>

\* "NONE" stands for an empty idp_provider.
Providers == {"LOCAL", "GOOGLE", "NONE"}
Idle == [op |-> "idle", email |-> "none", role |-> "none", password |-> "none",
         history |-> <<>>, tenant |-> [sso |-> FALSE, idp |-> "LOCAL"], changes |-> {}]

WritesTypeOK ==
    /\ member \in [Emails -> {"none", "OWNER", "VIEWER"}]
    /\ ruled \in SUBSET Emails /\ granted \in SUBSET Emails /\ overruled \in BOOLEAN
    /\ secret.now \in Passwords \cup {"none"} /\ secret.history \in Seq(Passwords)
    /\ token \in {"none", "sent", "gone"}
    /\ tenant \in [sso : BOOLEAN, idp : Providers]
    /\ \A r \in Requests :
         request[r].op \in {"idle", "signup", "change", "reset", "settings"}
    /\ used \in 0 .. MaxRequests
    /\ raced \in SUBSET {"users", "password", "token", "tenant"}
    /\ opened \in 0 .. MaxRequests

\* A tenant without users, or with one who signed up; an account with a
\* password, or one of the directory or of SSO, without.
WritesInit ==
    /\ \E owners \in {{}} \cup {{e} : e \in Emails} :
         /\ ruled = owners
         /\ member = [e \in Emails |-> IF e \in owners THEN "OWNER" ELSE "none"]
    /\ granted = {} /\ overruled = FALSE
    /\ \E p \in Passwords \cup {"none"} :
         /\ secret = [now |-> p, history |-> <<>>]
         /\ past = IF p = "none" THEN <<>> ELSE <<[password |-> p, by |-> "user"]>>
    /\ token = "none"
    /\ tenant = [sso |-> FALSE, idp |-> "GOOGLE"]
    /\ request = [r \in Requests |-> Idle]
    /\ used = 0 /\ raced = {} /\ opened = 0

Open(r, values) ==
    /\ request[r].op = "idle" /\ opened < MaxRequests
    /\ opened' = opened + 1
    /\ request' = [request EXCEPT ![r] = values]
    /\ UNCHANGED <<userVars, secret, token, tenant, used, past, raced>>
Close(r) == request' = [request EXCEPT ![r] = Idle] /\ UNCHANGED opened
\* Another request has read what one of these is about to write.
Races(mine, ops, what) ==
    raced' = IF \E q \in Requests \ mine : request[q].op \in ops THEN raced \cup what ELSE raced

-----------------------------------------------------------------------------
(* register_user and upsert_user *)

FirstRole == IF \A e \in Emails : member[e] = "none" THEN "OWNER" ELSE "VIEWER"

SignUpReads(r, e) ==
    /\ member[e] = "none"
    /\ Open(r, [Idle EXCEPT !.op = "signup", !.email = e, !.role = FirstRole])
\* uq_user_tenant_email keeps a second row of one address out.
SignUpCommits(r) ==
    LET e == request[r].email IN
    /\ request[r].op = "signup" /\ member[e] = "none"
    /\ member' = [member EXCEPT ![e] = request[r].role]
    /\ ruled' = IF request[r].role = "OWNER" THEN ruled \cup {e} ELSE ruled
    /\ Races({r}, {"signup"}, {"users"})
    /\ Close(r)
    /\ UNCHANGED <<granted, overruled, secret, token, tenant, used, past>>

-----------------------------------------------------------------------------
(* update_user_role, create_user, delete_user and a directory's sync.  What  *)
(* they read decides nothing that their commit would not: a row keeps its    *)
(* id, and uq_user_tenant_email keeps a second one out; each is one step.    *)

UserWrite(e, role) ==
    /\ opened < MaxRequests /\ opened' = opened + 1
    /\ member' = [member EXCEPT ![e] = role]
    /\ ruled' = IF role = "OWNER" THEN ruled \cup {e} ELSE ruled
    /\ overruled' = (overruled \/ member[e] = "OWNER")
    /\ UNCHANGED <<secret, token, tenant, request, used, past, raced>>

\* PATCH /users/{id}/role, and POST /users with the address of a user.
GrantRole(e, role) ==
    /\ ruled # {} /\ member[e] \notin {"none", role}
    /\ UserWrite(e, role) /\ granted' = granted \cup {e}
\* POST /users with a new address.
InsertUser(e, role) ==
    /\ ruled # {} /\ member[e] = "none"
    /\ UserWrite(e, role) /\ granted' = granted \cup {e}
\* Nobody deletes oneself.
RemoveUser(e) ==
    /\ ruled \ {e} # {} /\ member[e] # "none"
    /\ UserWrite(e, "none") /\ granted' = granted \ {e}
\* A connector is there only once somebody owned the tenant.
DirectoryInserts(e) ==
    /\ ruled # {} /\ member[e] = "none"
    /\ UserWrite(e, "VIEWER") /\ UNCHANGED granted

-----------------------------------------------------------------------------
(* change_password, request_password_reset, confirm_password_reset, and     *)
(* create_user with the address of the account                               *)

\* check_password_history looks at the end of the history, which the current
\* password is not part of.
Reused(p, history) ==
    \E i \in DOMAIN history : i > Len(history) - HistoryCount /\ history[i] = p

\* The history with the password that is about to go.
Outlived ==
    IF secret.now = "none" THEN secret.history ELSE Append(secret.history, secret.now)

ChangeReads(r, p) ==
    /\ ~Reused(p, secret.history)
    /\ Open(r, [Idle EXCEPT !.op = "change", !.password = p, !.history = Outlived])
RequestReset ==
    /\ token = "none"
    /\ token' = "sent"
    /\ UNCHANGED <<userVars, secret, tenant, request, used, past, raced, opened>>
\* The token is looked up before the rows are read, and taken out after.
ResetReads(r, p) ==
    /\ token = "sent" /\ ~Reused(p, secret.history)
    /\ Open(r, [Idle EXCEPT !.op = "reset", !.password = p, !.history = Outlived])

\* _reset_tokens.pop
NotTaken(r) == token
Taken(r) == IF request[r].op = "reset" THEN "gone" ELSE token

PasswordCommits(r) ==
    /\ request[r].op \in {"change", "reset"}
    /\ secret' = [now |-> request[r].password, history |-> request[r].history]
    /\ past' = Append(past, [password |-> request[r].password, by |-> "user"])
    /\ token' = Taken(r)
    /\ used' = IF request[r].op = "reset" THEN used + 1 ELSE used
    /\ Races({r}, {"change", "reset"},
             {"password"} \cup (IF request[r].op = "reset" THEN {"token"} ELSE {}))
    /\ Close(r)
    /\ UNCHANGED <<userVars, tenant>>
\* The hash is replaced, the history left alone.
OverwritePassword(p) ==
    /\ opened < MaxRequests /\ opened' = opened + 1
    /\ secret' = [now |-> p, history |-> secret.history]
    /\ past' = Append(past, [password |-> p, by |-> "owner"])
    /\ Races({}, {"change", "reset"}, {"password"})
    /\ UNCHANGED <<userVars, token, tenant, request, used>>
\* The entry outlives neither its 30 minutes nor the process.
TokenExpires ==
    /\ token = "sent"
    /\ token' = "gone"
    /\ UNCHANGED <<userVars, secret, tenant, request, used, past, raced, opened>>

-----------------------------------------------------------------------------
(* update_tenant_settings *)

\* sso_enforced first, against the provider stored; then the provider, which
\* ends the enforcement when it becomes LOCAL, not when it becomes empty.
Updated(t, body) ==
    LET sso == IF "sso" \in DOMAIN body THEN body.sso ELSE t.sso
        idp == IF "idp" \in DOMAIN body THEN body.idp ELSE t.idp
    IN [idp |-> idp, sso |-> sso /\ ~("idp" \in DOMAIN body /\ body.idp = "LOCAL")]
Bodies == [sso : BOOLEAN] \cup [idp : Providers] \cup [sso : BOOLEAN, idp : Providers]

SettingsRead(r, body) ==
    /\ "sso" \in DOMAIN body /\ body.sso => tenant.idp \notin {"LOCAL", "NONE"}
    /\ LET new == Updated(tenant, body) IN
       Open(r, [Idle EXCEPT !.op = "settings", !.tenant = new,
                            !.changes = {c \in {"sso", "idp"} : new[c] # tenant[c]}])
\* The UPDATE names the columns that changed.
SettingsCommit(r) ==
    /\ request[r].op = "settings"
    /\ tenant' = [c \in {"sso", "idp"} |->
                   IF c \in request[r].changes THEN request[r].tenant[c] ELSE tenant[c]]
    /\ Races({r}, {"settings"}, {"tenant"})
    /\ Close(r)
    /\ UNCHANGED <<userVars, secret, token, used, past>>

\* The commit fails, audit() raises or the process restarts: what the session
\* wrote is rolled back, but a token taken out stays out.
RollsBack(r) ==
    /\ request[r].op # "idle"
    /\ token' \in {token, Taken(r)}
    /\ Close(r)
    /\ UNCHANGED <<userVars, secret, tenant, used, past, raced>>

WritesNext ==
    \/ \E r \in Requests :
         \/ SignUpCommits(r) \/ PasswordCommits(r) \/ SettingsCommit(r)
         \/ RollsBack(r)
         \/ \E e \in Emails : SignUpReads(r, e)
         \/ \E p \in Passwords : ChangeReads(r, p) \/ ResetReads(r, p)
         \/ \E body \in Bodies : SettingsRead(r, body)
    \/ \E e \in Emails :
         \/ RemoveUser(e) \/ DirectoryInserts(e)
         \/ \E role \in {"OWNER", "VIEWER"} : GrantRole(e, role) \/ InsertUser(e, role)
    \/ \E p \in Passwords : OverwritePassword(p)
    \/ RequestReset \/ TokenExpires

-----------------------------------------------------------------------------
(* A tenant with users has an owner from the first commit on, until an      *)
(* owner's request demotes or deletes one; and not two that no owner made   *)
(* so, unless two people signed up before either was stored.                *)
FirstUserOwns ==
    LET owners == {e \in Emails : member[e] = "OWNER"} IN
    /\ (\E e \in Emails : member[e] # "none") => owners # {} \/ overruled
    /\ Cardinality(owners \ granted) > 1 => "users" \in raced

(* A reset token sets one password, unless two requests that present it     *)
(* both look it up before one takes it out.                                 *)
TokenSpentOnce == used > 1 => "token" \in raced

(* A user sets no password again within HistoryCount changes, except the    *)
(* current one, one that an owner overwrote, which no history keeps, and    *)
(* when a change was under way while another wrote, and a history is lost.  *)
OldPasswordsStayOut ==
    LET n == Len(past) IN
    "password" \notin raced =>
        \A i \in DOMAIN past :
            /\ n - 1 - HistoryCount <= i /\ i <= n - 2
            /\ past[n].by = "user" /\ past[i + 1].by = "user"
            => past[i].password # past[n].password

(* SSO is not enforced with LOCAL for a provider, whatever order the two    *)
(* settings change in, unless two updates were open at a time.  (With an    *)
(* empty provider it may stay enforced.)                                    *)
SsoHasProvider == tenant.sso /\ tenant.idp = "LOCAL" => "tenant" \in raced
=============================================================================
