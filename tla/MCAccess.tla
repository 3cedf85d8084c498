------------------------------ MODULE MCAccess ------------------------------
(* Instances for TLC of the five modules about who gets in and what is kept *)
(* secret.  They share no state in the code: a behaviour is one of them, the *)
(* others rest in an initial state.                                         *)
EXTENDS Sessions, AccountWrites, KeyRotation, RateLimiter, PasswordPolicy

CONSTANTS u1, u2, r1, r2, e1, e2, c1, c2

TwoUsers == {u1, u2}
TwoRoles == {"OWNER", "VIEWER"}
TwoRequests == {r1, r2}
TwoEmails == {e1, e2}
TwoPasswords == {"pw1", "pw2"}
TwoConnectors == {c1, c2}
TwoFlags == {"require_digit", "require_symbol"}

VARIABLE machine    \* the module a behaviour is of
all == <<machine, sessionVars, writeVars, keyVars, limiterVars, policyVars>>

AtRest == CHOOSE p \in Policies : TRUE
Init ==
    /\ machine \in {"sessions", "writes", "keys", "limiter", "policy"}
    /\ SessionsInit /\ KeysInit /\ LimiterInit
    /\ WritesInit /\ (machine # "writes" => ruled = {} /\ secret.now = "none")
    /\ IF machine = "policy" THEN PolicyInit
       ELSE base = AtRest /\ floor = AtRest /\ candidate = CHOOSE c \in Candidates : TRUE
Next ==
    \/ machine = "sessions" /\ SessionsNext
         /\ UNCHANGED <<machine, writeVars, keyVars, limiterVars, policyVars>>
    \/ machine = "writes" /\ WritesNext
         /\ UNCHANGED <<machine, sessionVars, keyVars, limiterVars, policyVars>>
    \/ machine = "keys" /\ KeysNext
         /\ UNCHANGED <<machine, sessionVars, writeVars, limiterVars, policyVars>>
    \/ machine = "limiter" /\ LimiterNext
         /\ UNCHANGED <<machine, sessionVars, writeVars, keyVars, policyVars>>
\* Time passes, whatever else does or does not happen.
Spec == Init /\ [][Next]_all /\ WF_all(machine = "sessions" /\ Tick /\ UNCHANGED <<machine, writeVars, keyVars, limiterVars, policyVars>>)

(* What auth/password.py and the tenant's settings promise of accounts: rules *)
(* that only two requests at a time can bend, and the floor of a rotation.   *)
AccountsSound ==
    /\ WritesTypeOK
    /\ FirstUserOwns /\ TokenSpentOnce /\ OldPasswordsStayOut /\ SsoHasProvider
    /\ FloorNeverWeakens
=============================================================================
