--------------------------- MODULE PasswordPolicy ---------------------------
(* The policy a new password is held to (auth/password.py): the tenant's,    *)
(* and on a forced rotation its merge with a floor.                          *)
EXTENDS Integers

CONSTANTS
    MaxLength,   \* lengths and history counts of the instance
    Flags        \* the characters a policy may require: upper, lower, digit, symbol

ASSUME PolicyBounds == MaxLength \in Nat

Policies == [min_length : 0 .. MaxLength, require : [Flags -> BOOLEAN], history_count : 0 .. MaxLength]

\* A password is its length and the kinds of characters it has.
Candidates == [length : 0 .. MaxLength, has : [Flags -> BOOLEAN]]

VARIABLES base, floor, candidate
policyVars == <<base, floor, candidate>>

Larger(a, b) == IF a > b THEN a ELSE b

\* merge_policy_floor: the stricter value wins.
Merge(tenant, least) ==
    [min_length |-> Larger(tenant.min_length, least.min_length),
     require |-> [f \in Flags |-> tenant.require[f] \/ least.require[f]],
     history_count |-> Larger(tenant.history_count, least.history_count)]

\* validate_password returns no error.
Valid(password, policy) ==
    /\ password.length >= policy.min_length
    /\ \A f \in Flags : policy.require[f] => password.has[f]

PolicyInit == base \in Policies /\ floor \in Policies /\ candidate \in Candidates

(* A forced rotation accepts exactly the passwords that satisfy both the    *)
(* tenant's policy and the floor, and looks as far back as either.          *)
FloorNeverWeakens ==
    /\ Valid(candidate, Merge(base, floor)) <=> Valid(candidate, base) /\ Valid(candidate, floor)
    /\ Merge(base, floor).history_count >= base.history_count
    /\ Merge(base, floor).history_count >= floor.history_count
=============================================================================
