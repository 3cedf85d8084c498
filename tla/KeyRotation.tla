----------------------------- MODULE KeyRotation -----------------------------
(* `python -m app.encryption rotate` against the connector settings of a     *)
(* running backend (encryption.py, connectors/service.py).  The command      *)
(* reads every credential, re-encrypts it and commits once; the backend goes *)
(* on with the old key until .env is edited and it restarts.                 *)
EXTENDS Integers, FiniteSets

CONSTANTS
    Connectors,    \* the connector_configs rows that may exist
    MaxEntries,    \* credentials entered by an administrator
    MaxRotations   \* rotations started

ASSUME RotationBounds == MaxEntries \in Nat /\ MaxRotations \in Nat

VARIABLES
    row,       \* the committed row of each connector: key and secret
    entered,   \* the last secret an administrator entered for it
    appKey,    \* the key the backend runs with
    pending,   \* the key of a rotation that committed and waits for the
               \* restart, 0 if none does
    cli,       \* the command: its stage, the rows it read, those missed then
    missed,    \* connectors written while a rotation was under way
    made       \* secrets entered and rotations started so far

keyVars == <<row, entered, appKey, pending, cli, missed, made>>

NoRow == [key |-> 0, secret |-> 0]
Rows == [key : 0 .. MaxRotations + 1, secret : 0 .. MaxEntries]
\* Keys are numbered: 1 at first, and one for each rotation.
NewKey == made.rotations + 1
IdleCli == [stage |-> "idle", read |-> [c \in Connectors |-> NoRow], stale |-> {},
            again |-> FALSE, refused |-> FALSE]

KeysTypeOK ==
    /\ row \in [Connectors -> Rows]
    /\ entered \in [Connectors -> 0 .. MaxEntries]
    /\ appKey \in 1 .. MaxRotations + 1 /\ pending \in 0 .. MaxRotations + 1
    /\ cli \in [stage : {"idle", "read"}, read : [Connectors -> Rows],
               stale : SUBSET Connectors, again : BOOLEAN, refused : BOOLEAN]
    /\ missed \in SUBSET Connectors
    /\ made \in [secrets : 0 .. MaxEntries, rotations : 0 .. MaxRotations]

KeysInit ==
    /\ row = [c \in Connectors |-> NoRow]
    /\ entered = [c \in Connectors |-> 0]
    /\ appKey = 1 /\ pending = 0
    /\ cli = IdleCli
    /\ missed = {}
    /\ made = [secrets |-> 0, rotations |-> 0]

Stored(c) == row[c] # NoRow
\* From the reading of a rotation to the restart after its commit.
UnderWay == cli.stage = "read" \/ pending # 0

\* create_connector, update_connector: encrypted with the key of the backend.
SaveCredentials(c) ==
    /\ made.secrets < MaxEntries
    /\ made' = [made EXCEPT !.secrets = @ + 1]
    /\ row' = [row EXCEPT ![c] = [key |-> appKey, secret |-> made'.secrets]]
    /\ entered' = [entered EXCEPT ![c] = made'.secrets]
    /\ missed' = IF UnderWay THEN missed \cup {c} ELSE missed \ {c}
    /\ UNCHANGED <<appKey, pending, cli>>
DeleteCredentials(c) ==
    /\ Stored(c)
    /\ row' = [row EXCEPT ![c] = NoRow]
    /\ entered' = [entered EXCEPT ![c] = 0]
    /\ missed' = missed \ {c}
    /\ UNCHANGED <<appKey, pending, cli, made>>

\* The session reads every row, those of other sessions as last committed; a
\* rotation that committed may still wait for the restart.
ReadRows ==
    /\ cli.stage = "idle" /\ made.rotations < MaxRotations
    /\ made' = [made EXCEPT !.rotations = @ + 1]
    /\ cli' = [stage |-> "read", read |-> row, stale |-> missed, again |-> pending # 0,
               refused |-> FALSE]
    /\ UNCHANGED <<row, entered, appKey, pending, missed>>

\* Pre-flight: one credential the key of the backend cannot read refuses the
\* rotation; a row deleted since makes its UPDATE match nothing, and all is
\* rolled back.
Sound == \A c \in Connectors : cli.read[c] = NoRow \/ cli.read[c].key = appKey
Present == \A c \in Connectors : cli.read[c] # NoRow => Stored(c)

ReencryptRowByRow ==
    /\ cli.stage = "read" /\ Sound /\ Present
    /\ \E done \in SUBSET Connectors :
         row' = [c \in Connectors |->
           IF cli.read[c] = NoRow \/ c \notin done THEN row[c]
           ELSE [key |-> NewKey, secret |-> cli.read[c].secret]]
    /\ cli' = IdleCli /\ pending' = NewKey
    /\ UNCHANGED <<entered, appKey, missed, made>>
Reencrypt ==
    /\ cli.stage = "read" /\ Sound /\ Present
    /\ row' = [c \in Connectors |->
         IF cli.read[c] = NoRow THEN row[c] ELSE [key |-> NewKey, secret |-> cli.read[c].secret]]
    /\ cli' = IdleCli /\ pending' = NewKey
    /\ UNCHANGED <<entered, appKey, missed, made>>
\* Rolled back: by the checks, by --dry-run, at the prompt or by a crash.
AbortRotation ==
    /\ cli.stage = "read"
    /\ cli' = [IdleCli EXCEPT !.refused = ~Sound, !.stale = cli.stale, !.again = cli.again]
    /\ UNCHANGED <<row, entered, appKey, pending, missed, made>>
\* ENCRYPTION_KEY is set in .env to the key of the last rotation and the
\* backend restarts; a command that runs in its container ends.
Restart ==
    /\ pending # 0
    /\ appKey' = pending /\ pending' = 0
    /\ cli' = IdleCli
    /\ UNCHANGED <<row, entered, missed, made>>

KeysNext ==
    \/ \E c \in Connectors : SaveCredentials(c) \/ DeleteCredentials(c)
    \/ ReadRows \/ Reencrypt \/ AbortRotation \/ Restart

-----------------------------------------------------------------------------
\* get_decrypted_credentials gives nothing for a row another key wrote.
Readable(c) == row[c].key = appKey

(* Between rotations the backend reads every credential, except those that  *)
(* were entered while a rotation was under way: whatever fails, no rotation *)
(* leaves rows under two keys.                                              *)
CredentialsReadable ==
    ~UnderWay => \A c \in Connectors : Stored(c) => Readable(c) \/ c \in missed

(* A stored credential is the one last entered, unless it was entered while *)
(* a rotation was under way and the rotation wrote back what it had read.   *)
CredentialsKept ==
    \A c \in Connectors : Stored(c) => row[c].secret = entered[c] \/ c \in missed

(* The command refuses only when some credential was entered while an       *)
(* earlier rotation was under way, or while the backend has not yet been    *)
(* restarted with the key of a rotation that committed.                     *)
RefusedForCause == cli.refused => cli.stale # {} \/ cli.again

(* Rotations, finished, repeated before the restart, failed or refused, lose *)
(* no credential and make none unreadable, but those entered under way.      *)
KeysSound == KeysTypeOK /\ CredentialsReadable /\ CredentialsKept /\ RefusedForCause
=============================================================================
