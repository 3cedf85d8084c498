----------------------------- MODULE AccessProofs -----------------------------
(* For any users, credentials, requests and passwords: what tokens carry is   *)
(* recent, rotations of the key lose nothing, the rate limit holds, and what  *)
(* is promised of accounts is kept.  The components share no state: each has  *)
(* an invariant of its own; what is promised of accounts spans two of them.   *)
EXTENDS MCAccess, FiniteSetTheorems, TLAPS

SessionsSpec == SessionsInit /\ [][SessionsNext]_sessionVars
KeysSpec == KeysInit /\ [][KeysNext]_keyVars
LimiterSpec == LimiterInit /\ [][LimiterNext]_limiterVars

-----------------------------------------------------------------------------
(* Credentials under rotation                                                 *)

CliRec == [stage : {"idle", "read"}, read : [Connectors -> Rows], stale : SUBSET Connectors,
           again : BOOLEAN, refused : BOOLEAN]
\* The rows are under the key of the last rotation that committed: the one that
\* waits for the restart, or the backend's.
RowsUnderOneKey ==
    \A c \in Connectors : Stored(c) =>
        c \in missed \/ row[c].key = IF pending # 0 THEN pending ELSE appKey
\* A row that was not written since the command read it is as it was read.
ReadStands ==
    cli.stage = "read" => \A c \in Connectors : Stored(c) => row[c] = cli.read[c] \/ c \in missed
\* What the command read is under the backend's key, but for what was missed
\* before, and unless a rotation waited for the restart.
ReadUnderOldKey ==
    cli.stage = "read" =>
        \A c \in Connectors :
            cli.read[c] = NoRow \/ cli.read[c].key = appKey \/ c \in cli.stale \/ cli.again
KeysInv ==
    /\ KeysTypeOK /\ RowsUnderOneKey /\ CredentialsKept
    /\ ReadStands /\ ReadUnderOldKey /\ RefusedForCause

LEMMA NoRowIsRow == NoRow \in Rows /\ NoRow.key = 0
BY RotationBounds DEF NoRow, Rows

LEMMA IdleCliShape ==
    IdleCli \in CliRec /\ IdleCli.stage = "idle" /\ IdleCli.refused = FALSE
BY NoRowIsRow DEF IdleCli, CliRec

LEMMA KeysStart == KeysInit => KeysInv
<1> SUFFICES ASSUME KeysInit PROVE KeysInv
  OBVIOUS
<1>1. KeysTypeOK
  BY RotationBounds, NoRowIsRow, IdleCliShape DEF KeysInit, KeysTypeOK, CliRec
<1>2. \A c \in Connectors : ~Stored(c)
  BY DEF KeysInit, Stored
<1>3. cli.stage = "idle" /\ cli.refused = FALSE
  BY IdleCliShape DEF KeysInit
<1> QED BY <1>1, <1>2, <1>3
    DEF KeysInv, RowsUnderOneKey, CredentialsKept, ReadStands, ReadUnderOldKey, RefusedForCause

LEMMA SaveKeepsKeys ==
    ASSUME KeysInv, NEW c \in Connectors, SaveCredentials(c) PROVE KeysInv'
<1> DEFINE new == [key |-> appKey, secret |-> made.secrets + 1]
<1>1. /\ made.secrets < MaxEntries /\ made' = [made EXCEPT !.secrets = @ + 1]
      /\ row' = [row EXCEPT ![c] = new]
      /\ entered' = [entered EXCEPT ![c] = made.secrets + 1]
      /\ missed' = IF UnderWay THEN missed \cup {c} ELSE missed \ {c}
      /\ appKey' = appKey /\ pending' = pending /\ cli' = cli
  BY DEF SaveCredentials, KeysInv, KeysTypeOK
<1>2. /\ made.secrets + 1 \in 0 .. MaxEntries /\ made'.secrets = made.secrets + 1
      /\ made' \in [secrets : 0 .. MaxEntries, rotations : 0 .. MaxRotations]
  BY <1>1, RotationBounds DEF KeysInv, KeysTypeOK
<1>3. new \in Rows
  BY <1>2, RotationBounds DEF KeysInv, KeysTypeOK, Rows
<1>4. KeysTypeOK'
  BY <1>1, <1>2, <1>3 DEF KeysInv, KeysTypeOK
<1>5. /\ \A d \in Connectors : d # c => row'[d] = row[d] /\ entered'[d] = entered[d]
      /\ row'[c] = new /\ entered'[c] = new.secret
      /\ \A d \in Connectors : d # c => (d \in missed' <=> d \in missed)
      /\ UnderWay => c \in missed'
  BY <1>1 DEF KeysInv, KeysTypeOK
<1>6. RowsUnderOneKey'
  BY <1>1, <1>5 DEF KeysInv, RowsUnderOneKey, UnderWay, Stored
<1>7. CredentialsKept' /\ ReadStands'
  BY <1>1, <1>5 DEF KeysInv, CredentialsKept, ReadStands, UnderWay, Stored
<1>8. ReadUnderOldKey' /\ RefusedForCause'
  BY <1>1 DEF KeysInv, ReadUnderOldKey, RefusedForCause
<1> QED BY <1>4, <1>6, <1>7, <1>8 DEF KeysInv

LEMMA DeleteKeepsKeys ==
    ASSUME KeysInv, NEW c \in Connectors, DeleteCredentials(c) PROVE KeysInv'
<1>1. /\ row' = [row EXCEPT ![c] = NoRow] /\ entered' = [entered EXCEPT ![c] = 0]
      /\ missed' = missed \ {c} /\ UNCHANGED <<appKey, pending, cli, made>>
  BY DEF DeleteCredentials
<1>2. KeysTypeOK'
  BY <1>1, NoRowIsRow, RotationBounds DEF KeysInv, KeysTypeOK
<1>3. /\ \A d \in Connectors : d # c => row'[d] = row[d] /\ entered'[d] = entered[d]
      /\ row'[c] = NoRow
      /\ \A d \in Connectors : d # c => (d \in missed' <=> d \in missed)
  BY <1>1 DEF KeysInv, KeysTypeOK
<1>4. RowsUnderOneKey'
  BY <1>1, <1>3 DEF KeysInv, RowsUnderOneKey, Stored
<1>5. CredentialsKept' /\ ReadStands'
  BY <1>1, <1>3 DEF KeysInv, CredentialsKept, ReadStands, Stored
<1>6. ReadUnderOldKey' /\ RefusedForCause'
  BY <1>1 DEF KeysInv, ReadUnderOldKey, RefusedForCause
<1> QED BY <1>2, <1>4, <1>5, <1>6 DEF KeysInv

LEMMA ReadKeepsKeys == ASSUME KeysInv, ReadRows PROVE KeysInv'
<1>1. /\ cli.stage = "idle" /\ made.rotations < MaxRotations
      /\ made' = [made EXCEPT !.rotations = @ + 1]
      /\ cli' = [stage |-> "read", read |-> row, stale |-> missed, again |-> pending # 0,
                 refused |-> FALSE]
      /\ UNCHANGED <<row, entered, appKey, pending, missed>>
  BY DEF ReadRows
<1>2. made' \in [secrets : 0 .. MaxEntries, rotations : 0 .. MaxRotations]
  BY <1>1, RotationBounds DEF KeysInv, KeysTypeOK
<1>3. KeysTypeOK'
  BY <1>1, <1>2 DEF KeysInv, KeysTypeOK
<1>4. RowsUnderOneKey' /\ CredentialsKept' /\ ReadStands' /\ RefusedForCause'
  BY <1>1 DEF KeysInv, RowsUnderOneKey, CredentialsKept, ReadStands, RefusedForCause, Stored
<1>5. ReadUnderOldKey'
  BY <1>1 DEF KeysInv, RowsUnderOneKey, ReadUnderOldKey, Stored
<1> QED BY <1>3, <1>4, <1>5 DEF KeysInv

\* The rows come under the new key together, those a rotation before it wrote
\* included: it can only commit if it read none of them.
LEMMA ReencryptKeepsKeys == ASSUME KeysInv, Reencrypt PROVE KeysInv'
<1>1. /\ cli.stage = "read" /\ Sound /\ Present
      /\ row' = [c \in Connectors |->
           IF cli.read[c] = NoRow THEN row[c] ELSE [key |-> NewKey, secret |-> cli.read[c].secret]]
      /\ cli' = IdleCli /\ pending' = NewKey
      /\ UNCHANGED <<entered, appKey, missed, made>>
  BY DEF Reencrypt
<1>2. NewKey \in 0 .. MaxRotations + 1 /\ NewKey # 0
  BY RotationBounds DEF KeysInv, KeysTypeOK, NewKey
<1>3. row' \in [Connectors -> Rows]
  BY <1>1, <1>2 DEF KeysInv, KeysTypeOK, Rows
<1>4. cli'.stage = "idle" /\ cli'.refused = FALSE /\ cli' \in CliRec
  BY <1>1, IdleCliShape
<1>5. KeysTypeOK'
  BY <1>1, <1>2, <1>3, <1>4 DEF KeysInv, KeysTypeOK, CliRec
<1>6. ASSUME NEW c \in Connectors, Stored(c)', c \notin missed
      PROVE  /\ row'[c].key = NewKey
             /\ row'[c].secret = entered[c]
  <2>1. Stored(c)
    BY <1>1, <1>6 DEF Stored, Present
  <2>2. row[c] = cli.read[c]
    BY <1>1, <1>6, <2>1 DEF KeysInv, ReadStands
  <2>3. row[c].secret = entered[c]
    BY <1>6, <2>1 DEF KeysInv, CredentialsKept
  <2>4. row'[c] = [key |-> NewKey, secret |-> cli.read[c].secret]
    BY <1>1, <2>1, <2>2 DEF Stored
  <2> QED BY <2>2, <2>3, <2>4
<1>7. RowsUnderOneKey' /\ CredentialsKept'
  BY <1>1, <1>2, <1>6 DEF RowsUnderOneKey, CredentialsKept
<1>8. ReadStands' /\ ReadUnderOldKey' /\ RefusedForCause'
  BY <1>4 DEF ReadStands, ReadUnderOldKey, RefusedForCause
<1> QED BY <1>5, <1>7, <1>8 DEF KeysInv

LEMMA AbortKeepsKeys == ASSUME KeysInv, AbortRotation PROVE KeysInv'
<1>1. /\ cli.stage = "read"
      /\ cli' = [IdleCli EXCEPT !.refused = ~Sound, !.stale = cli.stale, !.again = cli.again]
      /\ UNCHANGED <<row, entered, appKey, pending, missed, made>>
  BY DEF AbortRotation
<1>2. Sound \in BOOLEAN
  BY DEF Sound
<1>3. /\ cli'.stage = "idle" /\ cli'.refused = ~Sound /\ cli'.stale = cli.stale
      /\ cli'.again = cli.again /\ cli' \in CliRec
  BY <1>1, <1>2, IdleCliShape DEF KeysInv, KeysTypeOK, CliRec
<1>4. KeysTypeOK'
  BY <1>1, <1>3 DEF KeysInv, KeysTypeOK, CliRec
<1>5. RefusedForCause'
  BY <1>1, <1>3 DEF KeysInv, ReadUnderOldKey, RefusedForCause, Sound
<1>6. RowsUnderOneKey' /\ CredentialsKept' /\ ReadStands' /\ ReadUnderOldKey'
  BY <1>1, <1>3 DEF KeysInv, RowsUnderOneKey, CredentialsKept, ReadStands, ReadUnderOldKey, Stored
<1> QED BY <1>4, <1>5, <1>6 DEF KeysInv

LEMMA RestartKeepsKeys == ASSUME KeysInv, Restart PROVE KeysInv'
<1>1. /\ pending # 0 /\ appKey' = pending /\ pending' = 0 /\ cli' = IdleCli
      /\ UNCHANGED <<row, entered, missed, made>>
  BY DEF Restart
<1>2. appKey' \in 1 .. MaxRotations + 1 /\ pending' \in 0 .. MaxRotations + 1
  BY <1>1, RotationBounds DEF KeysInv, KeysTypeOK
<1>3. cli'.stage = "idle" /\ cli'.refused = FALSE /\ cli' \in CliRec
  BY <1>1, IdleCliShape
<1>4. KeysTypeOK'
  BY <1>1, <1>2, <1>3 DEF KeysInv, KeysTypeOK, CliRec
<1>5. RowsUnderOneKey' /\ CredentialsKept'
  BY <1>1 DEF KeysInv, RowsUnderOneKey, CredentialsKept, Stored
<1>6. ReadStands' /\ ReadUnderOldKey' /\ RefusedForCause'
  BY <1>3 DEF ReadStands, ReadUnderOldKey, RefusedForCause
<1> QED BY <1>4, <1>5, <1>6 DEF KeysInv

LEMMA KeysInductive == KeysInv /\ [KeysNext]_keyVars => KeysInv'
<1> SUFFICES ASSUME KeysInv, [KeysNext]_keyVars PROVE KeysInv'
  OBVIOUS
<1>1. CASE UNCHANGED keyVars
  BY <1>1 DEF keyVars, KeysInv, KeysTypeOK, RowsUnderOneKey, CredentialsKept,
              ReadStands, ReadUnderOldKey, RefusedForCause, Stored
<1>2. ASSUME NEW c \in Connectors, SaveCredentials(c) \/ DeleteCredentials(c) PROVE KeysInv'
  BY <1>2, SaveKeepsKeys, DeleteKeepsKeys
<1>3. CASE ReadRows \/ Reencrypt \/ AbortRotation \/ Restart
  BY <1>3, ReadKeepsKeys, ReencryptKeepsKeys, AbortKeepsKeys, RestartKeepsKeys
<1> QED BY <1>1, <1>2, <1>3 DEF KeysNext

\* A rotation, finished, repeated before the restart, failed or refused, loses
\* no credential and makes none unreadable but those entered under way, and
\* refuses only because of such or because the restart is due.
THEOREM RotationKeepsCredentials == KeysSpec => []KeysSound
<1>1. KeysInv => KeysSound
  BY DEF KeysInv, KeysSound, RowsUnderOneKey, CredentialsReadable, UnderWay, Readable
<1> QED BY <1>1, KeysStart, KeysInductive, PTL DEF KeysSpec

-----------------------------------------------------------------------------
(* The rate limiter                                                           *)

\* What Redis counted, and of it what is entered now.
Counted == Inside(through) \ free
Entered == Inside(through) \cap DOMAIN entries
\* A request let through within the window is as old as its entry, and the key
\* expires no earlier than such a request leaves the window.
AgesAgree ==
    \A q \in DOMAIN entries \cap DOMAIN through :
        entries[q] = through[q] /\ through[q] + expiry >= Window
\* A counted request that is not entered was lost with the set, the last time
\* or before.
LostEarlier ==
    /\ \A q \in Counted \ DOMAIN entries :
         q \in losses.requests \/ through[q] >= losses.before
    /\ \A q \in DOMAIN through \cap losses.requests : through[q] >= losses.last
    /\ \A q \in DOMAIN through \cap free : through[q] >= dark
\* The set is lost only while Redis does not answer.
LossesInTheDark == dark <= losses.last /\ losses.last <= losses.before /\ (~up => dark = 0)
FewOfASet ==
    /\ Cardinality(Entered) <= Limit
    /\ Cardinality(Inside(through) \cap losses.requests) <= Limit
NumbersPast == DOMAIN entries \cup DOMAIN through \cup free \cup losses.requests \subseteq 1 .. asked
LimiterInv ==
    /\ LimiterTypeOK /\ AgesAgree /\ LostEarlier /\ LossesInTheDark /\ FewOfASet /\ NumbersPast

LEMMA SomeAsked ==
    ASSUME NEW S, S \subseteq Asked PROVE IsFiniteSet(S) /\ Cardinality(S) \in Nat
<1>1. IsFiniteSet(Asked)
  BY LimiterBounds, FS_Interval DEF Asked
<1> QED BY <1>1, FS_Subset, FS_CardinalityType

\* Of few, fewer remain.
LEMMA FewerRemain ==
    ASSUME NEW S, NEW T, S \subseteq T, T \subseteq Asked, NEW n \in Nat, Cardinality(T) <= n
    PROVE  Cardinality(S) <= n
<1>1. Cardinality(S) <= Cardinality(T)
  BY SomeAsked, FS_Subset
<1>2. Cardinality(S) \in Nat /\ Cardinality(T) \in Nat
  BY SomeAsked
<1> QED BY <1>1, <1>2

\* The invariant gives the bounds: without a loss in the window all that was
\* counted is entered; with one it is entered or was lost with the set.
LEMMA WindowBounded == LimiterInv => LimiterSound
<1> SUFFICES ASSUME LimiterInv PROVE LimiterSound
  OBVIOUS
<1>1. /\ Inside(through) \subseteq Asked /\ Limit \in Nat /\ Window \in Nat
      /\ \A q \in Inside(through) : q \in DOMAIN through /\ through[q] < Window /\ through[q] \in Nat
      /\ losses.last \in 0 .. Window /\ losses.before \in 0 .. Window /\ dark \in 0 .. Window
  BY LimiterBounds DEF LimiterInv, LimiterTypeOK, Inside
<1>2. ASSUME losses.last = Window PROVE Cardinality(Counted) <= Limit
  <2>1. losses.before = Window
    BY <1>1, <1>2 DEF LimiterInv, LossesInTheDark
  <2>2. Counted \subseteq Entered
    BY <1>1, <1>2, <2>1 DEF LimiterInv, LostEarlier, Counted, Entered
  <2> QED BY <1>1, <2>2, FewerRemain DEF LimiterInv, FewOfASet, Entered
<1>3. ASSUME losses.before = Window PROVE Cardinality(Counted) <= 2 * Limit
  <2> DEFINE former == Inside(through) \cap losses.requests
  <2>1. Counted \subseteq Entered \cup former
    BY <1>1, <1>3 DEF LimiterInv, LostEarlier, Counted, Entered
  <2>2. /\ Cardinality(Entered) <= Limit /\ Cardinality(former) <= Limit
        /\ Entered \subseteq Asked /\ former \subseteq Asked
    BY <1>1 DEF LimiterInv, FewOfASet, Entered
  <2> HIDE DEF former
  <2>3. /\ IsFiniteSet(Entered) /\ IsFiniteSet(former)
        /\ Cardinality(Entered) \in Nat /\ Cardinality(former) \in Nat
        /\ Cardinality(Entered \cap former) \in Nat
    BY <2>2, SomeAsked
  <2>4. Cardinality(Entered \cup former) <= 2 * Limit
    <3>1. Cardinality(Entered \cup former) =
            Cardinality(Entered) + Cardinality(former) - Cardinality(Entered \cap former)
      BY <2>3, FS_Union
    <3> QED BY <1>1, <2>2, <2>3, <3>1
  <2>5. Entered \cup former \subseteq Asked /\ 2 * Limit \in Nat
    BY <1>1, <2>2
  <2> QED BY <2>1, <2>4, <2>5, FewerRemain
<1>4. ASSUME dark = Window PROVE Cardinality(Inside(through)) <= Limit
  <2>1. losses.last = Window
    BY <1>1, <1>4 DEF LimiterInv, LossesInTheDark
  <2>2. Inside(through) = Counted
    BY <1>1, <1>4 DEF LimiterInv, LostEarlier, Counted
  <2> QED BY <1>2, <2>1, <2>2
<1> QED BY <1>2, <1>3, <1>4 DEF LimiterInv, LimiterSound, AtMostLimit, LossStartsAnew, Counted

LEMMA LimiterStart == LimiterInit => LimiterInv
<1> SUFFICES ASSUME LimiterInit PROVE LimiterInv
  OBVIOUS
<1>1. /\ DOMAIN entries = {} /\ DOMAIN through = {} /\ Inside(through) = {} /\ losses.requests = {}
      /\ free = {}
  BY DEF LimiterInit, Inside
<1>2. Entered = {} /\ Inside(through) \cap losses.requests = {} /\ Counted = {}
  BY <1>1 DEF Entered, Counted
<1>3. FewOfASet
  BY <1>2, FS_EmptySet, LimiterBounds DEF FewOfASet
<1> QED BY <1>1, <1>2, <1>3, LimiterBounds
    DEF LimiterInit, LimiterInv, LimiterTypeOK, AgesAgree, LostEarlier, LossesInTheDark, NumbersPast

\* A request is new, and what was let through before keeps its age.
LEMMA RequestKeeps == ASSUME LimiterInv, RequestArrives PROVE LimiterInv'
<1> DEFINE new == asked + 1
<1>1. /\ asked < MaxAsked /\ asked' = new /\ entries' = With(Recent(entries), new)
      /\ expiry' = Window /\ UNCHANGED <<free, losses, dark, up>>
      /\ through' = IF Cardinality(DOMAIN entries') > Limit THEN through ELSE With(through, new)
  BY DEF RequestArrives
<1>2. /\ new \in Asked /\ new \notin DOMAIN entries /\ new \notin DOMAIN through
      /\ new \notin free /\ new \notin losses.requests /\ asked \in Nat
  BY <1>1, LimiterBounds DEF LimiterInv, LimiterTypeOK, NumbersPast, Asked
<1>3. /\ DOMAIN entries' = DOMAIN entries \cup {new}
      /\ entries'[new] = 0
      /\ \A q \in DOMAIN entries : entries'[q] = entries[q]
  <2>1. Inside(entries) = DOMAIN entries
    <3>1. \A q \in DOMAIN entries : entries[q] \in 0 .. Window - 1
      BY DEF LimiterInv, LimiterTypeOK
    <3> QED BY <3>1, LimiterBounds DEF Inside
  <2>2. /\ DOMAIN Recent(entries) = DOMAIN entries
        /\ \A q \in DOMAIN entries : Recent(entries)[q] = entries[q]
    BY <2>1 DEF Recent, Restrict
  <2> QED BY <1>1, <1>2, <2>2 DEF With
<1>4. /\ Inside(through) \subseteq DOMAIN through
      /\ \A q \in DOMAIN through : q \in Inside(through) <=> through[q] < Window
      /\ DOMAIN through \subseteq Asked /\ DOMAIN entries' \subseteq Asked
      /\ \A q \in DOMAIN through : through[q] \in 0 .. Window
  BY <1>2, <1>3 DEF LimiterInv, LimiterTypeOK, Inside
<1>5. CASE through' = through
  <2>1. LimiterTypeOK'
    BY <1>1, <1>2, <1>3, <1>5, LimiterBounds DEF LimiterInv, LimiterTypeOK
  <2>2. Inside(through)' = Inside(through) /\ Counted' = Counted /\ Entered' = Entered
    BY <1>1, <1>2, <1>3, <1>4, <1>5 DEF Inside, Counted, Entered
  <2>3. AgesAgree' /\ NumbersPast'
    BY <1>1, <1>2, <1>3, <1>4, <1>5, LimiterBounds DEF LimiterInv, AgesAgree, NumbersPast
  <2>4. LostEarlier' /\ LossesInTheDark' /\ FewOfASet'
    BY <1>1, <1>3, <1>5, <2>2 DEF LimiterInv, LostEarlier, LossesInTheDark, FewOfASet
  <2> QED BY <2>1, <2>3, <2>4 DEF LimiterInv
<1>6. CASE through' # through
  <2>1. through' = With(through, new) /\ ~(Cardinality(DOMAIN entries') > Limit)
    BY <1>1, <1>6
  <2>2. /\ DOMAIN through' = DOMAIN through \cup {new} /\ through'[new] = 0
        /\ \A q \in DOMAIN through : through'[q] = through[q]
    BY <1>2, <2>1 DEF With
  <2>3. LimiterTypeOK'
    BY <1>1, <1>2, <1>3, <2>2, LimiterBounds DEF LimiterInv, LimiterTypeOK
  <2>4. Inside(through)' = Inside(through) \cup {new}
    BY <1>4, <2>2, LimiterBounds DEF Inside
  <2>5. AgesAgree' /\ NumbersPast'
    BY <1>1, <1>2, <1>3, <1>4, <2>2, LimiterBounds DEF LimiterInv, AgesAgree, NumbersPast
  <2>6. LostEarlier' /\ LossesInTheDark'
    BY <1>1, <1>2, <1>3, <1>4, <2>2, <2>4 DEF LimiterInv, LostEarlier, LossesInTheDark, Counted
  <2>7. Cardinality(Entered') <= Limit
    <3>1. Cardinality(DOMAIN entries') \in Nat
      BY <1>4, SomeAsked
    <3>2. Entered' \subseteq DOMAIN entries' /\ Cardinality(DOMAIN entries') <= Limit
      BY <2>1, <3>1, LimiterBounds DEF Entered
    <3> QED BY <1>4, <3>2, FewerRemain, LimiterBounds
  <2>8. (Inside(through) \cap losses.requests)' = Inside(through) \cap losses.requests
    BY <1>1, <1>2, <2>4
  <2>9. FewOfASet'
    BY <2>7, <2>8 DEF LimiterInv, FewOfASet
  <2> QED BY <2>3, <2>5, <2>6, <2>9 DEF LimiterInv
<1> QED BY <1>5, <1>6

LEMMA PassKeeps == ASSUME LimiterInv, RequestPasses PROVE LimiterInv'
<1> DEFINE new == asked + 1
<1>1. /\ asked < MaxAsked /\ ~up /\ asked' = new /\ through' = With(through, new)
      /\ free' = free \cup {new} /\ UNCHANGED <<entries, expiry, losses, dark, up>>
  BY DEF RequestPasses
<1>2. /\ new \in Asked /\ new \notin DOMAIN entries /\ new \notin DOMAIN through
      /\ new \notin free /\ new \notin losses.requests /\ asked \in Nat /\ dark = 0
  BY <1>1, LimiterBounds
  DEF LimiterInv, LimiterTypeOK, LossesInTheDark, NumbersPast, Asked
<1>3. /\ DOMAIN through' = DOMAIN through \cup {new} /\ through'[new] = 0
      /\ \A q \in DOMAIN through : through'[q] = through[q]
  BY <1>1, <1>2 DEF With
<1>4. Inside(through)' = Inside(through) \cup {new}
  BY <1>3, LimiterBounds DEF Inside
<1>5. LimiterTypeOK'
  BY <1>1, <1>2, <1>3, LimiterBounds DEF LimiterInv, LimiterTypeOK
<1>6. AgesAgree' /\ NumbersPast'
  BY <1>1, <1>2, <1>3 DEF LimiterInv, AgesAgree, NumbersPast
<1>7. Counted' = Counted /\ Entered' = Entered
      /\ (Inside(through) \cap losses.requests)' = Inside(through) \cap losses.requests
  <2>1. new \notin Inside(through)
    BY <1>2 DEF Inside
  <2> QED BY <1>1, <1>2, <1>4, <2>1 DEF Counted, Entered
<1>8. LostEarlier'
  <2>1. \A q \in Counted : q \in DOMAIN through
    BY DEF Counted, Inside
  <2> QED BY <1>1, <1>2, <1>3, <1>7, <2>1 DEF LimiterInv, LostEarlier
<1>9. LossesInTheDark' /\ FewOfASet'
  BY <1>1, <1>7 DEF LimiterInv, LossesInTheDark, FewOfASet
<1> QED BY <1>5, <1>6, <1>8, <1>9 DEF LimiterInv

LEMMA FailKeeps == ASSUME LimiterInv, RedisFails PROVE LimiterInv'
<1>1. up' = FALSE /\ dark' = 0 /\ UNCHANGED <<entries, expiry, through, free, losses, asked>>
  BY DEF RedisFails
<1>2. Inside(through)' = Inside(through) /\ Counted' = Counted /\ Entered' = Entered
  BY <1>1 DEF Inside, Counted, Entered
<1>3. LimiterTypeOK'
  <2>1. LimiterTypeOK
    BY DEF LimiterInv
  <2>2. 0 \in 0 .. Window
    BY LimiterBounds
  <2>3. dark' \in 0 .. Window /\ up' \in BOOLEAN
    BY <1>1, <2>2
  <2> QED BY <1>1, <2>1, <2>3 DEF LimiterTypeOK
<1>6. AgesAgree' /\ NumbersPast' /\ FewOfASet'
  BY <1>1, <1>2 DEF LimiterInv, AgesAgree, NumbersPast, FewOfASet
<1>4. LossesInTheDark'
  BY <1>1 DEF LimiterInv, LimiterTypeOK, LossesInTheDark
<1>5. LostEarlier'
  <2>1. \A q \in DOMAIN through : through[q] >= 0
    BY LimiterBounds DEF LimiterInv, LimiterTypeOK
  <2> QED BY <1>1, <1>2, <2>1 DEF LimiterInv, LostEarlier
<1> QED BY <1>3, <1>4, <1>5, <1>6 DEF LimiterInv

\* What was entered when the set was lost is what the last loss took.
LEMMA ReturnKeeps == ASSUME LimiterInv, RedisReturns PROVE LimiterInv'
<1>1. ~up /\ up' = TRUE /\ UNCHANGED <<through, free, dark, asked>>
  BY DEF RedisReturns
<1>2. CASE UNCHANGED <<entries, expiry, losses>>
  <2>1. Inside(through)' = Inside(through) /\ Counted' = Counted /\ Entered' = Entered
    BY <1>1, <1>2 DEF Inside, Counted, Entered
  <2> QED BY <1>1, <1>2, <2>1
      DEF LimiterInv, LimiterTypeOK, AgesAgree, LostEarlier, LossesInTheDark, FewOfASet, NumbersPast
<1>3. CASE entries' = <<>> /\ expiry' = 0
           /\ losses' = [last |-> 0, before |-> losses.last,
                         requests |-> DOMAIN entries \cap DOMAIN through]
  <2>1. /\ DOMAIN entries' = {} /\ losses'.last = 0 /\ losses'.before = losses.last
        /\ losses'.requests = DOMAIN entries \cap DOMAIN through
        /\ losses.last \in 0 .. Window /\ losses.before \in 0 .. Window /\ losses.last <= losses.before
        /\ dark = 0 /\ 0 \in 0 .. Window
        /\ \A q \in DOMAIN through : through[q] \in 0 .. Window
    BY <1>1, <1>3, LimiterBounds DEF LimiterInv, LimiterTypeOK, LossesInTheDark
  <2>2. Inside(through)' = Inside(through) /\ Counted' = Counted /\ Entered' = {}
    BY <1>1, <2>1 DEF Inside, Counted, Entered
  <2>3. LimiterTypeOK'
    BY <1>1, <1>3, <2>1 DEF LimiterInv, LimiterTypeOK
  <2>4. AgesAgree' /\ NumbersPast' /\ LossesInTheDark'
    BY <1>1, <2>1 DEF LimiterInv, AgesAgree, NumbersPast, LossesInTheDark
  <2>5. LostEarlier'
    <3>1. ASSUME NEW q \in Counted
          PROVE  q \in losses'.requests \/ through[q] >= losses.last
      <4>1. q \in DOMAIN through
        BY <3>1 DEF Counted, Inside
      <4>2. CASE q \in DOMAIN entries
        BY <2>1, <4>1, <4>2
      <4>3. CASE q \notin DOMAIN entries
        <5>1. CASE q \in losses.requests
          BY <4>1, <5>1 DEF LimiterInv, LostEarlier
        <5>2. CASE through[q] >= losses.before
          BY <2>1, <4>1, <5>2
        <5> QED BY <4>3, <5>1, <5>2 DEF LimiterInv, LostEarlier
      <4> QED BY <4>2, <4>3
    <3>2. \A q \in DOMAIN through : through[q] >= 0
      BY <2>1
    <3> QED BY <1>1, <2>1, <2>2, <3>1, <3>2 DEF LostEarlier
  <2>6. (Inside(through) \cap losses.requests)' \subseteq Entered
    BY <1>1, <2>1, <2>2 DEF Entered, Inside
  <2>7. Entered \subseteq Asked /\ Limit \in Nat
    BY LimiterBounds DEF Entered, LimiterInv, LimiterTypeOK
  <2>8. Cardinality(Entered') <= Limit
    BY <2>2, <2>7, FS_EmptySet
  <2>9. Cardinality((Inside(through) \cap losses.requests)') <= Limit
    BY <2>6, <2>7, FewerRemain DEF LimiterInv, FewOfASet
  <2> QED BY <2>3, <2>4, <2>5, <2>8, <2>9 DEF LimiterInv, FewOfASet
<1> QED BY <1>2, <1>3 DEF RedisReturns

\* What is let through grows old with its entry and with the outages; when the
\* key expires, nothing that is entered is inside the window.
LEMMA TimeKeeps == ASSUME LimiterInv, TimePasses PROVE LimiterInv'
<1>1. /\ expiry' = IF expiry = 0 THEN 0 ELSE expiry - 1
      /\ entries' = IF expiry' = 0 THEN <<>> ELSE Older(entries, Window)
      /\ through' = Older(through, Window + 1)
      /\ losses' = [last |-> Later(losses.last), before |-> Later(losses.before),
                    requests |-> losses.requests]
      /\ dark' = IF up THEN Later(dark) ELSE 0
      /\ UNCHANGED <<free, asked, up>>
  BY DEF TimePasses
<1>2. /\ expiry \in 0 .. Window /\ Window \in Nat /\ expiry' \in 0 .. Window
      /\ \A q \in DOMAIN entries : entries[q] \in 0 .. Window - 1
      /\ \A q \in DOMAIN through : through[q] \in 0 .. Window
      /\ losses.last \in 0 .. Window /\ losses.before \in 0 .. Window /\ dark \in 0 .. Window
  BY <1>1, LimiterBounds DEF LimiterInv, LimiterTypeOK
<1>3. /\ DOMAIN through' = {q \in DOMAIN through : through[q] + 1 < Window + 1}
      /\ \A q \in DOMAIN through' : through'[q] = through[q] + 1
  BY <1>1 DEF Older
<1>4. /\ \A q \in DOMAIN entries' : q \in DOMAIN entries /\ entries'[q] = entries[q] + 1
                                    /\ entries[q] + 1 < Window
      /\ expiry' # 0 => DOMAIN entries' = {q \in DOMAIN entries : entries[q] + 1 < Window}
      /\ expiry' = 0 => DOMAIN entries' = {}
  BY <1>1 DEF Older
<1>5. /\ losses'.requests = losses.requests
      /\ losses'.last \in 0 .. Window /\ losses'.last <= losses.last + 1
      /\ losses'.before \in 0 .. Window /\ losses'.before <= losses.before + 1
      /\ dark' \in 0 .. Window /\ dark' <= dark + 1
      /\ (losses.last <= losses.before => losses'.last <= losses'.before)
      /\ (dark <= losses.last => dark' <= losses'.last) /\ (~up' => dark' = 0)
  <2>1. \A t \in 0 .. Window : Later(t) \in 0 .. Window /\ Later(t) <= t + 1
    BY <1>2 DEF Later
  <2>2. \A t, w \in 0 .. Window : t <= w => Later(t) <= Later(w)
    BY <1>2 DEF Later
  <2>3. /\ losses'.requests = losses.requests
        /\ losses'.last = Later(losses.last) /\ losses'.before = Later(losses.before)
    BY <1>1
  <2>4. dark' \in {0, Later(dark)} /\ (~up' => dark' = 0) /\ 0 \in 0 .. Window
    BY <1>1, <1>2
  <2>5. 0 <= Later(losses.last) /\ 0 <= dark + 1
    BY <1>2, <2>1
  <2> QED BY <1>2, <2>1, <2>2, <2>3, <2>4, <2>5
<1>6. LimiterTypeOK'
  <2>1. losses'.last \in 0 .. Window /\ losses'.before \in 0 .. Window /\ dark' \in 0 .. Window
        /\ losses'.requests \subseteq Asked
    BY <1>5 DEF LimiterInv, LimiterTypeOK
  <2>2. /\ DOMAIN entries' \subseteq Asked /\ \A q \in DOMAIN entries' : entries'[q] \in 0 .. Window - 1
        /\ DOMAIN through' \subseteq Asked /\ \A q \in DOMAIN through' : through'[q] \in 0 .. Window
    BY <1>2, <1>3, <1>4 DEF LimiterInv, LimiterTypeOK
  <2> QED BY <1>1, <1>2, <2>1, <2>2 DEF LimiterInv, LimiterTypeOK
<1>7. AgesAgree' /\ NumbersPast' /\ LossesInTheDark'
  <2>1. AgesAgree'
    <3> SUFFICES ASSUME NEW q \in DOMAIN entries' \cap DOMAIN through'
                 PROVE  entries'[q] = through'[q] /\ through'[q] + expiry' >= Window
      BY DEF AgesAgree
    <3>1. /\ q \in DOMAIN entries /\ entries'[q] = entries[q] + 1
          /\ q \in DOMAIN through /\ through'[q] = through[q] + 1 /\ expiry' # 0
      BY <1>3, <1>4
    <3>2. entries[q] = through[q] /\ through[q] + expiry >= Window
      BY <3>1 DEF LimiterInv, AgesAgree
    <3> QED BY <1>1, <1>2, <3>1, <3>2
  <2>2. NumbersPast'
    BY <1>1, <1>3, <1>4, <1>5 DEF LimiterInv, NumbersPast
  <2>3. LossesInTheDark'
    BY <1>1, <1>5 DEF LimiterInv, LossesInTheDark
  <2> QED BY <2>1, <2>2, <2>3
<1>8. /\ Inside(through)' \subseteq Inside(through)
      /\ \A q \in Inside(through)' : q \in DOMAIN through' /\ q \in DOMAIN through
                                     /\ through'[q] < Window /\ through'[q] = through[q] + 1
  BY <1>2, <1>3 DEF Inside
<1>9. \A q \in Inside(through)' : q \in DOMAIN entries => q \in DOMAIN entries'
  <2> SUFFICES ASSUME NEW q \in Inside(through)', q \in DOMAIN entries PROVE q \in DOMAIN entries'
    OBVIOUS
  <2>1. entries[q] = through[q] /\ through[q] + expiry >= Window /\ through[q] + 1 < Window
    BY <1>8 DEF LimiterInv, AgesAgree
  <2>2. expiry' # 0
    BY <1>1, <1>2, <1>8, <2>1
  <2> QED BY <1>4, <2>1, <2>2
<1>10. LostEarlier'
  <2>1. ASSUME NEW q \in Counted' \ DOMAIN entries'
        PROVE  q \in losses'.requests \/ through'[q] >= losses'.before
    <3>1. q \in Inside(through)' /\ q \in Counted \ DOMAIN entries
      BY <1>1, <1>8, <1>9, <2>1 DEF Counted
    <3>2. q \in losses.requests \/ through[q] >= losses.before
      BY <3>1 DEF LimiterInv, LostEarlier
    <3> QED BY <1>2, <1>5, <1>8, <3>1, <3>2
  <2>2. ASSUME NEW q \in DOMAIN through'
        PROVE  /\ q \in losses'.requests => through'[q] >= losses'.last
               /\ q \in free' => through'[q] >= dark'
    <3>1. /\ q \in DOMAIN through /\ through'[q] = through[q] + 1
          /\ q \in losses.requests => through[q] >= losses.last
          /\ q \in free => through[q] >= dark
      BY <1>3 DEF LimiterInv, LostEarlier
    <3>2. through[q] \in Int /\ losses.last \in Int /\ dark \in Int
          /\ losses'.last \in Int /\ dark' \in Int
      BY <1>2, <1>5, <3>1
    <3>3. q \in losses'.requests => through'[q] >= losses'.last
      BY <1>5, <3>1, <3>2
    <3>4. q \in free' => through'[q] >= dark'
      BY <1>1, <1>5, <3>1, <3>2
    <3> QED BY <3>3, <3>4
  <2> QED BY <2>1, <2>2 DEF LostEarlier
<1>11. FewOfASet'
  <2>1. Entered' \subseteq Entered
    BY <1>4, <1>8 DEF Entered
  <2>2. (Inside(through) \cap losses.requests)' \subseteq Inside(through) \cap losses.requests
    BY <1>5, <1>8
  <2>3. Inside(through) \subseteq Asked /\ Limit \in Nat
    BY LimiterBounds DEF LimiterInv, LimiterTypeOK, Inside
  <2>4. Cardinality(Entered') <= Limit
    BY <2>1, <2>3, FewerRemain DEF LimiterInv, FewOfASet, Entered
  <2>5. Cardinality((Inside(through) \cap losses.requests)') <= Limit
    BY <2>2, <2>3, FewerRemain DEF LimiterInv, FewOfASet
  <2> QED BY <2>4, <2>5 DEF FewOfASet
<1> QED BY <1>6, <1>7, <1>10, <1>11 DEF LimiterInv

LEMMA LimiterInductive == LimiterInv /\ [LimiterNext]_limiterVars => LimiterInv'
<1> SUFFICES ASSUME LimiterInv, [LimiterNext]_limiterVars PROVE LimiterInv'
  OBVIOUS
<1>1. CASE UNCHANGED limiterVars
  BY <1>1 DEF limiterVars, LimiterInv, LimiterTypeOK, AgesAgree, LostEarlier, LossesInTheDark,
              FewOfASet, NumbersPast, Inside, Counted, Entered
<1>2. CASE RequestArrives \/ RequestPasses \/ RedisFails
  BY <1>2, RequestKeeps, PassKeeps, FailKeeps
<1>3. CASE RedisReturns \/ TimePasses
  BY <1>3, ReturnKeeps, TimeKeeps
<1> QED BY <1>1, <1>2, <1>3 DEF LimiterNext

\* However requests, refusals, expiries and outages fall: at most Limit
\* requests of a window without an outage are let through, and of those that
\* Redis counted at most Limit more for a loss of the set.
THEOREM WindowHolds == LimiterSpec => []LimiterSound
BY WindowBounded, LimiterStart, LimiterInductive, PTL DEF LimiterSpec

-----------------------------------------------------------------------------
(* Sessions                                                                   *)

AccountRec == [exists : BOOLEAN, known : BOOLEAN, active : BOOLEAN, role : Roles,
               flag : BOOLEAN, password : BOOLEAN, allow : BOOLEAN]
TokenRec == [user : Users, role : Roles, flag : BOOLEAN, age : 0 .. AccessLife - 1]
\* The ages are those of the rows: what a row says now, it said last now.
AgesFollow ==
    \A u \in Users :
        /\ account[u].active => idle[u] = 0
        /\ account[u].exists => lost[u][account[u].role] = 0
SessionsInv == SessionsTypeOK /\ AgesFollow /\ AuthorityRecent /\ GateHolds

\* What makes a token sound, given the rows and their ages.
TokenSound(t, rows, quiet, gone) ==
    /\ gone[t.user][t.role] <= t.age
    /\ quiet[t.user] <= t.age + (IF t.flag THEN 0 ELSE AccessLife - 1)
    /\ rows[t.user].flag => t.flag

LEMMA TokensOfInv == AuthorityRecent /\ GateHolds <=> \A t \in access : TokenSound(t, account, idle, lost)
BY DEF AuthorityRecent, GateHolds, TokenSound

LEMMA NoAccountShape ==
    /\ NoAccount \in AccountRec /\ ~NoAccount.exists /\ ~NoAccount.active /\ ~NoAccount.flag
    /\ "OWNER" \in Roles /\ "VIEWER" \in Roles
BY SessionBounds DEF NoAccount, AccountRec

LEMMA SessionsStart == SessionsInit => SessionsInv
<1> SUFFICES ASSUME SessionsInit PROVE SessionsInv
  OBVIOUS
<1>1. SessionsTypeOK
  <2>1. 0 \in 0 .. Forever /\ Forever \in 0 .. Forever
    BY SessionBounds DEF Forever
  <2>2. [exists |-> TRUE, known |-> TRUE, active |-> TRUE, role |-> "OWNER",
         flag |-> TRUE, password |-> TRUE, allow |-> TRUE] \in AccountRec
    BY NoAccountShape DEF AccountRec
  <2>3. account \in [Users -> AccountRec]
    BY <2>2, NoAccountShape DEF SessionsInit
  <2>4. idle \in [Users -> 0 .. Forever] /\ lost \in [Users -> [Roles -> 0 .. Forever]]
    BY <2>1 DEF SessionsInit
  <2> QED BY <2>3, <2>4 DEF SessionsInit, SessionsTypeOK, AccountRec
<1>2. AgesFollow
  BY SessionBounds, NoAccountShape DEF SessionsInit, AgesFollow
<1>3. access = {}
  BY DEF SessionsInit
<1> QED BY <1>1, <1>2, <1>3 DEF SessionsInv, AuthorityRecent, GateHolds

\* A row is written: the ages follow, and no token becomes unsound.
LEMMA WritingKeeps ==
    ASSUME SessionsInv, NEW u \in Users, NEW values \in AccountRec,
           values.flag => account[u].flag, Write(u, values)
    PROVE  /\ account' \in [Users -> AccountRec] /\ account'[u] = values
           /\ idle' \in [Users -> 0 .. Forever] /\ lost' \in [Users -> [Roles -> 0 .. Forever]]
           /\ AgesFollow'
           /\ \A t \in access : TokenSound(t, account', idle', lost')
<1>1. /\ account' = [account EXCEPT ![u] = values]
      /\ idle' = [v \in Users |-> IF account'[v].active THEN 0 ELSE idle[v]]
      /\ lost' = [v \in Users |-> [r \in Roles |->
                    IF account'[v].exists /\ account'[v].role = r THEN 0 ELSE lost[v][r]]]
  BY DEF Write, Recorded
<1>2. /\ account \in [Users -> AccountRec] /\ access \subseteq TokenRec
      /\ idle \in [Users -> 0 .. Forever] /\ lost \in [Users -> [Roles -> 0 .. Forever]]
      /\ Forever \in Nat
  BY SessionBounds DEF SessionsInv, SessionsTypeOK, AccountRec, TokenRec, Forever
<1>3. account' \in [Users -> AccountRec] /\ account'[u] = values
  BY <1>1, <1>2
<1>4. idle' \in [Users -> 0 .. Forever] /\ lost' \in [Users -> [Roles -> 0 .. Forever]]
  BY <1>1, <1>2
<1>5. AgesFollow'
  BY <1>1, <1>3 DEF AgesFollow, AccountRec
<1>6. ASSUME NEW t \in access PROVE TokenSound(t, account', idle', lost')
  <2>1. t \in TokenRec /\ TokenSound(t, account, idle, lost)
    BY <1>2, TokensOfInv DEF SessionsInv
  <2>2. account'[t.user].flag => account[t.user].flag
    BY <1>1, <1>2, <2>1 DEF TokenRec
  <2>3. lost'[t.user][t.role] <= lost[t.user][t.role] /\ idle'[t.user] <= idle[t.user]
    BY <1>1, <1>2, <2>1 DEF TokenRec
  <2>4. t.age \in Nat /\ AccessLife \in Nat
    BY <2>1, SessionBounds DEF TokenRec
  <2>5. /\ lost'[t.user] \in [Roles -> 0 .. Forever] /\ lost[t.user] \in [Roles -> 0 .. Forever]
        /\ t.user \in Users /\ t.role \in Roles
    BY <1>2, <1>4, <2>1 DEF TokenRec
  <2>6. lost'[t.user][t.role] \in Nat /\ lost[t.user][t.role] \in Nat
    BY <1>2, <2>5
  <2>7. idle'[t.user] \in Nat /\ idle[t.user] \in Nat
    BY <1>2, <1>4, <2>5
  <2> QED BY <2>1, <2>2, <2>3, <2>4, <2>6, <2>7 DEF TokenSound
<1> QED BY <1>3, <1>4, <1>5, <1>6

\* Requests that write a row and issue nothing.
LEMMA WritesOnly ==
    ASSUME SessionsInv, NEW u \in Users, NEW values \in AccountRec,
           values.flag => account[u].flag, Write(u, values), UNCHANGED <<enforced, access, refresh>>
    PROVE  SessionsInv'
<1>1. /\ account' \in [Users -> AccountRec]
      /\ idle' \in [Users -> 0 .. Forever] /\ lost' \in [Users -> [Roles -> 0 .. Forever]]
      /\ AgesFollow' /\ \A t \in access' : TokenSound(t, account', idle', lost')
  BY WritingKeeps
<1>2. SessionsTypeOK'
  BY <1>1 DEF SessionsInv, SessionsTypeOK, AccountRec, Forever
<1>3. (AuthorityRecent /\ GateHolds)'
  BY <1>1 DEF AuthorityRecent, GateHolds, TokenSound
<1> QED BY <1>1, <1>2, <1>3 DEF SessionsInv

\* A token that is issued carries what the row says; the row was active within
\* the life of a token, if the token is to pass the gate.
LEMMA IssuedIsSound ==
    ASSUME SessionsInv, NEW u \in Users, account' \in [Users -> AccountRec],
           idle' \in [Users -> 0 .. Forever], lost' \in [Users -> [Roles -> 0 .. Forever]],
           AgesFollow', account'[u].exists,
           idle'[u] = 0 \/ (~account'[u].flag /\ idle'[u] <= AccessLife - 1)
    PROVE  /\ AccessToken(u, account'[u]) \in TokenRec
           /\ TokenSound(AccessToken(u, account'[u]), account', idle', lost')
<1> DEFINE t == AccessToken(u, account'[u])
<1>1. t = [user |-> u, role |-> account'[u].role, flag |-> account'[u].flag, age |-> 0]
  BY DEF AccessToken
<1>2. t \in TokenRec
  BY <1>1, SessionBounds DEF TokenRec, AccountRec
<1>3. lost'[u][account'[u].role] = 0
  BY DEF AgesFollow
<1>4. idle'[u] \in Nat /\ AccessLife \in Nat /\ AccessLife > 0
  BY SessionBounds
<1>5. /\ lost'[t.user][t.role] <= t.age
      /\ idle'[t.user] <= t.age + (IF t.flag THEN 0 ELSE AccessLife - 1)
      /\ account'[t.user].flag => t.flag
  BY <1>1, <1>3, <1>4
<1> QED BY <1>2, <1>5 DEF TokenSound

\* A row is written and a token issued from it.
LEMMA WritesAndIssues ==
    ASSUME SessionsInv, NEW u \in Users, NEW values \in AccountRec, values.exists,
           values.flag => account[u].flag, Write(u, values),
           values.active \/ (~values.flag /\ idle[u] <= AccessLife - 1),
           IssueTokens(u, values), UNCHANGED enforced
    PROVE  SessionsInv'
<1>1. /\ account' \in [Users -> AccountRec] /\ account'[u] = values
      /\ idle' \in [Users -> 0 .. Forever] /\ lost' \in [Users -> [Roles -> 0 .. Forever]]
      /\ AgesFollow' /\ \A t \in access : TokenSound(t, account', idle', lost')
  BY WritingKeeps
<1>2. idle'[u] = IF values.active THEN 0 ELSE idle[u]
  BY <1>1 DEF Write, Recorded
<1>3. /\ AccessToken(u, account'[u]) \in TokenRec
      /\ TokenSound(AccessToken(u, account'[u]), account', idle', lost')
  BY <1>1, <1>2, IssuedIsSound
<1>4. access' = access \cup {AccessToken(u, account'[u])} /\ refresh' = refresh \cup {u}
  BY <1>1 DEF IssueTokens, IssueAccess
<1>5. SessionsTypeOK'
  BY <1>1, <1>3, <1>4 DEF SessionsInv, SessionsTypeOK, AccountRec, TokenRec, Forever
<1>6. \A t \in access' : TokenSound(t, account', idle', lost')
  BY <1>1, <1>3, <1>4
<1>7. (AuthorityRecent /\ GateHolds)'
  BY <1>6 DEF AuthorityRecent, GateHolds, TokenSound
<1> QED BY <1>1, <1>5, <1>7 DEF SessionsInv

\* A token is issued from a row as it stands.
LEMMA IssuesOnly ==
    ASSUME SessionsInv, NEW u \in Users, account[u].exists, account[u].active,
           IssueAccess(u, account[u]), refresh' \in {refresh, refresh \cup {u}},
           UNCHANGED <<account, enforced, idle, lost>>
    PROVE  SessionsInv'
<1>1. /\ account' \in [Users -> AccountRec]
      /\ idle' \in [Users -> 0 .. Forever] /\ lost' \in [Users -> [Roles -> 0 .. Forever]]
      /\ AgesFollow'
  BY DEF SessionsInv, SessionsTypeOK, AgesFollow, AccountRec, Forever
<1>2. idle'[u] = 0
  BY DEF SessionsInv, AgesFollow
<1>3. /\ AccessToken(u, account'[u]) \in TokenRec
      /\ TokenSound(AccessToken(u, account'[u]), account', idle', lost')
  BY <1>1, <1>2, IssuedIsSound
<1>4. access' = access \cup {AccessToken(u, account'[u])}
  BY DEF IssueAccess
<1>5. SessionsTypeOK'
  BY <1>1, <1>3, <1>4 DEF SessionsInv, SessionsTypeOK, AccountRec, TokenRec, Forever
<1>6. \A t \in access' : TokenSound(t, account', idle', lost')
  BY <1>3, <1>4, TokensOfInv DEF SessionsInv
<1>7. (AuthorityRecent /\ GateHolds)'
  BY <1>6 DEF AuthorityRecent, GateHolds, TokenSound
<1> QED BY <1>1, <1>5, <1>7 DEF SessionsInv

\* Tokens age with the rows, and an expired one is no longer one.
LEMMA TickKeeps == ASSUME SessionsInv, Tick PROVE SessionsInv'
<1>1. /\ access' = {[t EXCEPT !.age = @ + 1] : t \in {s \in access : s.age + 1 < AccessLife}}
      /\ idle' = [u \in Users |-> IF account[u].active THEN 0 ELSE Aged(idle[u])]
      /\ lost' = [u \in Users |-> [r \in Roles |->
                    IF account[u].exists /\ account[u].role = r THEN 0 ELSE Aged(lost[u][r])]]
      /\ UNCHANGED <<account, enforced, refresh>>
  BY DEF Tick
<1>2. /\ account \in [Users -> AccountRec] /\ access \subseteq TokenRec
      /\ idle \in [Users -> 0 .. Forever] /\ lost \in [Users -> [Roles -> 0 .. Forever]]
      /\ Forever \in Nat /\ AccessLife \in Nat
  BY SessionBounds DEF SessionsInv, SessionsTypeOK, AccountRec, TokenRec, Forever
<1>3. \A n \in 0 .. Forever : Aged(n) \in 0 .. Forever /\ Aged(n) <= n + 1
  BY <1>2 DEF Aged
<1>4. idle' \in [Users -> 0 .. Forever] /\ \A u \in Users : idle'[u] <= idle[u] + 1
  BY <1>1, <1>2, <1>3
<1>5. /\ lost' \in [Users -> [Roles -> 0 .. Forever]]
      /\ \A u \in Users, r \in Roles : lost'[u][r] <= lost[u][r] + 1
  <2>1. ASSUME NEW u \in Users, NEW r \in Roles
        PROVE  lost[u][r] \in 0 .. Forever
    BY <1>2
  <2>2. 0 \in 0 .. Forever
    BY <1>2
  <2> QED BY <1>1, <1>3, <2>1, <2>2
<1>6. AgesFollow'
  BY <1>1, <1>2 DEF AgesFollow, AccountRec
<1>7. ASSUME NEW t \in access' PROVE t \in TokenRec /\ TokenSound(t, account', idle', lost')
  <2>1. PICK s \in access : s.age + 1 < AccessLife /\ t = [s EXCEPT !.age = @ + 1]
    BY <1>1
  <2>2. s \in TokenRec /\ TokenSound(s, account, idle, lost)
    BY <1>2, TokensOfInv DEF SessionsInv
  <2>3. /\ t.user = s.user /\ t.role = s.role /\ t.flag = s.flag /\ t.age = s.age + 1
        /\ t \in TokenRec /\ s.age \in Nat /\ s.user \in Users /\ s.role \in Roles
    BY <2>1, <2>2, <1>2 DEF TokenRec
  <2>4. lost[s.user][s.role] \in Nat /\ lost'[s.user][s.role] \in Nat
    <3>1. lost[s.user] \in [Roles -> 0 .. Forever] /\ lost'[s.user] \in [Roles -> 0 .. Forever]
      BY <1>2, <1>5, <2>3
    <3> QED BY <1>2, <2>3, <3>1
  <2>5. idle[s.user] \in Nat /\ idle'[s.user] \in Nat
    BY <1>2, <1>4, <2>3
  <2>6. lost'[s.user][s.role] <= lost[s.user][s.role] + 1 /\ idle'[s.user] <= idle[s.user] + 1
    BY <1>4, <1>5, <2>3
  <2> QED BY <1>1, <1>2, <2>2, <2>3, <2>4, <2>5, <2>6 DEF TokenSound
<1>8. SessionsTypeOK'
  BY <1>1, <1>4, <1>5, <1>7 DEF SessionsInv, SessionsTypeOK, TokenRec, Forever
<1>9. (AuthorityRecent /\ GateHolds)'
  BY <1>7 DEF AuthorityRecent, GateHolds, TokenSound
<1> QED BY <1>6, <1>8, <1>9 DEF SessionsInv

LEMMA RowsAreAccounts ==
    ASSUME SessionsInv
    PROVE  /\ \A u \in Users : account[u] \in AccountRec
           /\ \A t \in access : t \in TokenRec /\ t.user \in Users
BY DEF SessionsInv, SessionsTypeOK, AccountRec, TokenRec

\* The ways in.
LEMMA EntryKeeps ==
    ASSUME SessionsInv, NEW u \in Users,
           Register(u) \/ LoginWithPassword(u) \/ LoginWithSso(u) \/ Refresh(u)
    PROVE  SessionsInv'
<1>1. account[u] \in AccountRec /\ NewRole \in Roles
  BY RowsAreAccounts, NoAccountShape DEF NewRole
<1>2. CASE Register(u)
  <2> DEFINE values == [exists |-> TRUE, known |-> TRUE, active |-> TRUE, role |-> NewRole,
                        flag |-> FALSE, password |-> TRUE, allow |-> TRUE]
  <2>1. values \in AccountRec /\ values.exists /\ values.active /\ ~values.flag
    BY <1>1 DEF AccountRec
  <2>2. Write(u, values) /\ IssueTokens(u, values) /\ UNCHANGED enforced
    BY <1>2 DEF Register
  <2> QED BY <2>1, <2>2, WritesAndIssues
<1>3. CASE LoginWithPassword(u)
  BY <1>3, IssuesOnly DEF LoginWithPassword, IssueTokens
<1>4. CASE LoginWithSso(u)
  <2> DEFINE values == IF account[u].exists THEN account[u]
                       ELSE [exists |-> TRUE, known |-> TRUE, active |-> TRUE, role |-> NewRole,
                             flag |-> FALSE, password |-> FALSE, allow |-> TRUE]
  <2>1. values \in AccountRec /\ values.exists /\ (values.flag => account[u].flag)
    BY <1>1 DEF AccountRec
  <2>2. values.active /\ Write(u, values) /\ IssueTokens(u, values) /\ UNCHANGED enforced
    BY <1>4 DEF LoginWithSso
  <2> QED BY <2>1, <2>2, WritesAndIssues
<1>5. CASE Refresh(u)
  BY <1>5, IssuesOnly DEF Refresh
<1> QED BY <1>2, <1>3, <1>4, <1>5

\* The forced rotation issues tokens to an account that may have been
\* deactivated - but no longer ago than its own token lives.
LEMMA RotateKeeps ==
    ASSUME SessionsInv, NEW t \in access, Rotate(t) PROVE SessionsInv'
<1> DEFINE values == [account[t.user] EXCEPT !.flag = FALSE, !.password = TRUE]
<1>1. t \in TokenRec /\ t.user \in Users /\ account[t.user] \in AccountRec
  BY RowsAreAccounts
<1>2. /\ t.flag /\ account[t.user].exists /\ UNCHANGED enforced
      /\ Write(t.user, values) /\ IssueTokens(t.user, values)
  BY DEF Rotate
<1>3. values \in AccountRec /\ values.exists /\ ~values.flag
  BY <1>1, <1>2 DEF AccountRec
<1>4. idle[t.user] <= t.age
  <2>1. idle[t.user] <= t.age + (IF t.flag THEN 0 ELSE AccessLife - 1) /\ t.age \in Nat
    BY <1>1, SessionBounds DEF SessionsInv, AuthorityRecent, TokenRec
  <2> QED BY <1>2, <2>1
<1>5. idle[t.user] <= AccessLife - 1
  <2>1. idle[t.user] \in Int
    BY <1>1, SessionBounds DEF SessionsInv, SessionsTypeOK, Forever
  <2> QED BY <1>1, <1>4, <2>1, SessionBounds DEF TokenRec
<1> QED BY <1>1, <1>2, <1>3, <1>5, WritesAndIssues

\* What an owner does to accounts.
LEMMA OwnerKeeps ==
    ASSUME SessionsInv, NEW t \in access, NEW u \in Users,
           \/ Deactivate(t, u) \/ DeleteUser(t, u) \/ TogglePasswordLogin(t, u)
           \/ \E role \in Roles : \/ ChangeRole(t, u, role)
                                  \/ \E password \in BOOLEAN : CreateUser(t, u, role, password)
    PROVE  SessionsInv'
<1>1. account[u] \in AccountRec
  BY RowsAreAccounts
<1>2. CASE Deactivate(t, u)
  <2> DEFINE values == [account[u] EXCEPT !.active = FALSE]
  <2>1. values \in AccountRec /\ values.flag = account[u].flag
    BY <1>1 DEF AccountRec
  <2> QED BY <1>2, <2>1, WritesOnly DEF Deactivate
<1>3. CASE DeleteUser(t, u)
  <2> DEFINE values == [NoAccount EXCEPT !.known = TRUE]
  <2>1. values \in AccountRec /\ ~values.flag
    BY NoAccountShape DEF AccountRec
  <2> QED BY <1>3, <2>1, WritesOnly DEF DeleteUser
<1>4. CASE TogglePasswordLogin(t, u)
  <2> DEFINE values == [account[u] EXCEPT !.allow = ~@]
  <2>1. values \in AccountRec /\ values.flag = account[u].flag
    BY <1>1 DEF AccountRec
  <2> QED BY <1>4, <2>1, WritesOnly DEF TogglePasswordLogin
<1>5. ASSUME NEW role \in Roles, ChangeRole(t, u, role) PROVE SessionsInv'
  <2> DEFINE values == [account[u] EXCEPT !.role = role]
  <2>1. values \in AccountRec /\ values.flag = account[u].flag
    BY <1>1 DEF AccountRec
  <2> QED BY <1>5, <2>1, WritesOnly DEF ChangeRole
<1>6. ASSUME NEW role \in Roles, NEW password \in BOOLEAN, CreateUser(t, u, role, password)
      PROVE  SessionsInv'
  <2> DEFINE values == [account[u] EXCEPT !.exists = TRUE, !.known = TRUE, !.active = TRUE, !.role = role,
                                          !.password = @ \/ password, !.allow = TRUE]
  <2>1. values \in AccountRec /\ values.flag = account[u].flag
    BY <1>1 DEF AccountRec
  <2> QED BY <1>6, <2>1, WritesOnly DEF CreateUser
<1> QED BY <1>2, <1>3, <1>4, <1>5, <1>6

LEMMA DirectoryKeeps ==
    ASSUME SessionsInv, NEW u \in Users, NEW active \in BOOLEAN, DirectorySync(u, active)
    PROVE  SessionsInv'
<1>1. account[u] \in AccountRec
  BY RowsAreAccounts
<1> DEFINE values == IF account[u].exists THEN [account[u] EXCEPT !.active = active]
                     ELSE [NoAccount EXCEPT !.exists = TRUE, !.known = TRUE, !.active = active]
<1>2. CASE account[u].exists
  <2>1. values \in AccountRec /\ values.flag = account[u].flag
    BY <1>1, <1>2 DEF AccountRec
  <2> QED BY <2>1, WritesOnly DEF DirectorySync
<1>3. CASE ~account[u].exists
  <2>1. values \in AccountRec /\ ~values.flag
    BY <1>3, NoAccountShape DEF AccountRec
  <2> QED BY <2>1, WritesOnly DEF DirectorySync
<1> QED BY <1>2, <1>3

LEMMA SessionsInductive == SessionsInv /\ [SessionsNext]_sessionVars => SessionsInv'
<1> SUFFICES ASSUME SessionsInv, [SessionsNext]_sessionVars PROVE SessionsInv'
  OBVIOUS
<1>1. CASE UNCHANGED sessionVars
  BY <1>1 DEF sessionVars, SessionsInv, SessionsTypeOK, AgesFollow, AuthorityRecent, GateHolds
<1>2. ASSUME NEW u \in Users, Register(u) \/ LoginWithPassword(u) \/ LoginWithSso(u) \/ Refresh(u)
      PROVE  SessionsInv'
  BY <1>2, EntryKeeps
<1>3. ASSUME NEW t \in access, Rotate(t) PROVE SessionsInv'
  BY <1>3, RotateKeeps
<1>4. ASSUME NEW t \in access, EnforceSso(t) PROVE SessionsInv'
  BY <1>4 DEF EnforceSso, SessionsInv, SessionsTypeOK, AgesFollow, AuthorityRecent, GateHolds
<1>5. ASSUME NEW t \in access, NEW u \in Users,
             Deactivate(t, u) \/ DeleteUser(t, u) \/ TogglePasswordLogin(t, u)
      PROVE  SessionsInv'
  BY <1>5, OwnerKeeps
<1>6. ASSUME NEW t \in access, NEW u \in Users, NEW role \in Roles,
             ChangeRole(t, u, role) \/ (\E password \in BOOLEAN : CreateUser(t, u, role, password))
      PROVE  SessionsInv'
  BY <1>6, OwnerKeeps
<1>7. ASSUME NEW u \in Users, NEW active \in BOOLEAN, DirectorySync(u, active) PROVE SessionsInv'
  BY <1>7, DirectoryKeeps
<1>8. CASE Tick
  BY <1>8, TickKeeps
<1> QED BY <1>1, <1>2, <1>3, <1>4, <1>5, <1>6, <1>7, <1>8 DEF SessionsNext

\* What access tokens carry is what rows said when they were issued, or within
\* the life of one token before; and none passes the gate of a forced change.
THEOREM TokensCarryRecentAuthority == SessionsSpec => []TokensSound
<1>1. SessionsInv => TokensSound
  BY DEF SessionsInv, TokensSound
<1> QED BY <1>1, SessionsStart, SessionsInductive, PTL DEF SessionsSpec

-----------------------------------------------------------------------------
(* Accounts                                                                   *)

TenantRec == [sso : BOOLEAN, idp : Providers]
OpenRec == [op : {"idle", "signup", "change", "reset", "settings"}, email : Emails \cup {"none"},
            role : {"none", "OWNER", "VIEWER"}, password : Passwords \cup {"none"},
            history : Seq(Passwords), tenant : TenantRec, changes : SUBSET {"sso", "idp"}]
Setting == [password : Passwords, by : {"user", "owner"}]
\* A request that has read and not yet committed.
Pending(r, ops) == request[r].op \in ops
Resets == {r \in Requests : Pending(r, {"reset"})}

RequestsShaped ==
    /\ request \in [Requests -> OpenRec]
    /\ \A r \in Requests :
         /\ Pending(r, {"signup"}) => request[r].email \in Emails /\ request[r].role # "none"
         /\ Pending(r, {"change", "reset"}) => request[r].password \in Passwords
    /\ past \in Seq(Setting) /\ raced \in SUBSET {"users", "password", "token", "tenant"}
\* Each reset that is or was under way was opened.
ResetsCounted == IsFiniteSet(Resets) /\ used + Cardinality(Resets) <= opened
\* Somebody owned the tenant before anybody had a row beside; and who did still
\* does, until an owner's request ends it.
OwnersKnown ==
    /\ (\E e \in Emails : member[e] # "none") => ruled # {}
    /\ \A r \in Requests : Pending(r, {"signup"}) /\ request[r].role = "VIEWER" => ruled # {}
    /\ overruled \/ \A e \in ruled : member[e] = "OWNER"
\* A signup that read an empty tenant commits first, or is outrun.
OneFounder ==
    "users" \in raced
    \/ /\ \A e, f \in Emails \ granted : member[e] = "OWNER" /\ member[f] = "OWNER" => e = f
       /\ \A r \in Requests : Pending(r, {"signup"}) /\ request[r].role = "OWNER" =>
            \A e \in Emails \ granted : member[e] # "OWNER"
TokenOnce ==
    used > 0 => token = "gone" /\ ("token" \in raced \/ (used = 1 /\ Resets = {}))
Current == secret.now = IF past = <<>> THEN "none" ELSE past[Len(past)].password
\* A password that a user replaced is in the history, as far from its end as it
\* is from the last one; and what a change read of it still is so, until
\* another writes.
Remembered(i) ==
    \E j \in DOMAIN secret.history :
        /\ secret.history[j] = past[i].password
        /\ Len(secret.history) - j < Len(past) - i
HistoryWhole ==
    "password" \notin raced =>
        /\ \A i \in DOMAIN past : i < Len(past) /\ past[i + 1].by = "user" => Remembered(i)
        /\ \A r \in Requests : Pending(r, {"change", "reset"}) =>
             request[r].history = Outlived /\ ~Reused(request[r].password, secret.history)
\* What an update of the settings will write is an update of those that stand.
SettingsWhole ==
    "tenant" \notin raced =>
        \A r \in Requests : Pending(r, {"settings"}) =>
            /\ request[r].changes = {c \in {"sso", "idp"} : request[r].tenant[c] # tenant[c]}
            /\ ~(request[r].tenant.sso /\ request[r].tenant.idp = "LOCAL")
WritesInv ==
    /\ WritesTypeOK /\ RequestsShaped /\ ResetsCounted
    /\ OwnersKnown /\ OneFounder /\ TokenOnce
    /\ Current /\ HistoryWhole /\ OldPasswordsStayOut /\ SettingsWhole /\ SsoHasProvider

LEMMA IdleShape == Idle \in OpenRec /\ Idle.op = "idle"
BY DEF Idle, OpenRec, TenantRec, Providers

LEMMA WritesStart == WritesInit => WritesInv
<1> SUFFICES ASSUME WritesInit PROVE WritesInv
  OBVIOUS
<1>1. PICK p \in Passwords \cup {"none"} :
        /\ secret = [now |-> p, history |-> <<>>]
        /\ past = IF p = "none" THEN <<>> ELSE <<[password |-> p, by |-> "user"]>>
  BY DEF WritesInit
<1>2. /\ \A r \in Requests : request[r] = Idle /\ request[r].op = "idle"
      /\ request \in [Requests -> OpenRec]
  BY IdleShape DEF WritesInit
<1>3. PICK owners \in {{}} \cup {{e} : e \in Emails} :
        ruled = owners /\ member = [e \in Emails |-> IF e \in owners THEN "OWNER" ELSE "none"]
  BY DEF WritesInit
<1>4. owners \in SUBSET Emails /\ \A e, f \in owners : e = f
  OBVIOUS
<1>5. /\ past = <<>> \/ (p \in Passwords /\ past = <<[password |-> p, by |-> "user"]>>)
      /\ past \in Seq(Setting) /\ Len(past) <= 1 /\ Len(past) \in Nat /\ DOMAIN past = 1 .. Len(past)
  <2>1. past = <<>> \/ (p \in Passwords /\ past = <<[password |-> p, by |-> "user"]>>)
    BY <1>1
  <2>2. CASE past = <<>>
    BY <2>2
  <2>3. CASE p \in Passwords /\ past = <<[password |-> p, by |-> "user"]>>
    <3> DEFINE latest == [password |-> p, by |-> "user"]
    <3>1. latest \in Setting /\ past = <<latest>>
      BY <2>3 DEF Setting
    <3>2. past \in Seq(Setting) /\ Len(past) = 1 /\ DOMAIN past = 1 .. Len(past)
      <4> HIDE DEF latest
      <4> QED BY <3>1
    <3> QED BY <2>3, <3>2
  <2> QED BY <2>1, <2>2, <2>3
<1>6. WritesTypeOK
  <2>1. \A r \in Requests : request[r].op \in {"idle", "signup", "change", "reset", "settings"}
    BY <1>2
  <2>2. /\ member \in [Emails -> {"none", "OWNER", "VIEWER"}] /\ ruled \in SUBSET Emails
        /\ granted \in SUBSET Emails /\ overruled \in BOOLEAN
    BY <1>3, <1>4 DEF WritesInit
  <2>3. secret.now \in Passwords \cup {"none"} /\ secret.history \in Seq(Passwords)
    BY <1>1
  <2>4. /\ token \in {"none", "sent", "gone"} /\ tenant \in [sso : BOOLEAN, idp : Providers]
        /\ used \in 0 .. MaxRequests /\ opened \in 0 .. MaxRequests
        /\ raced \in SUBSET {"users", "password", "token", "tenant"}
    BY WriteBounds DEF WritesInit, Providers
  <2> QED BY <2>1, <2>2, <2>3, <2>4 DEF WritesTypeOK
<1>7. RequestsShaped
  BY <1>2, <1>5 DEF WritesInit, RequestsShaped, Pending
<1>8. Resets = {}
  BY <1>2 DEF Resets, Pending
<1>9. ResetsCounted
  BY <1>8, FS_EmptySet DEF WritesInit, ResetsCounted
<1>10. OwnersKnown /\ OneFounder
  BY <1>2, <1>3, <1>4 DEF OwnersKnown, OneFounder, Pending
<1>11. TokenOnce /\ SettingsWhole /\ SsoHasProvider
  BY <1>2 DEF WritesInit, TokenOnce, SettingsWhole, SsoHasProvider, Pending
<1>12. Current
  BY <1>1, <1>5, WriteBounds DEF Current
<1>13. HistoryWhole
  BY <1>2, <1>5 DEF HistoryWhole, Pending
<1>14. OldPasswordsStayOut
  BY <1>5 DEF OldPasswordsStayOut
<1> QED BY <1>6, <1>7, <1>9, <1>10, <1>11, <1>12, <1>13, <1>14 DEF WritesInv

\* A request closes: the others are as they were.
LEMMA Closing ==
    ASSUME WritesInv, NEW r \in Requests, Close(r)
    PROVE  /\ request' \in [Requests -> OpenRec] /\ request'[r].op = "idle" /\ opened' = opened
           /\ \A q \in Requests : q # r => request'[q] = request[q]
           /\ Resets' = Resets \ {r}
           /\ IsFiniteSet(Resets')
           /\ Cardinality(Resets') = IF r \in Resets THEN Cardinality(Resets) - 1 ELSE Cardinality(Resets)
<1>1. request' = [request EXCEPT ![r] = Idle] /\ opened' = opened
  BY DEF Close
<1>2. request \in [Requests -> OpenRec]
  BY DEF WritesInv, RequestsShaped
<1>3. /\ request' \in [Requests -> OpenRec] /\ request'[r].op = "idle"
      /\ \A q \in Requests : q # r => request'[q] = request[q]
  BY <1>1, <1>2, IdleShape
<1>4. Resets' = Resets \ {r}
  BY <1>3 DEF Resets, Pending
<1>5. IsFiniteSet(Resets)
  BY DEF WritesInv, ResetsCounted
<1> QED BY <1>1, <1>3, <1>4, <1>5, FS_RemoveElement

\* A request opens, with what it read.
LEMMA Opening ==
    ASSUME WritesInv, NEW r \in Requests, NEW values \in OpenRec, Open(r, values),
           values.op = "signup" => /\ values.email \in Emails /\ values.role = FirstRole,
           values.op \in {"change", "reset"} =>
             /\ values.password \in Passwords /\ values.history = Outlived
             /\ ~Reused(values.password, secret.history),
           values.op = "reset" => token = "sent",
           values.op = "settings" =>
             "tenant" \in raced
             \/ /\ values.changes = {c \in {"sso", "idp"} : values.tenant[c] # tenant[c]}
                /\ ~(values.tenant.sso /\ values.tenant.idp = "LOCAL")
    PROVE  WritesInv'
<1>1. /\ request[r].op = "idle" /\ opened < MaxRequests /\ opened' = opened + 1
      /\ request' = [request EXCEPT ![r] = values]
      /\ UNCHANGED <<userVars, secret, token, tenant, used, past, raced>>
  BY DEF Open
<1>2. /\ request \in [Requests -> OpenRec] /\ opened \in Nat /\ used \in Nat
      /\ request'[r] = values
      /\ \A q \in Requests : q # r => request'[q] = request[q]
  BY <1>1 DEF WritesInv, RequestsShaped, WritesTypeOK
<1>3. values.op \in {"idle", "signup", "change", "reset", "settings"}
  BY DEF OpenRec
<1>4. WritesTypeOK'
  BY <1>1, <1>2, <1>3, WriteBounds DEF WritesInv, WritesTypeOK, userVars
<1>5. RequestsShaped'
  BY <1>1, <1>2 DEF WritesInv, RequestsShaped, Pending, FirstRole
<1>6. /\ Resets' = IF values.op = "reset" THEN Resets \cup {r} ELSE Resets
      /\ r \notin Resets
  BY <1>1, <1>2 DEF Resets, Pending
<1>7. ResetsCounted'
  <2>1. IsFiniteSet(Resets) /\ Cardinality(Resets) \in Nat /\ used + Cardinality(Resets) <= opened
    BY FS_CardinalityType DEF WritesInv, ResetsCounted
  <2>2. IsFiniteSet(Resets \cup {r}) /\ Cardinality(Resets \cup {r}) = Cardinality(Resets) + 1
    BY <1>6, <2>1, FS_AddElement
  <2>3. IsFiniteSet(Resets') /\ Cardinality(Resets') <= Cardinality(Resets) + 1 /\ Cardinality(Resets') \in Nat
    BY <1>6, <2>1, <2>2
  <2> QED BY <1>1, <1>2, <2>1, <2>3 DEF ResetsCounted
<1>8. OwnersKnown' /\ OneFounder'
  BY <1>1, <1>2 DEF WritesInv, OwnersKnown, OneFounder, Pending, FirstRole, userVars
<1>9. TokenOnce'
  BY <1>1, <1>6 DEF WritesInv, TokenOnce
<1>10. Current' /\ HistoryWhole' /\ OldPasswordsStayOut'
  BY <1>1, <1>2 DEF WritesInv, Current, HistoryWhole, Remembered, Outlived, OldPasswordsStayOut, Pending, Reused
<1>11. SettingsWhole' /\ SsoHasProvider'
  BY <1>1, <1>2 DEF WritesInv, SettingsWhole, SsoHasProvider, Pending
<1> QED BY <1>4, <1>5, <1>7, <1>8, <1>9, <1>10, <1>11 DEF WritesInv

LEMMA ReadsKeep ==
    ASSUME WritesInv, NEW r \in Requests,
           \/ \E e \in Emails : SignUpReads(r, e)
           \/ \E p \in Passwords : ChangeReads(r, p) \/ ResetReads(r, p)
    PROVE  WritesInv'
<1>1. Outlived \in Seq(Passwords)
  BY DEF WritesInv, WritesTypeOK, Outlived
<1>2. ASSUME NEW e \in Emails, SignUpReads(r, e) PROVE WritesInv'
  <2> DEFINE values == [Idle EXCEPT !.op = "signup", !.email = e, !.role = FirstRole]
  <2>1. values \in OpenRec /\ values.op = "signup" /\ values.email = e /\ values.role = FirstRole
    BY IdleShape DEF OpenRec, FirstRole
  <2> QED BY <1>2, <2>1, Opening DEF SignUpReads
<1>3. ASSUME NEW p \in Passwords, ChangeReads(r, p) \/ ResetReads(r, p)
      PROVE  WritesInv'
  <2> DEFINE values(o) == [Idle EXCEPT !.op = o, !.password = p, !.history = Outlived]
  <2>1. \A o \in {"change", "reset"} :
          /\ values(o) \in OpenRec /\ values(o).op = o /\ values(o).password = p
          /\ values(o).history = Outlived
    BY <1>1, IdleShape DEF OpenRec
  <2>2. CASE ChangeReads(r, p)
    <3>1. Open(r, values("change")) /\ ~Reused(p, secret.history)
      BY <2>2 DEF ChangeReads
    <3> QED BY <2>1, <3>1, Opening
  <2>3. CASE ResetReads(r, p)
    <3>1. Open(r, values("reset")) /\ ~Reused(p, secret.history) /\ token = "sent"
      BY <2>3 DEF ResetReads
    <3> QED BY <2>1, <3>1, Opening
  <2> QED BY <1>3, <2>2, <2>3
<1> QED BY <1>2, <1>3

\* update_tenant_settings never writes an enforcement with LOCAL for provider.
LEMMA SettingsReadKeep ==
    ASSUME WritesInv, NEW r \in Requests, NEW body \in Bodies, SettingsRead(r, body)
    PROVE  WritesInv'
<1> DEFINE new == Updated(tenant, body)
           values == [Idle EXCEPT !.op = "settings", !.tenant = new,
                                  !.changes = {c \in {"sso", "idp"} : new[c] # tenant[c]}]
<1>1. /\ ("sso" \in DOMAIN body /\ body.sso => tenant.idp # "LOCAL")
      /\ Open(r, values)
  BY DEF SettingsRead
<1>2. tenant \in TenantRec
  BY DEF WritesInv, WritesTypeOK, TenantRec
<1>3. body \in [sso : BOOLEAN] \/ body \in [idp : Providers] \/ body \in [sso : BOOLEAN, idp : Providers]
  BY DEF Bodies
<1>4. /\ "sso" \in DOMAIN body => body.sso \in BOOLEAN
      /\ "idp" \in DOMAIN body => body.idp \in Providers
  BY <1>3
<1>5. new \in TenantRec
  BY <1>2, <1>4 DEF Updated, TenantRec
<1>6. values \in OpenRec /\ values.op = "settings" /\ values.tenant = new
      /\ values.changes = {c \in {"sso", "idp"} : new[c] # tenant[c]}
  BY <1>5, IdleShape DEF OpenRec
<1>7. "tenant" \in raced \/ ~(new.sso /\ new.idp = "LOCAL")
  <2> SUFFICES ASSUME "tenant" \notin raced, new.sso, new.idp = "LOCAL" PROVE FALSE
    OBVIOUS
  <2>1. ~(tenant.sso /\ tenant.idp = "LOCAL")
    BY DEF WritesInv, SsoHasProvider
  <2> QED BY <1>1, <2>1 DEF Updated
<1> QED BY <1>1, <1>6, <1>7, Opening

\* A row that was read by another open signup is marked as raced.
LEMMA SignUpCommitKeeps ==
    ASSUME WritesInv, NEW r \in Requests, SignUpCommits(r) PROVE WritesInv'
<1> DEFINE e == request[r].email
<1>1. /\ Pending(r, {"signup"}) /\ Close(r) /\ member[e] = "none"
      /\ member' = [member EXCEPT ![e] = request[r].role]
      /\ ruled' = IF request[r].role = "OWNER" THEN ruled \cup {e} ELSE ruled
      /\ raced' = IF \E q \in Requests \ {r} : Pending(q, {"signup"}) THEN raced \cup {"users"} ELSE raced
      /\ UNCHANGED <<granted, overruled, secret, token, tenant, used, past, opened>>
  BY DEF SignUpCommits, Races, Pending, Close
<1>2. e \in Emails /\ request[r].role \in {"OWNER", "VIEWER"}
  BY <1>1 DEF WritesInv, RequestsShaped, OpenRec
<1>3. /\ request' \in [Requests -> OpenRec] /\ request'[r].op = "idle"
      /\ \A q \in Requests : q # r => request'[q] = request[q]
  BY <1>1, Closing
<1>4. Resets' = Resets
  BY <1>1, Closing DEF Resets, Pending
<1>5. /\ member' \in [Emails -> {"none", "OWNER", "VIEWER"}]
      /\ member'[e] = request[r].role
      /\ \A f \in Emails : f # e => member'[f] = member[f]
      /\ ruled \in SUBSET Emails /\ ruled' \in SUBSET Emails
  BY <1>1, <1>2 DEF WritesInv, WritesTypeOK
<1>6. WritesTypeOK' /\ RequestsShaped'
  <2>1. \A q \in Requests : request'[q].op \in {"idle", "signup", "change", "reset", "settings"}
    BY <1>3 DEF OpenRec
  <2>2. raced' \in SUBSET {"users", "password", "token", "tenant"}
    BY <1>1 DEF WritesInv, WritesTypeOK
  <2>3. WritesTypeOK'
    BY <1>1, <1>5, <2>1, <2>2 DEF WritesInv, WritesTypeOK
  <2>4. RequestsShaped'
    BY <1>1, <1>3, <2>2 DEF WritesInv, RequestsShaped, Pending
  <2> QED BY <2>3, <2>4
<1>7. ResetsCounted' /\ TokenOnce'
  BY <1>1, <1>4 DEF WritesInv, ResetsCounted, TokenOnce
<1>8. ASSUME NEW q \in Requests, q # r, Pending(q, {"signup"}) PROVE "users" \in raced'
  BY <1>1, <1>8
<1>9. OwnersKnown'
  BY <1>1, <1>2, <1>3, <1>5 DEF WritesInv, OwnersKnown, Pending
<1>10. OneFounder'
  <2> SUFFICES ASSUME "users" \notin raced' PROVE OneFounder'
    BY DEF OneFounder
  <2>1. "users" \notin raced /\ \A q \in Requests : ~Pending(q, {"signup"})'
    BY <1>1, <1>3, <1>8 DEF Pending
  <2>2. /\ \A f, g \in Emails \ granted : member[f] = "OWNER" /\ member[g] = "OWNER" => f = g
        /\ request[r].role = "OWNER" => \A f \in Emails \ granted : member[f] # "OWNER"
    BY <1>1, <2>1 DEF WritesInv, OneFounder
  <2>3. \A f, g \in Emails \ granted : member'[f] = "OWNER" /\ member'[g] = "OWNER" => f = g
    BY <1>2, <1>5, <2>2
  <2> QED BY <1>1, <2>1, <2>3 DEF OneFounder, Pending
<1>11. Current' /\ HistoryWhole' /\ OldPasswordsStayOut'
  BY <1>1, <1>3 DEF WritesInv, Current, HistoryWhole, Remembered, Outlived, OldPasswordsStayOut, Pending, Reused
<1>12. SettingsWhole' /\ SsoHasProvider'
  BY <1>1, <1>3 DEF WritesInv, SettingsWhole, SsoHasProvider, Pending
<1> QED BY <1>6, <1>7, <1>9, <1>10, <1>11, <1>12 DEF WritesInv

\* A role is set by an owner's request, or is that of the directory.
LEMMA UserWriteKeeps ==
    ASSUME WritesInv, NEW e \in Emails, NEW role \in {"none", "OWNER", "VIEWER"},
           UserWrite(e, role), ruled # {}, granted' \in SUBSET Emails,
           granted \ {e} \subseteq granted', role = "OWNER" => e \in granted'
    PROVE  WritesInv'
<1>1. /\ opened < MaxRequests /\ opened' = opened + 1
      /\ member' = [member EXCEPT ![e] = role]
      /\ ruled' = IF role = "OWNER" THEN ruled \cup {e} ELSE ruled
      /\ overruled' = (overruled \/ member[e] = "OWNER")
      /\ UNCHANGED <<secret, token, tenant, request, used, past, raced>>
  BY DEF UserWrite
<1>2. /\ member' \in [Emails -> {"none", "OWNER", "VIEWER"}] /\ member'[e] = role
      /\ \A f \in Emails : f # e => member'[f] = member[f]
      /\ ruled \in SUBSET Emails /\ ruled' \in SUBSET Emails /\ overruled' \in BOOLEAN
  BY <1>1 DEF WritesInv, WritesTypeOK
<1>3. opened \in Nat /\ opened' \in 0 .. MaxRequests
  BY <1>1, WriteBounds DEF WritesInv, WritesTypeOK
<1>4. WritesTypeOK' /\ RequestsShaped'
  <2>1. WritesTypeOK'
    BY <1>1, <1>2, <1>3 DEF WritesInv, WritesTypeOK
  <2>2. RequestsShaped'
    BY <1>1 DEF WritesInv, RequestsShaped, Pending
  <2> QED BY <2>1, <2>2
<1>5. ResetsCounted' /\ TokenOnce'
  <2>1. Resets' = Resets
    BY <1>1 DEF Resets, Pending
  <2>2. IsFiniteSet(Resets) /\ Cardinality(Resets) \in Nat /\ used + Cardinality(Resets) <= opened /\ used \in Nat
    BY FS_CardinalityType DEF WritesInv, ResetsCounted, WritesTypeOK
  <2>3. ResetsCounted'
    BY <1>1, <1>3, <2>1, <2>2 DEF ResetsCounted
  <2>4. TokenOnce'
    BY <1>1, <2>1 DEF WritesInv, TokenOnce
  <2> QED BY <2>3, <2>4
<1>6. OwnersKnown'
  BY <1>1, <1>2 DEF WritesInv, OwnersKnown, Pending
<1>7. OneFounder'
  BY <1>1, <1>2 DEF WritesInv, OneFounder, Pending
<1>8. Current' /\ HistoryWhole' /\ OldPasswordsStayOut'
  BY <1>1 DEF WritesInv, Current, HistoryWhole, Remembered, Outlived, OldPasswordsStayOut, Pending, Reused
<1>9. SettingsWhole' /\ SsoHasProvider'
  BY <1>1 DEF WritesInv, SettingsWhole, SsoHasProvider, Pending
<1> QED BY <1>4, <1>5, <1>6, <1>7, <1>8, <1>9 DEF WritesInv

LEMMA UsersKeep ==
    ASSUME WritesInv, NEW e \in Emails,
           \/ RemoveUser(e) \/ DirectoryInserts(e)
           \/ \E role \in {"OWNER", "VIEWER"} : GrantRole(e, role) \/ InsertUser(e, role)
    PROVE  WritesInv'
<1>1. granted \in SUBSET Emails
  BY DEF WritesInv, WritesTypeOK
<1>2. CASE RemoveUser(e)
  BY <1>1, <1>2, UserWriteKeeps DEF RemoveUser
<1>3. CASE DirectoryInserts(e)
  BY <1>1, <1>3, UserWriteKeeps DEF DirectoryInserts
<1>4. ASSUME NEW role \in {"OWNER", "VIEWER"}, GrantRole(e, role) \/ InsertUser(e, role)
      PROVE  WritesInv'
  BY <1>1, <1>4, UserWriteKeeps DEF GrantRole, InsertUser
<1> QED BY <1>2, <1>3, <1>4

\* A row of past, and the one that is appended to it.
LEMMA PastGrows ==
    ASSUME past \in Seq(Setting), NEW latest \in Setting
    PROVE  /\ Append(past, latest) \in Seq(Setting) /\ Append(past, latest) # <<>>
           /\ Len(past) \in Nat /\ Len(Append(past, latest)) = Len(past) + 1
           /\ DOMAIN Append(past, latest) = 1 .. Len(past) + 1
           /\ Append(past, latest)[Len(past) + 1] = latest
           /\ \A i \in 1 .. Len(past) : Append(past, latest)[i] = past[i]
OBVIOUS

\* A password is set: unless another change read the same history, it is the
\* next one after all before it.
LEMMA PasswordCommitKeeps ==
    ASSUME WritesInv, NEW r \in Requests, PasswordCommits(r) PROVE WritesInv'
<1> DEFINE p == request[r].password
           h == request[r].history
           latest == [password |-> p, by |-> "user"]
           rows == {"password"} \cup (IF request[r].op = "reset" THEN {"token"} ELSE {})
<1>1. /\ Pending(r, {"change", "reset"}) /\ Close(r)
      /\ secret' = [now |-> p, history |-> h]
      /\ past' = Append(past, latest)
      /\ token' = IF request[r].op = "reset" THEN "gone" ELSE token
      /\ used' = IF request[r].op = "reset" THEN used + 1 ELSE used
      /\ raced' = IF \E q \in Requests \ {r} : Pending(q, {"change", "reset"}) THEN raced \cup rows ELSE raced
      /\ UNCHANGED <<userVars, tenant, opened>>
  BY DEF PasswordCommits, Races, Pending, Close, Taken
<1>2. p \in Passwords /\ h \in Seq(Passwords)
  BY <1>1 DEF WritesInv, RequestsShaped, OpenRec
<1>3. /\ request' \in [Requests -> OpenRec] /\ request'[r].op = "idle"
      /\ \A q \in Requests : q # r => request'[q] = request[q]
      /\ Resets' = Resets \ {r} /\ IsFiniteSet(Resets')
      /\ Cardinality(Resets') = IF r \in Resets THEN Cardinality(Resets) - 1 ELSE Cardinality(Resets)
  BY <1>1, Closing
<1>4. /\ used \in Nat /\ opened \in Nat /\ opened <= MaxRequests
      /\ Cardinality(Resets) \in Nat /\ used + Cardinality(Resets) <= opened
      /\ Cardinality(Resets') \in Nat /\ MaxRequests \in Nat
      /\ r \in Resets <=> request[r].op = "reset"
  BY <1>3, FS_CardinalityType, WriteBounds DEF WritesInv, WritesTypeOK, ResetsCounted, Resets, Pending
<1>5. ResetsCounted' /\ used' \in 0 .. MaxRequests
  BY <1>1, <1>3, <1>4 DEF ResetsCounted
<1>6. WritesTypeOK' /\ RequestsShaped'
  <2>1. \A q \in Requests : request'[q].op \in {"idle", "signup", "change", "reset", "settings"}
    BY <1>3 DEF OpenRec
  <2>2. raced' \in SUBSET {"users", "password", "token", "tenant"}
    BY <1>1 DEF WritesInv, WritesTypeOK, userVars
  <2>3. token' \in {"none", "sent", "gone"}
    BY <1>1 DEF WritesInv, WritesTypeOK, userVars
  <2>4. WritesTypeOK'
    BY <1>1, <1>2, <1>5, <2>1, <2>2, <2>3 DEF WritesInv, WritesTypeOK, userVars
  <2>5. past' \in Seq(Setting)
    BY <1>1, <1>2 DEF WritesInv, RequestsShaped, Setting
  <2>6. RequestsShaped'
    BY <1>1, <1>3, <2>2, <2>5 DEF WritesInv, RequestsShaped, Pending
  <2> QED BY <2>4, <2>6
<1>7. OwnersKnown' /\ OneFounder'
  BY <1>1, <1>3 DEF WritesInv, OwnersKnown, OneFounder, Pending, userVars
<1>8. TokenOnce'
  <2>1. CASE request[r].op = "reset"
    <3>1. token' = "gone" /\ used' = used + 1
      BY <1>1, <2>1
    <3>2. "token" \in raced' \/ Resets' = {}
      BY <1>1, <1>3, <2>1 DEF Resets, Pending
    <3>3. used = 0 \/ "token" \in raced
      BY <1>4, <2>1 DEF WritesInv, TokenOnce
    <3> QED BY <1>1, <3>1, <3>2, <3>3 DEF TokenOnce
  <2>2. CASE request[r].op # "reset"
    BY <1>1, <1>3, <1>4, <2>2 DEF WritesInv, TokenOnce
  <2> QED BY <2>1, <2>2
<1>9. SettingsWhole' /\ SsoHasProvider'
  BY <1>1, <1>3 DEF WritesInv, SettingsWhole, SsoHasProvider, Pending
<1>10. past \in Seq(Setting) /\ latest \in Setting /\ secret.history \in Seq(Passwords)
  BY <1>2 DEF WritesInv, WritesTypeOK, RequestsShaped, Setting
<1>11. /\ past' # <<>> /\ Len(past) \in Nat /\ Len(past') = Len(past) + 1
       /\ DOMAIN past' = 1 .. Len(past) + 1 /\ past'[Len(past) + 1] = latest
       /\ \A i \in 1 .. Len(past) : past'[i] = past[i]
  <2> HIDE DEF latest
  <2> QED BY <1>1, <1>10, PastGrows
<1>12. Current'
  BY <1>1, <1>11 DEF Current
<1>13. HistoryWhole' /\ OldPasswordsStayOut'
  <2> SUFFICES ASSUME "password" \notin raced' PROVE HistoryWhole' /\ OldPasswordsStayOut'
    BY DEF HistoryWhole, OldPasswordsStayOut
  <2>1. "password" \notin raced /\ \A q \in Requests \ {r} : ~Pending(q, {"change", "reset"})
    BY <1>1
  <2>2. /\ h = Outlived /\ ~Reused(p, secret.history)
        /\ \A i \in DOMAIN past : i < Len(past) /\ past[i + 1].by = "user" => Remembered(i)
    BY <1>1, <2>1 DEF WritesInv, HistoryWhole
  <2>3. \A q \in Requests : ~(request'[q].op \in {"change", "reset"})
    BY <1>3, <2>1 DEF Pending
  <2>4. Len(secret.history) \in Nat /\ DOMAIN secret.history = 1 .. Len(secret.history) /\ DOMAIN past = 1 .. Len(past)
    BY <1>10
  <2>5. CASE past = <<>>
    <3>1. DOMAIN past' = 1 .. 1 /\ Len(past') = 1
      BY <1>11, <2>5
    <3> QED BY <2>3, <3>1, WriteBounds DEF HistoryWhole, OldPasswordsStayOut, Pending
  <2>6. CASE past # <<>>
    <3>1. Len(past) > 0
      BY <1>10, <2>6
    <3>2. past[Len(past)] \in Setting /\ secret.now = past[Len(past)].password
      BY <1>10, <2>4, <2>6, <3>1 DEF WritesInv, Current
    <3>3. secret.now \in Passwords /\ secret.now # "none"
      BY <3>2, WriteBounds DEF Setting
    <3>4. secret'.history = Append(secret.history, secret.now)
      BY <1>1, <2>2, <3>3 DEF Outlived
    <3>5. /\ Len(secret'.history) = Len(secret.history) + 1
          /\ DOMAIN secret'.history = 1 .. Len(secret.history) + 1
          /\ secret'.history[Len(secret.history) + 1] = secret.now
          /\ \A j \in 1 .. Len(secret.history) : secret'.history[j] = secret.history[j]
      BY <1>10, <3>3, <3>4
    <3>6. ASSUME NEW i \in 1 .. Len(past), i < Len(past), past[i + 1].by = "user"
          PROVE  \E j \in 1 .. Len(secret.history) :
                   secret.history[j] = past[i].password /\ Len(secret.history) - j < Len(past) - i
      BY <2>2, <2>4, <3>6 DEF Remembered
    <3>7. ASSUME NEW i \in DOMAIN past', i < Len(past'), past'[i + 1].by = "user"
          PROVE  Remembered(i)'
      <4>1. CASE i = Len(past)
        <5>1. secret'.history[Len(secret.history) + 1] = past'[i].password
          BY <1>11, <3>1, <3>2, <3>5, <4>1
        <5>2. Len(secret.history) + 1 \in DOMAIN secret'.history
          BY <2>4, <3>5
        <5>3. Len(secret'.history) - (Len(secret.history) + 1) < Len(past') - i
          BY <1>11, <2>4, <3>5, <4>1
        <5> QED BY <5>1, <5>2, <5>3 DEF Remembered
      <4>2. CASE i # Len(past)
        <5>1. i \in 1 .. Len(past) /\ i < Len(past) /\ past[i + 1].by = "user"
          BY <1>11, <3>7, <4>2
        <5>2. PICK j \in 1 .. Len(secret.history) :
                secret.history[j] = past[i].password /\ Len(secret.history) - j < Len(past) - i
          BY <3>6, <5>1
        <5>3. j \in DOMAIN secret'.history /\ secret'.history[j] = past'[i].password
          BY <1>11, <2>4, <3>5, <5>1, <5>2
        <5>4. Len(secret'.history) - j < Len(past') - i
          BY <1>11, <2>4, <3>5, <5>1, <5>2
        <5> QED BY <5>3, <5>4 DEF Remembered
      <4> QED BY <4>1, <4>2
    <3>8. HistoryWhole'
      BY <2>3, <3>7 DEF HistoryWhole, Pending
    <3>9. ASSUME NEW i \in DOMAIN past', Len(past') - 1 - HistoryCount <= i, i <= Len(past') - 2,
                 past'[i + 1].by = "user"
          PROVE  past'[i].password # past'[Len(past')].password
      <4>1. /\ i \in 1 .. Len(past) /\ i + 1 \in 1 .. Len(past) /\ i < Len(past)
            /\ Len(past) - i <= HistoryCount
        <5>1. HistoryCount \in Nat /\ i \in 1 .. Len(past) + 1
          BY <1>11, WriteBounds
        <5> QED BY <1>11, <3>9, <5>1
      <4>2. past[i + 1].by = "user" /\ past'[i] = past[i]
        BY <1>11, <3>9, <4>1
      <4>3. PICK j \in 1 .. Len(secret.history) :
              secret.history[j] = past[i].password /\ Len(secret.history) - j < Len(past) - i
        BY <3>6, <4>1, <4>2
      <4>4. j > Len(secret.history) - HistoryCount
        BY <1>11, <2>4, <4>1, <4>3, WriteBounds
      <4>5. secret.history[j] # p
        BY <2>2, <2>4, <4>4 DEF Reused
      <4>6. past'[Len(past')].password = p
        BY <1>11
      <4> QED BY <4>1, <4>3, <4>5, <4>6, <4>2
    <3> QED BY <3>8, <3>9 DEF OldPasswordsStayOut
  <2> QED BY <2>5, <2>6
<1> QED BY <1>5, <1>6, <1>7, <1>8, <1>9, <1>12, <1>13 DEF WritesInv

\* What an owner overwrites no history keeps; the rest is one further from the end.
LEMMA OverwriteKeeps ==
    ASSUME WritesInv, NEW p \in Passwords, OverwritePassword(p) PROVE WritesInv'
<1> DEFINE latest == [password |-> p, by |-> "owner"]
<1>1. /\ opened < MaxRequests /\ opened' = opened + 1
      /\ secret' = [now |-> p, history |-> secret.history]
      /\ past' = Append(past, latest)
      /\ raced' = IF \E q \in Requests : Pending(q, {"change", "reset"}) THEN raced \cup {"password"} ELSE raced
      /\ UNCHANGED <<member, ruled, granted, overruled, token, tenant, request, used>>
  BY DEF OverwritePassword, Races, Pending, userVars
<1>2. past \in Seq(Setting) /\ latest \in Setting /\ secret.history \in Seq(Passwords)
  BY DEF WritesInv, WritesTypeOK, RequestsShaped, Setting
<1>3. /\ past' \in Seq(Setting) /\ past' # <<>> /\ Len(past) \in Nat /\ Len(past') = Len(past) + 1
      /\ DOMAIN past' = 1 .. Len(past) + 1 /\ past'[Len(past) + 1] = latest
      /\ \A i \in 1 .. Len(past) : past'[i] = past[i]
  <2> HIDE DEF latest
  <2> QED BY <1>1, <1>2, PastGrows
<1>4. opened \in Nat /\ opened' \in 0 .. MaxRequests
  BY <1>1, WriteBounds DEF WritesInv, WritesTypeOK
<1>5. raced' \in SUBSET {"users", "password", "token", "tenant"} /\ raced \subseteq raced'
      /\ ("users" \in raced' => "users" \in raced) /\ ("tenant" \in raced' => "tenant" \in raced)
  BY <1>1 DEF WritesInv, WritesTypeOK
<1>6. WritesTypeOK'
  BY <1>1, <1>2, <1>4, <1>5 DEF WritesInv, WritesTypeOK
<1>7. RequestsShaped'
  BY <1>1, <1>3, <1>5 DEF WritesInv, RequestsShaped, Pending
<1>8. ResetsCounted' /\ TokenOnce'
  <2>1. Resets' = Resets
    BY <1>1 DEF Resets, Pending
  <2>2. IsFiniteSet(Resets) /\ Cardinality(Resets) \in Nat /\ used + Cardinality(Resets) <= opened /\ used \in Nat
    BY FS_CardinalityType DEF WritesInv, ResetsCounted, WritesTypeOK
  <2>3. ResetsCounted'
    BY <1>1, <1>4, <2>1, <2>2 DEF ResetsCounted
  <2>4. TokenOnce'
    BY <1>1, <1>5, <2>1 DEF WritesInv, TokenOnce
  <2> QED BY <2>3, <2>4
<1>9. OwnersKnown' /\ OneFounder'
  BY <1>1, <1>5 DEF WritesInv, OwnersKnown, OneFounder, Pending
<1>10. SettingsWhole' /\ SsoHasProvider'
  BY <1>1, <1>5 DEF WritesInv, SettingsWhole, SsoHasProvider, Pending
<1>11. Current'
  BY <1>1, <1>3 DEF Current
<1>12. OldPasswordsStayOut'
  BY <1>3 DEF OldPasswordsStayOut
<1>13. HistoryWhole'
  <2> SUFFICES ASSUME "password" \notin raced' PROVE HistoryWhole'
    BY DEF HistoryWhole
  <2>1. "password" \notin raced /\ \A q \in Requests : ~Pending(q, {"change", "reset"})
    BY <1>1, <1>5
  <2>2. Len(secret.history) \in Nat /\ DOMAIN secret.history = 1 .. Len(secret.history) /\ DOMAIN past = 1 .. Len(past)
        /\ secret'.history = secret.history
    BY <1>1, <1>2
  <2>3. ASSUME NEW i \in DOMAIN past', i < Len(past'), past'[i + 1].by = "user"
        PROVE  Remembered(i)'
    <3>1. i # Len(past)
      BY <1>3, <2>3
    <3>2. i \in DOMAIN past /\ i < Len(past) /\ past[i + 1].by = "user"
      BY <1>3, <2>2, <2>3, <3>1
    <3>3. PICK j \in DOMAIN secret.history :
            secret.history[j] = past[i].password /\ Len(secret.history) - j < Len(past) - i
      BY <2>1, <3>2 DEF WritesInv, HistoryWhole, Remembered
    <3>4. past'[i] = past[i] /\ Len(secret.history) - j < Len(past') - i
      BY <1>3, <2>2, <3>2, <3>3
    <3> QED BY <2>2, <3>3, <3>4 DEF Remembered
  <2> QED BY <1>1, <2>1, <2>3 DEF HistoryWhole, Pending
<1> QED BY <1>6, <1>7, <1>8, <1>9, <1>10, <1>11, <1>12, <1>13 DEF WritesInv

LEMMA SettingsCommitKeeps ==
    ASSUME WritesInv, NEW r \in Requests, SettingsCommit(r) PROVE WritesInv'
<1>1. /\ Pending(r, {"settings"}) /\ Close(r)
      /\ tenant' = [c \in {"sso", "idp"} |->
                      IF c \in request[r].changes THEN request[r].tenant[c] ELSE tenant[c]]
      /\ raced' = IF \E q \in Requests \ {r} : Pending(q, {"settings"}) THEN raced \cup {"tenant"} ELSE raced
      /\ UNCHANGED <<userVars, secret, token, used, past, opened>>
  BY DEF SettingsCommit, Races, Pending, Close
<1>2. /\ request' \in [Requests -> OpenRec] /\ request'[r].op = "idle"
      /\ \A q \in Requests : q # r => request'[q] = request[q]
  BY <1>1, Closing
<1>3. Resets' = Resets
  BY <1>1, Closing DEF Resets, Pending
<1>4. request[r].tenant \in TenantRec /\ tenant \in TenantRec
  BY DEF WritesInv, RequestsShaped, OpenRec, WritesTypeOK, TenantRec
<1>5. tenant' \in TenantRec
  <2>1. tenant'["sso"] \in BOOLEAN /\ tenant'["idp"] \in Providers
    BY <1>1, <1>4 DEF TenantRec
  <2>2. tenant' = [sso |-> tenant'["sso"], idp |-> tenant'["idp"]]
    BY <1>1
  <2> QED BY <2>1, <2>2 DEF TenantRec
<1>6. WritesTypeOK' /\ RequestsShaped'
  <2>1. \A q \in Requests : request'[q].op \in {"idle", "signup", "change", "reset", "settings"}
    BY <1>2 DEF OpenRec
  <2>2. raced' \in SUBSET {"users", "password", "token", "tenant"}
    BY <1>1 DEF WritesInv, WritesTypeOK, userVars
  <2>3. WritesTypeOK'
    BY <1>1, <1>5, <2>1, <2>2 DEF WritesInv, WritesTypeOK, TenantRec, userVars
  <2>4. RequestsShaped'
    BY <1>1, <1>2, <2>2 DEF WritesInv, RequestsShaped, Pending
  <2> QED BY <2>3, <2>4
<1>7. ResetsCounted' /\ TokenOnce'
  BY <1>1, <1>3 DEF WritesInv, ResetsCounted, TokenOnce
<1>8. OwnersKnown' /\ OneFounder'
  BY <1>1, <1>2 DEF WritesInv, OwnersKnown, OneFounder, Pending, userVars
<1>9. Current' /\ HistoryWhole' /\ OldPasswordsStayOut'
  BY <1>1, <1>2 DEF WritesInv, Current, HistoryWhole, Remembered, Outlived, OldPasswordsStayOut, Pending, Reused
<1>10. SettingsWhole' /\ SsoHasProvider'
  <2>1. CASE "tenant" \in raced'
    BY <2>1 DEF SettingsWhole, SsoHasProvider
  <2>2. CASE "tenant" \notin raced'
    <3>1. "tenant" \notin raced /\ \A q \in Requests \ {r} : ~Pending(q, {"settings"})
      BY <1>1, <2>2
    <3>2. SettingsWhole'
      BY <1>2, <3>1 DEF SettingsWhole, Pending
    <3>3. /\ request[r].changes = {c \in {"sso", "idp"} : request[r].tenant[c] # tenant[c]}
          /\ ~(request[r].tenant.sso /\ request[r].tenant.idp = "LOCAL")
      BY <1>1, <3>1 DEF WritesInv, SettingsWhole
    <3>4. tenant'["sso"] = request[r].tenant["sso"] /\ tenant'["idp"] = request[r].tenant["idp"]
      BY <1>1, <3>3
    <3> QED BY <3>2, <3>3, <3>4 DEF SsoHasProvider
  <2> QED BY <2>1, <2>2
<1> QED BY <1>6, <1>7, <1>8, <1>9, <1>10 DEF WritesInv

\* What a session wrote is rolled back; a token taken out stays out.
LEMMA RollbackKeeps ==
    ASSUME WritesInv, NEW r \in Requests, RollsBack(r) PROVE WritesInv'
<1>1. /\ Close(r) /\ token' \in {token, "gone"}
      /\ UNCHANGED <<userVars, secret, tenant, used, past, raced, opened>>
  BY DEF RollsBack, Taken, Close
<1>2. /\ request' \in [Requests -> OpenRec] /\ request'[r].op = "idle"
      /\ \A q \in Requests : q # r => request'[q] = request[q]
      /\ Resets' = Resets \ {r} /\ IsFiniteSet(Resets')
      /\ Cardinality(Resets') <= Cardinality(Resets)
  <2>1. Cardinality(Resets) \in Nat
    BY FS_CardinalityType DEF WritesInv, ResetsCounted
  <2> QED BY <1>1, <2>1, Closing
<1>3. WritesTypeOK' /\ RequestsShaped'
  <2>1. \A q \in Requests : request'[q].op \in {"idle", "signup", "change", "reset", "settings"}
    BY <1>2 DEF OpenRec
  <2>2. WritesTypeOK'
    BY <1>1, <2>1 DEF WritesInv, WritesTypeOK, userVars
  <2>3. RequestsShaped'
    BY <1>1, <1>2 DEF WritesInv, RequestsShaped, Pending
  <2> QED BY <2>2, <2>3
<1>4. ResetsCounted'
  <2>1. /\ used \in Nat /\ opened \in Nat /\ Cardinality(Resets) \in Nat /\ Cardinality(Resets') \in Nat
        /\ used + Cardinality(Resets) <= opened
    BY <1>2, FS_CardinalityType DEF WritesInv, WritesTypeOK, ResetsCounted
  <2> QED BY <1>1, <1>2, <2>1 DEF ResetsCounted
<1>5. TokenOnce'
  BY <1>1, <1>2 DEF WritesInv, TokenOnce
<1>6. OwnersKnown' /\ OneFounder'
  BY <1>1, <1>2 DEF WritesInv, OwnersKnown, OneFounder, Pending, userVars
<1>7. Current' /\ HistoryWhole' /\ OldPasswordsStayOut'
  BY <1>1, <1>2 DEF WritesInv, Current, HistoryWhole, Remembered, Outlived, OldPasswordsStayOut, Pending, Reused
<1>8. SettingsWhole' /\ SsoHasProvider'
  BY <1>1, <1>2 DEF WritesInv, SettingsWhole, SsoHasProvider, Pending
<1> QED BY <1>3, <1>4, <1>5, <1>6, <1>7, <1>8 DEF WritesInv

\* Only the token moves.
LEMMA TokenKeeps ==
    ASSUME WritesInv, token' \in {"sent", "gone"}, token' = "gone" \/ used = 0,
           UNCHANGED <<userVars, secret, tenant, request, used, past, raced, opened>>
    PROVE  WritesInv'
<1>1. WritesTypeOK' /\ RequestsShaped' /\ ResetsCounted'
  BY DEF WritesInv, WritesTypeOK, RequestsShaped, ResetsCounted, Resets, Pending, userVars
<1>2. TokenOnce'
  BY DEF WritesInv, WritesTypeOK, TokenOnce, Resets, Pending
<1>3. OwnersKnown' /\ OneFounder'
  BY DEF WritesInv, OwnersKnown, OneFounder, Pending, userVars
<1>4. Current' /\ HistoryWhole' /\ OldPasswordsStayOut' /\ SettingsWhole' /\ SsoHasProvider'
  BY DEF WritesInv, Current, HistoryWhole, Remembered, Outlived, OldPasswordsStayOut, SettingsWhole, SsoHasProvider, Pending, Reused
<1> QED BY <1>1, <1>2, <1>3, <1>4 DEF WritesInv

LEMMA WritesInductive == WritesInv /\ [WritesNext]_writeVars => WritesInv'
<1> SUFFICES ASSUME WritesInv, [WritesNext]_writeVars PROVE WritesInv'
  OBVIOUS
<1>1. CASE UNCHANGED writeVars
  <2>1. UNCHANGED <<userVars, secret, token, tenant, request, used, past, raced, opened>>
    BY <1>1 DEF writeVars
  <2>2. WritesTypeOK' /\ RequestsShaped' /\ ResetsCounted' /\ TokenOnce'
    BY <2>1 DEF WritesInv, WritesTypeOK, RequestsShaped, ResetsCounted, Resets, Pending, TokenOnce, userVars
  <2>3. OwnersKnown' /\ OneFounder'
    BY <2>1 DEF WritesInv, OwnersKnown, OneFounder, Pending, userVars
  <2>4. Current' /\ HistoryWhole' /\ OldPasswordsStayOut' /\ SettingsWhole' /\ SsoHasProvider'
    BY <2>1 DEF WritesInv, Current, HistoryWhole, Remembered, Outlived, OldPasswordsStayOut, SettingsWhole, SsoHasProvider, Pending, Reused
  <2> QED BY <2>2, <2>3, <2>4 DEF WritesInv
<1>2. ASSUME NEW r \in Requests, SignUpCommits(r) \/ PasswordCommits(r) \/ SettingsCommit(r) \/ RollsBack(r)
      PROVE  WritesInv'
  BY <1>2, SignUpCommitKeeps, PasswordCommitKeeps, SettingsCommitKeeps, RollbackKeeps
<1>3. ASSUME NEW r \in Requests,
             \/ \E e \in Emails : SignUpReads(r, e)
             \/ \E p \in Passwords : ChangeReads(r, p) \/ ResetReads(r, p)
      PROVE  WritesInv'
  BY <1>3, ReadsKeep
<1>4. ASSUME NEW r \in Requests, NEW body \in Bodies, SettingsRead(r, body) PROVE WritesInv'
  BY <1>4, SettingsReadKeep
<1>5. ASSUME NEW e \in Emails,
             \/ RemoveUser(e) \/ DirectoryInserts(e)
             \/ \E role \in {"OWNER", "VIEWER"} : GrantRole(e, role) \/ InsertUser(e, role)
      PROVE  WritesInv'
  BY <1>5, UsersKeep
<1>6. ASSUME NEW p \in Passwords, OverwritePassword(p) PROVE WritesInv'
  BY <1>6, OverwriteKeeps
<1>7. CASE RequestReset
  <2>1. used = 0
    BY <1>7 DEF RequestReset, WritesInv, WritesTypeOK, TokenOnce
  <2> QED BY <1>7, <2>1, TokenKeeps DEF RequestReset
<1>8. CASE TokenExpires
  BY <1>8, TokenKeeps DEF TokenExpires
<1> QED BY <1>1, <1>2, <1>3, <1>4, <1>5, <1>6, <1>7, <1>8 DEF WritesNext

LEMMA OwnersOfInv == OwnersKnown /\ OneFounder /\ ruled \in SUBSET Emails => FirstUserOwns
<1> SUFFICES ASSUME OwnersKnown, OneFounder, ruled \in SUBSET Emails PROVE FirstUserOwns
  OBVIOUS
<1> DEFINE owners == {e \in Emails : member[e] = "OWNER"}
<1>1. (\E e \in Emails : member[e] # "none") => owners # {} \/ overruled
  BY DEF OwnersKnown
<1>2. ASSUME "users" \notin raced PROVE ~(Cardinality(owners \ granted) > 1)
  <2>1. CASE owners \ granted = {}
    BY <2>1, FS_EmptySet
  <2>2. CASE owners \ granted # {}
    <3>1. PICK e \in owners \ granted : TRUE
      BY <2>2
    <3>2. owners \ granted = {e}
      BY <1>2, <3>1 DEF OneFounder
    <3>3. Cardinality(owners \ granted) = 1
      BY <3>2, FS_Singleton
    <3> QED BY <3>3
  <2> QED BY <2>1, <2>2
<1> QED BY <1>1, <1>2 DEF FirstUserOwns

-----------------------------------------------------------------------------
(* The merged policy, and both parts of what is promised of accounts          *)

PoliciesStand == base \in Policies /\ floor \in Policies /\ candidate \in Candidates

LEMMA FloorHolds == PoliciesStand => FloorNeverWeakens
<1> SUFFICES ASSUME PoliciesStand PROVE FloorNeverWeakens
  OBVIOUS
<1> DEFINE merged == Merge(base, floor)
<1>1. base.min_length \in Nat /\ floor.min_length \in Nat /\ candidate.length \in Nat
      /\ base.history_count \in Nat /\ floor.history_count \in Nat
  BY PolicyBounds DEF PoliciesStand, Policies, Candidates
<1>2. /\ merged.min_length = Larger(base.min_length, floor.min_length)
      /\ merged.history_count = Larger(base.history_count, floor.history_count)
      /\ \A f \in Flags : merged.require[f] = (base.require[f] \/ floor.require[f])
  BY DEF Merge
<1>3. /\ merged.history_count >= base.history_count
      /\ merged.history_count >= floor.history_count
  BY <1>1, <1>2 DEF Larger
<1>4. candidate.length >= merged.min_length
        <=> candidate.length >= base.min_length /\ candidate.length >= floor.min_length
  BY <1>1, <1>2 DEF Larger
<1>5. (\A f \in Flags : merged.require[f] => candidate.has[f])
        <=> /\ \A f \in Flags : base.require[f] => candidate.has[f]
            /\ \A f \in Flags : floor.require[f] => candidate.has[f]
  <2> HIDE DEF merged
  <2> QED BY <1>2
<1>6. Valid(candidate, merged) <=> Valid(candidate, base) /\ Valid(candidate, floor)
  <2> HIDE DEF merged
  <2> QED BY <1>4, <1>5, Zenon DEF Valid
<1> QED BY <1>3, <1>6 DEF FloorNeverWeakens

LEMMA PoliciesStart == Init => PoliciesStand
<1> SUFFICES ASSUME Init PROVE PoliciesStand
  OBVIOUS
<1>1. CASE machine = "policy"
  BY <1>1 DEF Init, PolicyInit, PoliciesStand
<1>2. CASE machine # "policy"
  <2> DEFINE plain == [f \in Flags |-> FALSE]
  <2>1. plain \in [Flags -> BOOLEAN]
    OBVIOUS
  <2>2. [min_length |-> 0, require |-> plain, history_count |-> 0] \in Policies
    <3> HIDE DEF plain
    <3> QED BY <2>1, PolicyBounds DEF Policies
  <2>3. [length |-> 0, has |-> plain] \in Candidates
    <3> HIDE DEF plain
    <3> QED BY <2>1, PolicyBounds DEF Candidates
  <2>4. AtRest \in Policies
    BY <2>2 DEF AtRest
  <2>5. (CHOOSE c \in Candidates : TRUE) \in Candidates
    BY <2>3
  <2>6. base = AtRest /\ floor = AtRest /\ candidate = CHOOSE c \in Candidates : TRUE
    BY <1>2, Zenon DEF Init
  <2> QED BY <2>4, <2>5, <2>6, Zenon DEF PoliciesStand
<1> QED BY <1>1, <1>2

LEMMA AccountsInductive ==
    WritesInv /\ PoliciesStand /\ [Next]_all => (WritesInv /\ PoliciesStand)'
<1> SUFFICES ASSUME WritesInv, PoliciesStand, [Next]_all PROVE WritesInv' /\ PoliciesStand'
  OBVIOUS
<1>1. [WritesNext]_writeVars /\ UNCHANGED policyVars
  <2>1. CASE WritesNext /\ UNCHANGED policyVars
    BY <2>1
  <2>2. CASE UNCHANGED <<writeVars, policyVars>>
    BY <2>2
  <2> QED BY <2>1, <2>2, Zenon DEF Next, all
<1>2. WritesInv'
  BY <1>1, WritesInductive
<1>3. PoliciesStand'
  BY <1>1 DEF PoliciesStand, policyVars
<1> QED BY <1>2, <1>3

(* AccountsSound: in every behaviour of the five modules, a tenant's first     *)
(* user owns it until an owner's request ends it, a reset token is not used    *)
(* again, nor a password that its user replaced, SSO is not enforced with      *)
(* LOCAL, all but for requests open at a time, and a floor only adds to a      *)
(* policy.  The invariant says of each open request what it has read that *)
(* still stands, which its commit relies on.                                   *)
THEOREM AccountsAreSound == Spec => []AccountsSound
<1>1. Init => WritesInv /\ PoliciesStand
  BY WritesStart, PoliciesStart DEF Init
<1>2. WritesInv /\ PoliciesStand => AccountsSound
  <2> SUFFICES ASSUME WritesInv, PoliciesStand PROVE AccountsSound
    OBVIOUS
  <2>1. WritesTypeOK /\ OldPasswordsStayOut /\ SsoHasProvider /\ TokenOnce
    BY DEF WritesInv
  <2>2. FirstUserOwns
    BY OwnersOfInv DEF WritesInv, WritesTypeOK
  <2>3. FloorNeverWeakens
    BY FloorHolds
  <2>4. TokenSpentOnce
    BY <2>1 DEF TokenOnce, TokenSpentOnce, WritesTypeOK
  <2> QED BY <2>1, <2>2, <2>3, <2>4 DEF AccountsSound
<1> QED BY <1>1, <1>2, AccountsInductive, PTL DEF Spec
=============================================================================
