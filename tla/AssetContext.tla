---------------------------- MODULE AssetContext ----------------------------
(* How critical an asset is taken to be (assets/exposure.py): an override an  *)
(* administrator sets on the asset, else the override of one of its groups    *)
(* that was updated last, else what tags, department and job title suggest.   *)
(* The same three tiers decide data_sensitivity and internet_facing; one      *)
(* field stands for the three.  Every request and sync is a transaction that  *)
(* loads rows, decides from them, and at its commit writes the columns it     *)
(* changed.                                                                   *)
EXTENDS Integers, FiniteSets

CONSTANTS
    Assets,
    Groups,
    Requests,     \* identities of transactions
    Profiles,     \* what a sync may report of a device and its user
    AdminValues,  \* what administrators choose for an asset
    GroupValues,  \* and for a group
    MaxRequests   \* transactions begun

None == "none"
Criticality == {"CRITICAL", "HIGH", "MEDIUM", "LOW"}
ASSUME ContextBounds ==
    /\ AdminValues \subseteq Criticality /\ GroupValues \subseteq Criticality
    /\ MaxRequests \in Nat
    /\ None \notin Assets \cup Groups /\ Assets \cap Groups = {}
    /\ \A p \in Profiles : {"title", "department", "tags"} \subseteq DOMAIN p

VARIABLES
    assets,    \* per asset: criticality, its source, and what syncs know of it
    groups,    \* per group: its members, and its override with updated_at
    requests,  \* the open transactions
    clock,     \* transactions begun: now() of a transaction is its start
    chosen,    \* the override an administrator set last on an asset
    contested, \* assets whose last override met another transaction
    apart      \* assets left by a deletion, a wiped title or overlapping transactions

contextVars == <<assets, groups, requests, clock, chosen, contested, apart>>

Sources == {"AUTO", "GROUP_OVERRIDE", "ASSET_OVERRIDE"}
NoOverride == [value |-> None, at |-> 0]
IdleRequest == [stage |-> "idle", kind |-> None, asset |-> None, group |-> None, value |-> None,
                profile |-> None, at |-> 0, todo |-> {}, rows |-> <<>>, dirty |-> <<>>,
                before |-> NoOverride, foot |-> {}, met |-> FALSE]

ContextTypeOK ==
    /\ \A a \in Assets :
         /\ assets[a].criticality \in Criticality /\ assets[a].source \in Sources
         /\ {"title", "department", "tags"} \subseteq DOMAIN assets[a].profile
    /\ \A g \in Groups :
         /\ groups[g].there \in BOOLEAN /\ groups[g].members \in SUBSET Assets
         /\ groups[g].override.value \in Criticality \cup {None}
         /\ groups[g].override.at \in 0 .. clock
         /\ ~groups[g].there => groups[g].members = {} /\ groups[g].override = NoOverride
    /\ \A t \in Requests : requests[t].stage \in {"idle", "begun", "deciding"} /\ requests[t].todo \subseteq Assets
    /\ clock \in 0 .. MaxRequests
    /\ chosen \in [Assets -> Criticality \cup {None}]
    /\ contested \in SUBSET Assets /\ apart \in SUBSET Assets

\* infer_exposure_context: title, department and tags as its tables see them.
Inferred(p) ==
    CASE p.title = "chief" \/ p.department = "security" \/ "tier-1" \in p.tags -> "CRITICAL"
      [] p.title = "director" \/ p.department = "engineering" -> "HIGH"
      [] p.department = "qa" -> "LOW"
      [] OTHER -> "MEDIUM"

Plain == [title |-> None, department |-> None, tags |-> {}]
ContextInit ==
    /\ assets = [a \in Assets |-> [criticality |-> Inferred(Plain), source |-> "AUTO", profile |-> Plain]]
    /\ groups \in [Groups -> [there : {TRUE}, members : SUBSET Assets, override : {NoOverride}]]
    /\ requests = [t \in Requests |-> IdleRequest]
    /\ clock = 0 /\ chosen = [a \in Assets |-> None] /\ contested = {} /\ apart = {}

-----------------------------------------------------------------------------
(* Deciding: the groups as the transaction sees them, the rows as it loaded  *)
(* them.                                                                     *)

GroupsSeen(t) ==
    LET q == requests[t] IN
    [g \in Groups |->
      IF g # q.group THEN groups[g]
      ELSE CASE q.kind = "addMember" -> [groups[g] EXCEPT !.members = @ \cup {q.asset}]
             [] q.kind = "removeMember" -> [groups[g] EXCEPT !.members = @ \ {q.asset}]
             [] q.kind = "setGroup" /\ q.before.value # q.value ->
                  [groups[g] EXCEPT !.override = [value |-> q.value, at |-> q.at]]
             [] OTHER -> groups[g]]

\* _resolve_group_overrides_for_asset: the override updated last.
OverridesOn(view, a) ==
    {view[g].override : g \in {h \in Groups : a \in view[h].members /\ view[h].override # NoOverride}}
Winner(overrides) == CHOOSE o \in overrides : \A p \in overrides : p.at <= o.at

\* apply_inference_to_asset: only what no override set.
Reinferred(row) ==
    IF row.source = "AUTO" THEN [row EXCEPT !.criticality = Inferred(row.profile)] ELSE row
\* apply_precedence_to_asset
PrecedenceOverAll(row, overrides) ==
    IF overrides # {}
    THEN [row EXCEPT !.criticality = Winner(overrides).value, !.source = "GROUP_OVERRIDE"]
    ELSE [row EXCEPT !.criticality = Inferred(row.profile), !.source = "AUTO"]
Precedence(row, overrides) ==
    IF row.source = "ASSET_OVERRIDE" THEN row
    ELSE IF overrides # {}
    THEN [row EXCEPT !.criticality = Winner(overrides).value, !.source = "GROUP_OVERRIDE"]
    ELSE [row EXCEPT !.criticality = Inferred(row.profile), !.source = "AUTO"]

Decided(t, row, a) ==
    LET q == requests[t] IN
    CASE q.kind = "override" -> [row EXCEPT !.criticality = q.value, !.source = "ASSET_OVERRIDE"]
      [] q.kind = "sync" -> Reinferred([row EXCEPT !.profile = q.profile])
      [] q.kind = "intune" -> [row EXCEPT !.profile.title = None]
      [] OTHER -> Precedence(row, OverridesOn(GroupsSeen(t), a))
\* The ORM writes the columns whose value the transaction changed.
Changed(old, new) == [c \in {d \in DOMAIN old : old[d] # new[d]} |-> new[c]]
Written(columns, row) == [c \in DOMAIN row |-> IF c \in DOMAIN columns THEN columns[c] ELSE row[c]]
\* An object joins those a session will flush.
Flushed(dirty, a, columns) == [b \in DOMAIN dirty \cup {a} |-> IF b = a THEN columns ELSE dirty[b]]

-----------------------------------------------------------------------------
(* Transactions *)

Forms ==
    [kind : {"override"}, asset : Assets, group : {None}, value : AdminValues, profile : {None}]
    \cup [kind : {"sync"}, asset : Assets, group : {None}, value : {None}, profile : Profiles]
    \cup [kind : {"intune"}, asset : Assets, group : {None}, value : {None}, profile : {None}]
    \cup [kind : {"recompute"}, asset : {None}, group : {None}, value : {None}, profile : {None}]
    \cup [kind : {"addMember", "removeMember"}, asset : Assets, group : Groups, value : {None}, profile : {None}]
    \cup [kind : {"setGroup"}, asset : {None}, group : Groups, value : GroupValues, profile : {None}]
    \cup [kind : {"deleteGroup"}, asset : {None}, group : Groups, value : {None}, profile : {None}]

BeginRequest(t) ==
    /\ requests[t].stage = "idle" /\ clock < MaxRequests
    /\ clock' = clock + 1
    /\ \E f \in Forms :
         requests' = [requests EXCEPT ![t] =
           [IdleRequest EXCEPT !.stage = "begun", !.at = clock + 1, !.kind = f.kind, !.asset = f.asset,
                               !.group = f.group, !.value = f.value, !.profile = f.profile]]
    /\ UNCHANGED <<assets, groups, chosen, contested, apart>>

\* 404: no such group, or not a member of it.
NotFound(q) ==
    \/ q.group # None /\ ~groups[q.group].there
    \/ q.kind = "removeMember" /\ q.asset \notin groups[q.group].members
Loaded(q) ==
    CASE q.kind = "recompute" -> Assets
      [] q.kind = "setGroup" -> groups[q.group].members
      [] q.kind = "deleteGroup" -> {}
      [] OTHER -> {q.asset}
\* The assets and groups whose rows a transaction may read or write.
Footprint(q) ==
    LET on == Loaded(q) \cup (IF q.kind = "deleteGroup" THEN groups[q.group].members ELSE {}) IN
    on \cup ({q.group} \ {None}) \cup {g \in Groups : groups[g].members \cap on # {}}
Loads(t) ==
    /\ requests[t].stage = "begun"
    /\ LET q == requests[t]  loaded == Loaded(q) IN
       requests' = [requests EXCEPT ![t] =
         IF NotFound(q) THEN IdleRequest
         ELSE [q EXCEPT !.stage = "deciding", !.todo = loaded,
                        !.rows = [a \in loaded |-> assets[a]],
                        !.before = IF q.group = None THEN NoOverride ELSE groups[q.group].override,
                        !.foot = Footprint(q)]]
    /\ UNCHANGED <<assets, groups, clock, chosen, contested, apart>>

\* One asset after another, each with the overrides committed by then.
Decides(t) ==
    /\ requests[t].stage = "deciding"
    /\ \E a \in requests[t].todo :
         requests' = [requests EXCEPT
           ![t].todo = @ \ {a},
           ![t].dirty = Flushed(@, a, Changed(requests[t].rows[a], Decided(t, requests[t].rows[a], a)))]
    /\ UNCHANGED <<assets, groups, clock, chosen, contested, apart>>

\* A unique index, a foreign key or a row that is gone ends the transaction.
Refused(t) ==
    LET q == requests[t] IN
    \/ q.group # None /\ ~groups[q.group].there /\ q.kind # "removeMember"
    \/ q.kind = "setGroup" /\ q.before = NoOverride /\ groups[q.group].override # NoOverride
GroupsAfter(t) ==
    LET q == requests[t] IN
    IF q.kind = "deleteGroup"
    THEN [groups EXCEPT ![q.group] = [there |-> FALSE, members |-> {}, override |-> NoOverride]]
    ELSE GroupsSeen(t)

\* Two open transactions meet when one commits what the other has loaded.
Meets(t) == {u \in Requests \ {t} : requests[u].stage = "deciding" /\ requests[u].foot \cap requests[t].foot # {}}
\* What a transaction nothing met leaves as precedence has it.
Settles(q) ==
    CASE q.kind \in {"recompute", "setGroup", "addMember", "removeMember"} -> q.foot \cap Assets
      [] OTHER -> {}
Unsettles(q, met) ==
    (IF met \/ q.kind = "deleteGroup" THEN q.foot \cap Assets ELSE {})
    \cup (IF q.kind = "intune" THEN {q.asset} ELSE {})
CommitsRequest(t) ==
    /\ requests[t].stage = "deciding" /\ requests[t].todo = {} /\ ~Refused(t)
    /\ LET q == requests[t]  met == q.met \/ Meets(t) # {} IN
       /\ assets' = [a \in Assets |-> IF a \in DOMAIN q.dirty THEN Written(q.dirty[a], assets[a]) ELSE assets[a]]
       /\ groups' = GroupsAfter(t)
       /\ chosen' = IF q.kind = "override" THEN [chosen EXCEPT ![q.asset] = q.value] ELSE chosen
       /\ contested' = IF q.kind # "override" THEN contested
                       ELSE IF met THEN contested \cup {q.asset} ELSE contested \ {q.asset}
       /\ apart' = (apart \ (IF met THEN {} ELSE Settles(q))) \cup Unsettles(q, met)
    /\ requests' = [u \in Requests |->
         IF u = t THEN IdleRequest
         ELSE IF u \in Meets(t) THEN [requests[u] EXCEPT !.met = TRUE] ELSE requests[u]]
    /\ UNCHANGED clock
RequestRollsBack(t) ==
    /\ requests[t].stage # "idle"
    /\ requests' = [requests EXCEPT ![t] = IdleRequest]
    /\ UNCHANGED <<assets, groups, clock, chosen, contested, apart>>

ContextNext ==
    \E t \in Requests :
        BeginRequest(t) \/ Loads(t) \/ Decides(t) \/ CommitsRequest(t) \/ RequestRollsBack(t)

-----------------------------------------------------------------------------
(* What an administrator chose for an asset is its criticality until another *)
(* override, whatever syncs, groups and recomputations follow, except in the  *)
(* race with a transaction that had loaded the row.                           *)
OverridesStand ==
    \A a \in Assets \ contested : chosen[a] # None =>
        assets[a].criticality = chosen[a] /\ assets[a].source = "ASSET_OVERRIDE"

(* An asset with no override of its own has the override of its groups that   *)
(* was updated last, or what is inferred of it, and says which: through every  *)
(* change of members, overrides and profiles, unless a group was deleted, a    *)
(* title was wiped, or transactions met, since precedence last ran on it.      *)
GroupsReachAssets ==
    \A a \in Assets \ apart :
        LET on == OverridesOn(groups, a) IN
        CASE assets[a].source = "ASSET_OVERRIDE" -> TRUE
          [] assets[a].source = "GROUP_OVERRIDE" ->
               \E o \in on : assets[a].criticality = o.value /\ \A p \in on : p.at <= o.at
          [] OTHER -> on = {} /\ assets[a].criticality = Inferred(assets[a].profile)

(* The three tiers in one statement: an asset's own override, else that of    *)
(* a group, else what is inferred.                                          *)
ContextStands == ContextTypeOK /\ OverridesStand /\ GroupsReachAssets
=============================================================================
