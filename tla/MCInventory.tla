----------------------------- MODULE MCInventory -----------------------------
(* Instances for TLC of what is stored of findings and assets: the writers of *)
(* one asset's findings, the criticality of an asset, the score of one        *)
(* finding, and the rows that records about devices are written to.  A        *)
(* behaviour is one of the four, the others rest.                             *)
EXTENDS Inventory, AssetContext, AssetRecords, Sequences

CONSTANTS a1, g1, g2, t1, t2, d1, d2, u1, u2, h1, h2

TwoScanners == {"CROWDSTRIKE", "QUALYS"}
OneAsset == {a1}
TwoGroups == {g1, g2}
TwoTransactions == {t1, t2}
TwoProfiles == {[title |-> "chief", department |-> None, tags |-> {}], Plain}
SmallInputs ==
    [severity : {"CRITICAL", "LOW"}, cvss : {NoSignal, -20, 55, 300}, epss : {NoSignal, -10, 100},
     native : {-5, 33, 250}, criticality : {"CRITICAL", "LOW"}, facing : BOOLEAN,
     sensitivity : {"RESTRICTED", "PUBLIC"}, sources : {0, 5}, kev : BOOLEAN]

TwoDevices == {d1, d2}
TwoUsers == {u1, u2}
TwoPeople == {h1, h2}
AllVendors == {"CROWDSTRIKE", "DEFENDER", "RAPID7", "QUALYS", "NESSUS", "WIZ"}
NamedDevice(n) ==
    [name |-> n \o ".local", dns |-> n \o ".local", mdm |-> n, ip |-> "10." \o n,
     agent |-> "aid-" \o n, machine |-> "mid-" \o n, serial |-> TRUE, product |-> NoValue,
     os |-> "WORKSTATION", user |-> u1]
FleetOf(vendors, one, other, prefix) ==
    [vendors |-> vendors,
     devices |-> [d \in TwoDevices |-> IF d = d1 THEN one ELSE other],
     people |-> [p \in TwoPeople |->
                   IF p = h1 THEN [names |-> {u1}, equipment |-> {d1}, prefix |-> prefix]
                   ELSE [names |-> {u2}, equipment |-> {}, prefix |-> {}]],
     hints |-> [h \in {"mac.local"} |-> "WORKSTATION"],
     short |-> [h \in {"mac.local", "box.local"} |-> IF h = "mac.local" THEN "mac" ELSE "box"]]
\* A named workstation and a server without a user; two devices with one
\* address, one of them nameless; a device that its scanners cannot name.
SomeFleets ==
    {FleetOf({"CROWDSTRIKE", "DEFENDER"}, NamedDevice("mac"),
             [NamedDevice("box") EXCEPT !.product = "SERVER", !.os = "SERVER", !.user = NoValue], {"mac.local", "mac"}),
     FleetOf({"CROWDSTRIKE", "QUALYS"},
             [NamedDevice("mac") EXCEPT !.name = "mac", !.dns = NoValue, !.user = NoValue, !.serial = FALSE],
             [NamedDevice("box") EXCEPT !.dns = NoValue, !.name = NoValue, !.ip = "10.mac", !.user = u2], {}),
     FleetOf({"RAPID7", "WIZ", "NESSUS"}, [NamedDevice("mac") EXCEPT !.mdm = "mac.local"],
             [NamedDevice("box") EXCEPT !.name = NoValue, !.mdm = NoValue, !.user = NoValue], {}),
     FleetOf({"CROWDSTRIKE", "QUALYS"}, [NamedDevice("mac") EXCEPT !.name = "mac"],
             [NamedDevice("box") EXCEPT !.name = "box", !.mdm = "mac.local", !.user = u2], {"mac"})}

VARIABLE machine    \* the module a behaviour is of
all == <<machine, inventoryVars, contextVars, scoringVars, recordVars>>
Resting == CHOOSE f \in SomeFleets : TRUE

Rests == CHOOSE in \in SmallInputs : TRUE
Init ==
    /\ machine \in {"inventory", "context", "scoring", "records"}
    /\ InventoryInit /\ \E listed \in BOOLEAN :
         /\ feed = [c \in Cves |-> [kev |-> listed, epss |-> IF listed THEN 50 ELSE NoSignal]]
         /\ machine # "inventory" => ~listed /\ db[Asset].rollup = NoSignal
    /\ ContextInit /\ (\A g \in Groups : groups[g].members = IF g = g1 THEN Assets ELSE {})
    /\ IF machine = "scoring" THEN ScoringInit(SmallInputs) ELSE input = Rests /\ worse = Rests
    /\ RecordsInit /\ (machine # "records" => fleet = Resting)
Next ==
    \/ machine = "inventory" /\ InventoryNext /\ UNCHANGED <<machine, contextVars, scoringVars, recordVars>>
    \/ machine = "context" /\ ContextNext /\ UNCHANGED <<machine, inventoryVars, scoringVars, recordVars>>
    \/ machine = "records" /\ RecordsNext /\ UNCHANGED <<machine, inventoryVars, contextVars, scoringVars>>
Spec == Init /\ [][Next]_all /\ InventoryFairness
=============================================================================
