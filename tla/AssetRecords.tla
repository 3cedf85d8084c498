----------------------------- MODULE AssetRecords -----------------------------
(* The row of assets that each record about a device is written to: records   *)
(* of scanners, named as the vendor names the device (crowdstrike.py,         *)
(* defender.py, rapid7.py, qualys.py, nessus.py, wiz.py, connectors/sync.py), *)
(* of Jamf, matched by serial number, user or name (jamf_sync.py), of         *)
(* Humaans, matched to a person's devices (humaans_sync.py), and the          *)
(* classification of rows.  A step stores one record of a sync.               *)
EXTENDS Integers, FiniteSets

CONSTANTS
    Devices,
    Users,        \* login names
    People,       \* persons in Humaans
    Vendors,      \* the scanners in use
    Fleets,       \* the devices as vendors know them, and who has them
    MaxRecords    \* records stored

NoValue == "none"
Unknown == "unknown"
Categories == {"SERVER", "WORKSTATION", "OTHER"}
ASSUME RecordBounds ==
    /\ MaxRecords \in Nat
    /\ Vendors \subseteq {"CROWDSTRIKE", "DEFENDER", "RAPID7", "QUALYS", "NESSUS", "WIZ"}
    /\ NoValue \notin Devices \cup Users \cup People /\ Users \cap People = {}
    /\ \A f \in Fleets :
         /\ f.vendors \subseteq Vendors
         /\ \A d \in Devices :
              LET dev == f.devices[d] IN
              /\ dev.serial \in BOOLEAN /\ dev.user \in Users \cup {NoValue}
              /\ {dev.product, dev.os} \subseteq Categories \cup {NoValue}
         /\ \A p \in People : f.people[p].names \subseteq Users /\ f.people[p].equipment \subseteq Devices
         /\ \A h \in DOMAIN f.hints : f.hints[h] \in Categories

VARIABLES
    fleet,    \* the devices and people of the tenant
    login,    \* the user of each device
    had,      \* the users each device has had
    rows,     \* the assets by hostname
    found,    \* the findings: [host, cve, source, device]
    failed,   \* vendors with a failed lookup
    enrolled, \* devices with a serial whose Jamf record was stored
    stopped,  \* hosts whose row ended a sync
    scripted, \* hosts the enrichment script has rewritten
    records   \* records so far

recordVars == <<fleet, login, had, rows, found, failed, enrolled, stopped, scripted, records>>

Or(value, default) == IF value # NoValue THEN value ELSE default

RecordsTypeOK ==
    /\ fleet \in Fleets
    /\ login \in [Devices -> Users \cup {NoValue}] /\ had \in [Devices -> SUBSET Users]
    /\ \A h \in DOMAIN rows :
         /\ rows[h].serial \in Devices \cup {NoValue} /\ rows[h].login \in Users \cup {NoValue}
         /\ rows[h].owner \in Users \cup People \cup {NoValue}
         /\ rows[h].category \in Categories
         /\ rows[h].sources \subseteq Vendors \cup {"JAMF", "HUMAANS", "CROWDSTRIKE"}
         /\ rows[h].by \in SUBSET Devices
    /\ {x.host : x \in found} \cup stopped \cup scripted \subseteq DOMAIN rows
    /\ failed \subseteq Vendors /\ enrolled \subseteq Devices /\ records \in 0 .. MaxRecords

Device(d) == fleet.devices[d]
SerialOf(d) == IF Device(d).serial THEN d ELSE NoValue

-----------------------------------------------------------------------------
(* What the connectors make of a vulnerability on a device: the vendor may    *)
(* have answered the lookup of the device, and of the vulnerability, or not.  *)

\* The category by product type, else by hostname, else by operating system.
Classify(host, os, product) ==
    Or(product, IF host \in DOMAIN fleet.hints THEN fleet.hints[host] ELSE Or(os, "OTHER"))

Anonymous(host) == [host |-> host, serial |-> NoValue, login |-> NoValue, product |-> NoValue,
                    os |-> NoValue, agent |-> FALSE, cve |-> "cve"]
CrowdStrikeItem(d, answered) ==
    LET dev == Device(d) IN
    IF "device" \in answered
    THEN [Anonymous(Or(dev.name, Or(dev.ip, dev.agent))) EXCEPT
            !.serial = SerialOf(d), !.login = login[d], !.product = dev.product, !.os = dev.os, !.agent = TRUE]
    ELSE [Anonymous(dev.agent) EXCEPT !.agent = TRUE]
DefenderItem(d, answered) ==
    IF "device" \in answered THEN [Anonymous(Or(Device(d).dns, Device(d).machine)) EXCEPT !.os = Device(d).os]
    ELSE Anonymous(Device(d).machine)
Entry(answered) == IF "entry" \in answered THEN "cve" ELSE "vendor id"
Rapid7Item(d, answered) == [Anonymous(Device(d).name) EXCEPT !.os = Device(d).os, !.cve = Entry(answered)]
Scanned(d) == [Anonymous(Or(Device(d).dns, Device(d).ip)) EXCEPT !.os = Device(d).os]
QualysItem(d, answered) ==
    [(IF "device" \in answered THEN Scanned(d) ELSE Anonymous(NoValue)) EXCEPT !.cve = Entry(answered)]
NessusItem(d) == Scanned(d)
WizItem(d) == [Anonymous(Device(d).name) EXCEPT !.os = Device(d).os]

Lookups(v) ==
    CASE v \in {"CROWDSTRIKE", "DEFENDER"} -> {"device"}
      [] v = "RAPID7" -> {"entry"}
      [] v = "QUALYS" -> {"device", "entry"}
      [] OTHER -> {}
Item(v, d, answered) ==
    CASE v = "CROWDSTRIKE" -> CrowdStrikeItem(d, answered)
      [] v = "DEFENDER" -> DefenderItem(d, answered)
      [] v = "RAPID7" -> Rapid7Item(d, answered)
      [] v = "QUALYS" -> QualysItem(d, answered)
      [] v = "NESSUS" -> NessusItem(d)
      [] v = "WIZ" -> WizItem(d)

-----------------------------------------------------------------------------
(* Rows.                                                                      *)

\* seen_by_sources is a list; the enrichment script makes it an object, to
\* which no other source can be added: the sync raises there.
Raises(row, source) == ~row.listed /\ source \notin row.sources
RowNamed(host) == IF host = NoValue THEN Unknown ELSE host

NewRow(item, v, d) ==
    [serial |-> item.serial, login |-> item.login, owner |-> NoValue, type |-> item.product, os |-> item.os,
     category |-> Classify(item.host, item.os, item.product), agent |-> item.agent,
     sources |-> {v}, listed |-> TRUE, by |-> {d}]

Touched(row, item, v, d) ==
    [row EXCEPT
       !.sources = @ \cup {v}, !.agent = @ \/ item.agent, !.by = @ \cup {d},
       !.category = IF item.product # NoValue \/ @ = "OTHER" THEN Classify(item.host, item.os, item.product) ELSE @,
       !.type = Or(item.product, @), !.serial = Or(item.serial, @), !.login = Or(item.login, @)]

Put(host, row) == [h \in DOMAIN rows \cup {host} |-> IF h = host THEN row ELSE rows[h]]
Counts == records < MaxRecords /\ records' = records + 1
\* Mutant: a scanner's record goes to the row of its serial number first.
RecordBySerial(v, d, answered) ==
    LET item == Item(v, d, answered)
        known == {h \in DOMAIN rows : rows[h].serial # NoValue /\ rows[h].serial = item.serial}
        host == IF known = {} THEN RowNamed(item.host) ELSE CHOOSE h \in known : TRUE
    IN /\ Counts
       /\ failed' = IF answered = Lookups(v) THEN failed ELSE failed \cup {v}
       /\ rows' = Put(host, IF host \in DOMAIN rows THEN Touched(rows[host], item, v, d) ELSE NewRow(item, v, d))
       /\ found' = found \cup {[host |-> host, cve |-> item.cve, source |-> v, device |-> d]}
       /\ UNCHANGED <<fleet, login, had, enrolled, stopped, scripted>>

ScannerRecord(v, d, answered) ==
    LET item == Item(v, d, answered)
        host == RowNamed(item.host)
    IN /\ Counts
       /\ failed' = IF answered = Lookups(v) THEN failed ELSE failed \cup {v}
       /\ IF host \in DOMAIN rows /\ Raises(rows[host], v)
          THEN stopped' = stopped \cup {host} /\ UNCHANGED <<rows, found>>
          ELSE /\ rows' = Put(host, IF host \in DOMAIN rows THEN Touched(rows[host], item, v, d) ELSE NewRow(item, v, d))
               /\ found' = found \cup {[host |-> host, cve |-> item.cve, source |-> v, device |-> d]}
               /\ UNCHANGED stopped
       /\ UNCHANGED <<fleet, login, had, enrolled, scripted>>

\* The rows a Jamf record matches, of which the query returns some first one.
JamfMatches(d) ==
    LET bySerial == {h \in DOMAIN rows : rows[h].serial # NoValue /\ rows[h].serial = SerialOf(d)}
        byLogin == {h \in DOMAIN rows : /\ login[d] # NoValue /\ rows[h].login = login[d]
                                        /\ rows[h].category = "WORKSTATION"}
    IN IF bySerial # {} THEN bySerial
       ELSE IF byLogin # {} THEN byLogin
       ELSE DOMAIN rows \cap {RowNamed(Device(d).mdm)}

JamfRow(d) ==
    [serial |-> SerialOf(d), login |-> NoValue, owner |-> login[d], type |-> NoValue, os |-> Device(d).os,
     category |-> Classify(Device(d).mdm, Device(d).os, NoValue), agent |-> FALSE,
     sources |-> {"JAMF"}, listed |-> TRUE, by |-> {d}]
JamfEnriched(row, d) ==
    LET category == Classify(Device(d).mdm, Device(d).os, NoValue) IN
    [row EXCEPT
       !.serial = Or(SerialOf(d), @), !.owner = Or(@, login[d]), !.by = @ \cup {d},
       !.category = IF category = "OTHER" THEN @ ELSE category,
       !.sources = IF Raises(row, "JAMF") THEN @ ELSE @ \cup {"JAMF"}]
JamfRecord(d) ==
    /\ Counts
    /\ IF JamfMatches(d) = {} THEN rows' = Put(RowNamed(Device(d).mdm), JamfRow(d)) /\ UNCHANGED stopped
       ELSE \E h \in JamfMatches(d) :
              /\ rows' = Put(h, JamfEnriched(rows[h], d))
              /\ stopped' = IF Raises(rows[h], "JAMF") THEN stopped \cup {h} ELSE stopped
    /\ enrolled' = IF Device(d).serial THEN enrolled \cup {d} ELSE enrolled
    /\ UNCHANGED <<fleet, login, had, found, failed, scripted>>

\* A person without a name or an address is matched with nothing, not even by
\* the serial numbers of the equipment.
HumaansMatches(p) ==
    LET person == fleet.people[p]
        bySerial == {h \in DOMAIN rows : rows[h].serial \in person.equipment}
        byLogin == {h \in DOMAIN rows : rows[h].login \in person.names}
        byPrefix == {h \in DOMAIN rows : h \in person.prefix /\ rows[h].category = "WORKSTATION"}
    IN IF person.names = {} THEN {}
       ELSE IF bySerial # {} THEN bySerial
       ELSE IF byLogin # {} THEN byLogin
       ELSE byPrefix
HumaansEnriched(row, p) ==
    [row EXCEPT !.owner = p, !.sources = IF Raises(row, "HUMAANS") THEN @ ELSE @ \cup {"HUMAANS"}]
\* The rows are taken in turn; one that raises is the last.
HumaansRecord(p) ==
    LET breaking == {h \in HumaansMatches(p) : Raises(rows[h], "HUMAANS")} IN
    /\ Counts
    /\ \E done \in SUBSET HumaansMatches(p) :
         /\ IF breaking = {} THEN done = HumaansMatches(p) ELSE Cardinality(done \cap breaking) = 1
         /\ rows' = [h \in DOMAIN rows |-> IF h \in done THEN HumaansEnriched(rows[h], p) ELSE rows[h]]
         /\ stopped' = stopped \cup (done \cap breaking)
    /\ UNCHANGED <<fleet, login, had, found, failed, enrolled, scripted>>

\* POST /assets/classify.
Reclassify ==
    /\ Counts
    /\ rows' = [h \in DOMAIN rows |-> [rows[h] EXCEPT !.category = Classify(h, rows[h].os, rows[h].type)]]
    /\ UNCHANGED <<fleet, login, had, found, failed, enrolled, stopped, scripted>>

\* The script run by hand: rows are found by the name CrowdStrike has for a
\* device, with .local or without; rows without an agent are only classified.
RowOf(name) ==
    LET long == {h \in DOMAIN rows : h \in DOMAIN fleet.short /\ fleet.short[h] = name} IN
    IF name \in DOMAIN rows THEN {name} ELSE long
Rewritten(h, d) ==
    [rows[h] EXCEPT !.agent = TRUE, !.sources = {"CROWDSTRIKE"}, !.listed = FALSE, !.by = @ \cup {d},
                    !.category = Classify(h, IF rows[h].os = NoValue THEN Device(d).os ELSE rows[h].os, Device(d).product)]
EnrichScript ==
    /\ "CROWDSTRIKE" \in fleet.vendors
    /\ Counts
    /\ LET met == {h \in DOMAIN rows : \E d \in Devices : h \in RowOf(Device(d).name)} IN
       \E last \in [met -> Devices] :
          /\ \A h \in met : h \in RowOf(Device(last[h]).name)
          /\ scripted' = scripted \cup met
          /\ rows' = [h \in DOMAIN rows |->
                        IF h \in met THEN Rewritten(h, last[h])
                        ELSE IF rows[h].agent THEN rows[h]
                        ELSE [rows[h] EXCEPT !.category = Classify(h, rows[h].os, NoValue)]]
    /\ UNCHANGED <<fleet, login, had, found, failed, enrolled, stopped>>

\* A device is given to another user.
HandOver(d, u) ==
    /\ Counts
    /\ login' = [login EXCEPT ![d] = u]
    /\ had' = [had EXCEPT ![d] = @ \cup {u}]
    /\ UNCHANGED <<fleet, rows, found, failed, enrolled, stopped, scripted>>

RecordsInit ==
    /\ fleet \in Fleets
    /\ login = [d \in Devices |-> Device(d).user]
    /\ had = [d \in Devices |-> {Device(d).user} \ {NoValue}]
    /\ rows = <<>> /\ found = {} /\ records = 0
    /\ failed = {} /\ enrolled = {} /\ stopped = {} /\ scripted = {}
RecordsNext ==
    \/ \E v \in fleet.vendors, d \in Devices : \E answered \in SUBSET Lookups(v) : ScannerRecord(v, d, answered)
    \/ \E d \in Devices : JamfRecord(d) \/ \E u \in Users : HandOver(d, u)
    \/ \E p \in People : HumaansRecord(p)
    \/ Reclassify
    \/ EnrichScript

-----------------------------------------------------------------------------
\* What some source calls a device.
NamesOf(d) ==
    {RowNamed(Device(d).mdm)}
      \cup (UNION {{RowNamed(Item(v, d, answered).host) : answered \in SUBSET Lookups(v)} : v \in fleet.vendors})
      \cup {h \in DOMAIN rows : h = Device(d).name \/ (h \in DOMAIN fleet.short /\ fleet.short[h] = Device(d).name)}
Share(d, e) == had[d] \cap had[e] # {}

\* What is known of a device goes to rows that carry one of its names, or a
\* row of a device that had the same user: a missing serial number, user or
\* name matches nothing (jamf_sync.py:106, 112, 124; sync.py:219).
StrayForCause ==
    \A h \in DOMAIN rows : \A d \in rows[h].by :
       h \in NamesOf(d) \/ \E e \in rows[h].by \ {d} : Share(d, e)

\* A device enrolled in Jamf under a serial number can be found by it, through
\* every later sync, unless it shared its user, a name or the lack of one with
\* another device (jamf_sync.py:106, 166; sync.py:276).
SerialKept ==
    \A d \in enrolled :
       \/ \E h \in DOMAIN rows : rows[h].serial = d
       \/ \E e \in Devices \ {d} : Share(d, e) \/ NamesOf(d) \cap NamesOf(e) # {}

\* A row's owner from Humaans has that device by serial number, or logs in
\* where a device of the row was ever in use, or has a name that the row's
\* begins with (humaans_sync.py:131, 149, 161).
OwnerForCause ==
    \A h \in DOMAIN rows : rows[h].owner \in People =>
       LET person == fleet.people[rows[h].owner] IN
       \/ h \in person.prefix
       \/ \E d \in rows[h].by : d \in person.equipment \/ had[d] \cap person.names # {}

\* A vulnerability of a device is one finding of its scanner, whatever was
\* written to its row in between, until a lookup at the vendor failed: then
\* it is stored again under an agent id or the vendor's own number
\* (crowdstrike.py:128, 328; defender.py:221; rapid7.py:210, 263).
OneFinding ==
    \A v \in Vendors \ failed : \A d \in Devices :
       Cardinality({<<x.host, x.cve>> : x \in {y \in found : y.source = v /\ y.device = d}}) <= 1

\* A sync breaks off at a row only after the script turned its list of
\* sources into an object; the sources the syncs themselves write never do
\* (enrich_assets.py:134; sync.py:262; jamf_sync.py:199; humaans_sync.py:210).
StopsForCause == stopped \subseteq scripted

\* Records of one device meet in one row, and its findings stay one: what does
\* not is explained by what a vendor, a user or a script did.
RecordsFollow ==
    /\ RecordsTypeOK
    /\ StrayForCause /\ SerialKept /\ OwnerForCause /\ OneFinding /\ StopsForCause
=============================================================================
