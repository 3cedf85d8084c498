---------------------------- MODULE VendorFeeds ----------------------------
(* The paging loops by which a sync reads one vendor's lists                *)
(* (connectors/crowdstrike.py, defender.py, rapid7.py, wiz.py, qualys.py,   *)
(* nessus.py, jamf.py, humaans.py, azure_entra.py, google_workspace.py).    *)
(* Every connector writes its own loop; they differ in how the next page is *)
(* addressed and in which failures they retry, swallow or raise.  Each loop *)
(* is described by a record; one machine walks them all.  The vendor may    *)
(* drop an item from the list while it is being read.                       *)
EXTENDS Integers, FiniteSets, Sequences

CONSTANTS
    MaxItems,     \* items of a vendor list
    PageSize,     \* items of a page (400, 500, 1000, 200, 100, ...)
    MaxPages,     \* the page cap of the capped loops (100, 500 or 50)
    MaxTries,     \* attempts of one request where 429 or 409 is retried (3 or 5)
    MaxRemovals   \* items the vendor drops during a fetch

ASSUME FeedBounds ==
    /\ MaxItems \in Nat /\ PageSize \in Nat \ {0}
    /\ MaxPages \in Nat \ {0} /\ MaxTries \in Nat \ {0} /\ MaxRemovals \in Nat

VARIABLES
    fetch,     \* the call in progress, see FetchType
    removed    \* the items the vendor has dropped since the fetch began

feedVars == <<fetch, removed>>

Items == 1 .. MaxItems
Live == Items \ removed

\* What the vendor answers instead of a page: 429 (or 409), 403, another
\* error status, no answer at all, an answer that cannot be parsed.
Answers == {"throttled", "refused", "failed", "lost", "garbled"}

Always(reaction) == [a \in Answers |-> reaction]

\* walk: how the next page is addressed.  capped: the loop counts pages.
\* on: what each answer does to the loop - "stop" returns what was read,
\* "drop" returns nothing, "raise" leaves the fetch, "retry" repeats the
\* request, "spend" repeats it at the price of a page, "skip" goes on to the
\* next item, "restart" reads again from the start with the base query.
\* exhausted: the same once the retries are used up.
CrowdStrike ==
    [walk |-> "cursor", capped |-> TRUE, exhausted |-> "stop",
     on |-> [Always("stop") EXCEPT !["throttled"] = "spend"]]
CrowdStrikeAssessments ==
    [walk |-> "cursor", capped |-> TRUE, exhausted |-> "stop",
     on |-> [Always("stop") EXCEPT !["throttled"] = "spend", !["refused"] = "drop"]]
Defender ==
    [walk |-> "cursor", capped |-> TRUE, exhausted |-> "stop",
     on |-> [Always("stop") EXCEPT !["throttled"] = "retry", !["lost"] = "retry"]]
Rapid7 ==
    [walk |-> "offset", capped |-> FALSE, exhausted |-> "raise",
     on |-> Always("raise")]
WizConfiguration ==
    [walk |-> "cursor", capped |-> FALSE, exhausted |-> "raise",
     on |-> [Always("raise") EXCEPT !["throttled"] = "retry"]]
WizFindings == [WizConfiguration EXCEPT !.on["garbled"] = "restart"]
Qualys ==
    [walk |-> "keyset", capped |-> FALSE, exhausted |-> "raise",
     on |-> [Always("raise") EXCEPT !["throttled"] = "retry", !["lost"] = "retry",
                                    !["garbled"] = "stop"]]
\* Answers in XML carry upper-case tags: the loop reads h.get("id"), finds no
\* id, and asks for the first page again for as long as that page is full.
QualysXml == [Qualys EXCEPT !.walk = "stuck"]
Nessus ==
    [walk |-> "each", capped |-> FALSE, exhausted |-> "raise",
     on |-> Always("skip")]
Jamf ==
    [walk |-> "offset", capped |-> FALSE, exhausted |-> "raise",
     on |-> [Always("stop") EXCEPT !["lost"] = "raise", !["garbled"] = "raise"]]
Humaans ==
    [walk |-> "offset", capped |-> FALSE, exhausted |-> "stop",
     on |-> Always("stop")]
AzureEntra == [Jamf EXCEPT !.walk = "cursor"]
GoogleWorkspace == [Jamf EXCEPT !.walk = "cursor"]

\* The lists a sync of each kind reads, in order: findings and then
\* misconfigurations for a scanner, users and then groups for a directory.
ListsOf ==
    [crowdstrike |-> <<CrowdStrike, CrowdStrikeAssessments>>,
     defender |-> <<Defender>>, rapid7 |-> <<Rapid7>>,
     wiz |-> <<WizFindings, WizConfiguration>>,
     qualys |-> <<Qualys>>, qualysxml |-> <<QualysXml>>, nessus |-> <<Nessus>>,
     jamf |-> <<Jamf>>, humaans |-> <<Humaans>>,
     azure |-> <<AzureEntra, AzureEntra>>,
     google |-> <<GoogleWorkspace, GoogleWorkspace>>]

FetchType ==
    [kind : DOMAIN ListsOf, list : 1 .. 2,
     state : {"idle", "paging", "returned", "raised"},
     at : 0 .. MaxItems + PageSize,   \* the last item read, or the offset
     page : 0 .. MaxPages, try : 0 .. MaxTries, base : BOOLEAN, listed : BOOLEAN,
     got : SUBSET Items,              \* the items read of the current list
     found : SUBSET Items,            \* the items read of the first list
     swallowed : BOOLEAN,             \* some failure was not raised
     capped : BOOLEAN]                \* the page cap ended a list

Policy == ListsOf[fetch.kind][fetch.list]
Paging == fetch.state = "paging"

NoFetch(k) ==
    [kind |-> k, list |-> 1, state |-> "idle", at |-> 0, page |-> 0, try |-> 0,
     base |-> FALSE, listed |-> FALSE, got |-> {}, found |-> {},
     swallowed |-> FALSE, capped |-> FALSE]

Position(i) == Cardinality({j \in Live : j <= i})

\* The live items beyond the place the next request asks for.
Ahead ==
    CASE Policy.walk = "offset" -> {i \in Live : Position(i) > fetch.at}
      [] Policy.walk = "stuck"  -> Live
      [] OTHER                  -> {i \in Live : i > fetch.at}

Page ==
    LET size == IF Policy.walk = "each" THEN 1 ELSE PageSize IN
    {i \in Ahead : Cardinality({j \in Ahead : j <= i}) <= size}

\* A list that ends is followed by the next one; the last one returns.
EndList(f) ==
    LET found == IF f.list = 1 THEN f.got ELSE f.found IN
    IF f.list < Len(ListsOf[f.kind])
      THEN [f EXCEPT !.list = 2, !.at = 0, !.page = 0, !.try = 0, !.got = {}, !.found = found]
      ELSE [f EXCEPT !.state = "returned", !.found = found]

\* Where the next request begins: after the last item read, or a page further.
AfterAndOneMore(read) ==
    IF Policy.walk = "offset" THEN fetch.at + PageSize
    ELSE 1 + (CHOOSE i \in read : \A j \in read : j <= i)
After(read) ==
    IF Policy.walk = "offset" THEN fetch.at + PageSize
    ELSE CHOOSE i \in read : \A j \in read : j <= i

\* A capped loop stops at its cap, with pages to come.
Advance(f, read) ==
    IF Policy.capped /\ f.page + 1 = MaxPages THEN EndList([f EXCEPT !.capped = TRUE])
    ELSE [f EXCEPT !.at = After(read), !.try = 0, !.page = IF Policy.capped THEN @ + 1 ELSE @]

\* Nothing lies beyond the page; Qualys ends at a page that is not full.
LastPage(read) ==
    IF Policy.walk \in {"keyset", "stuck"} THEN Cardinality(read) < PageSize
    ELSE Ahead \subseteq read

\* A page arrives, with the lookups made for its records.
FetchPage ==
    /\ Paging
    /\ UNCHANGED removed
    /\ IF Policy.walk = "each" /\ ~fetch.listed
         THEN fetch' = [fetch EXCEPT !.listed = TRUE]
         ELSE LET f == [fetch EXCEPT !.got = @ \cup Page] IN
              fetch' = CASE LastPage(Page) -> EndList(f)
                         [] ~LastPage(Page) /\ Policy.walk = "stuck" -> [f EXCEPT !.try = 0]
                         [] ~LastPage(Page) /\ Policy.walk # "stuck" -> Advance(f, Page)

\* The loop ends the list early and reports nothing.
StopShort(f) == EndList([f EXCEPT !.swallowed = TRUE])
Raise(f) == [f EXCEPT !.state = "raised"]

\* The vendor answers with anything but a page.
FetchFails(a) ==
    /\ Paging
    /\ UNCHANGED removed
    /\ Policy.walk = "each" /\ fetch.listed => Page # {}
    /\ LET reaction == IF Policy.walk = "each" /\ ~fetch.listed THEN "raise" ELSE Policy.on[a]
           again == fetch.try + 1
       IN CASE reaction = "stop" -> fetch' = StopShort(fetch)
            [] reaction = "drop" -> fetch' = StopShort([fetch EXCEPT !.got = {}])
            [] reaction = "raise" -> fetch' = Raise(fetch)
            [] reaction = "retry" ->
                 fetch' = IF again < MaxTries THEN [fetch EXCEPT !.try = again]
                          ELSE IF Policy.exhausted = "raise" THEN Raise(fetch) ELSE StopShort(fetch)
            [] reaction = "spend" ->
                 fetch' = IF fetch.page + 1 = MaxPages THEN EndList([fetch EXCEPT !.capped = TRUE])
                          ELSE [fetch EXCEPT !.page = @ + 1]
            [] reaction = "skip" ->
                 fetch' = LET f == [fetch EXCEPT !.swallowed = TRUE] IN
                          IF LastPage(Page) THEN EndList(f) ELSE Advance(f, Page)
            [] reaction = "restart" ->
                 fetch' = IF fetch.base THEN Raise(fetch)
                          ELSE [fetch EXCEPT !.base = TRUE, !.at = 0, !.try = 0, !.got = {}]

\* A finding is fixed, a device retired or an account deleted meanwhile.
ItemRemoved ==
    /\ Paging
    /\ Cardinality(removed) < MaxRemovals
    /\ \E i \in Live : removed' = removed \cup {i}
    /\ UNCHANGED fetch

FetchStep == FetchPage \/ ItemRemoved \/ (\E a \in Answers : FetchFails(a))
=============================================================================
