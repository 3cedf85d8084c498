------------------------------ MODULE TicketDesk ------------------------------
(* What people do with tickets that exist, and see of them: a ticket is the   *)
(* group of rows of one external_ticket_url, each row of one finding          *)
(* (ticketing/router.py; list_tickets and get_ticket_stats of service.py).    *)
(* Comments and watchers belong to one row, the block and the verdicts to all.*)
(* A bulk deletion is a transaction of many steps: it reads each finding      *)
(* before it writes it, and holds what it has written until it commits.       *)
EXTENDS Integers, FiniteSets, Functions

CONSTANTS
    Sheets,        \* the findings of each ticket
    People,        \* those who open tickets, comment and watch
    Deleters,      \* concurrent bulk deletions
    DeskFilters,   \* [of, chips]: the findings that match, the status chips
    MaxDeskWrites

ASSUME DeskAssumption == MaxDeskWrites \in Nat

Urls == DOMAIN Sheets
DeskFindings == UNION {Sheets[u] : u \in Urls}
Lines == {l \in Urls \X DeskFindings : l[2] \in Sheets[l[1]]}

VARIABLES
    lines,      \* the rows, by ticket and finding
    verdict,    \* the status of each finding
    byHand,     \* findings whose status was last set by hand
    page,       \* the row each person has opened, from which list
    remarks,    \* comments and watchers
    removal,    \* each bulk deletion
    tally,      \* the statistics someone asked for
    tasks,      \* tickets that were ever opened
    deskWrites

deskVars == <<lines, verdict, byHand, page, remarks, removal, tally, tasks, deskWrites>>

Verdicts == {"OPEN", "IN_PROGRESS", "REMEDIATED", "SUPPRESSED"}
NoPage == [stage |-> "none"]
NoRemoval == [stage |-> "none"]
NoTally == [stage |-> "none"]
Unfiltered == [of |-> DeskFindings, chips |-> {}]
None0 == "none"

DeskTypeOK ==
    /\ DOMAIN lines \subseteq Lines
    /\ \A l \in DOMAIN lines : lines[l] \in [id : Nat, resolved : BOOLEAN, blocked : BOOLEAN]
    /\ verdict \in [DeskFindings -> Verdicts] /\ byHand \subseteq DeskFindings
    /\ \A p \in People : page[p] # NoPage => page[p] \in [stage : {"open"}, line : Lines, whole : BOOLEAN]
    /\ remarks \subseteq [line : DOMAIN lines, by : People, kind : {"comment", "watch"}, whole : BOOLEAN]
    /\ \A p \in Deleters : removal[p] # NoRemoval =>
         /\ removal[p].stage \in {"next", "held"} /\ removal[p].url \in Urls
         /\ removal[p].todo \cup removal[p].reopens \cup removal[p].late \subseteq DeskFindings
    /\ tally # NoTally => tally.stage \in {"counting", "shown"}
    /\ tasks \subseteq Urls /\ deskWrites \in 0 .. MaxDeskWrites

-----------------------------------------------------------------------------
(* What is shown.                                                             *)

RowsOf(u) == {l \in DOMAIN lines : l[1] = u}
OnDesk == {l[1] : l \in DOMAIN lines}
Matching(filter) ==
    {l \in DOMAIN lines :
       /\ l[2] \in filter.of
       /\ filter.chips # {} =>
            \/ "open" \in filter.chips /\ ~lines[l].resolved
            \/ "completed" \in filter.chips /\ lines[l].resolved
            \/ "blocked" \in filter.chips /\ lines[l].blocked}
\* A ticket is listed with the rows that match, under the least of their ids.
Least(rows) == CHOOSE l \in rows : \A k \in rows : lines[l].id <= lines[k].id
Aggregate(rows) ==
    [resolved |-> \E l \in rows : lines[l].resolved, blocked |-> \E l \in rows : lines[l].blocked]
ItemRows(filter, u) == Matching(filter) \cap RowsOf(u)
Listing(filter) == {u \in OnDesk : ItemRows(filter, u) # {}}
Item(filter, u) == Aggregate(ItemRows(filter, u))
PageOf(u) == Aggregate(RowsOf(u))

TotalTickets == Cardinality(OnDesk)
OpenTickets == Cardinality({l[1] : l \in {k \in DOMAIN lines : ~lines[k].resolved}})

-----------------------------------------------------------------------------
(* Tickets are opened, closed, blocked.                                       *)

\* What a deletion has written is locked until it ends.
Held(p) == IF removal[p] = NoRemoval THEN {} ELSE removal[p].done
Locked(f) == \E p \in Deleters : f \in Held(p)
Rewritten(u) == \E p \in Deleters : removal[p] # NoRemoval /\ removal[p].url = u /\ removal[p].done # {}
\* Whoever counts or holds a finding meanwhile is late; a tally that is shown is dropped.
DeskWrite(of) ==
    /\ deskWrites < MaxDeskWrites /\ deskWrites' = deskWrites + 1
    /\ tally' = IF tally.stage = "counting" THEN [tally EXCEPT !.since = TRUE] ELSE NoTally
    /\ removal' = [p \in Deleters |->
                     IF removal[p].stage = "held" THEN [removal[p] EXCEPT !.late = @ \cup (of \cap {removal[p].at})]
                     ELSE removal[p]]

\* A ticket of one finding takes any, one of a host or a remediation the open ones.
Linkage(u) ==
    IF Cardinality(Sheets[u]) = 1 THEN Sheets[u]
    ELSE {f \in Sheets[u] : verdict[f] \in {"OPEN", "IN_PROGRESS"}}
OpensTask(u) ==
    LET linked == Linkage(u) IN
    /\ u \notin tasks /\ linked # {} /\ \A f \in linked : ~Locked(f)
    /\ DeskWrite(linked)
    /\ tasks' = tasks \cup {u}
    /\ \E id \in [linked -> 1 .. Cardinality(linked)] :
         /\ IsInjective(id)
         /\ lines' = [l \in DOMAIN lines \cup ({u} \X linked) |->
                        IF l[1] = u THEN [id |-> id[l[2]], resolved |-> FALSE, blocked |-> FALSE] ELSE lines[l]]
    /\ verdict' = [f \in DeskFindings |-> IF f \in linked THEN "IN_PROGRESS" ELSE verdict[f]]
    /\ byHand' = byHand \ linked
    /\ UNCHANGED <<page, remarks>>
ClosesTask(u) ==
    /\ RowsOf(u) # {} /\ ~Rewritten(u) /\ \A l \in RowsOf(u) : ~Locked(l[2])
    /\ DeskWrite({l[2] : l \in RowsOf(u)})
    /\ lines' = [l \in DOMAIN lines |-> IF l[1] = u THEN [lines[l] EXCEPT !.resolved = TRUE] ELSE lines[l]]
    /\ verdict' = [f \in DeskFindings |->
                     IF <<u, f>> \in RowsOf(u) /\ verdict[f] # "SUPPRESSED" THEN "REMEDIATED" ELSE verdict[f]]
    /\ UNCHANGED <<byHand, page, remarks, tasks>>
SetsVerdict(f, s) ==
    /\ verdict[f] # s /\ ~Locked(f)
    /\ DeskWrite({f})
    /\ verdict' = [verdict EXCEPT ![f] = s] /\ byHand' = byHand \cup {f}
    /\ UNCHANGED <<lines, page, remarks, tasks>>

\* The block of a row is the block of its ticket.
Blocks(l, blocked) ==
    /\ l \in DOMAIN lines /\ ~Rewritten(l[1])
    /\ DeskWrite({})
    /\ lines' = [k \in DOMAIN lines |-> IF k[1] = l[1] THEN [lines[k] EXCEPT !.blocked = blocked] ELSE lines[k]]
    /\ UNCHANGED <<verdict, byHand, page, remarks, tasks>>
BlocksFromPage(p, blocked) == page[p] # NoPage /\ Blocks(page[p].line, blocked)
BulkBlocks(u, blocked) == \E l \in RowsOf(u) : Blocks(l, blocked)

-----------------------------------------------------------------------------
(* Comments and watchers.                                                     *)

OpensTicket(p, filter, u) ==
    /\ u \in Listing(filter)
    /\ page' = [page EXCEPT ![p] = [stage |-> "open", line |-> Least(ItemRows(filter, u)), whole |-> filter = Unfiltered]]
    /\ UNCHANGED <<lines, verdict, byHand, remarks, removal, tally, tasks, deskWrites>>
\* Mutant: what is written goes to the newest row of the ticket.
NoteOnLast(p, kind) ==
    [line |-> IF RowsOf(page[p].line[1]) = {} THEN page[p].line
              ELSE CHOOSE l \in RowsOf(page[p].line[1]) : \A k \in RowsOf(page[p].line[1]) : lines[l].id >= lines[k].id,
     by |-> p, kind |-> kind, whole |-> page[p].whole]

NoteOn(p, kind) ==
    [line |-> page[p].line, by |-> p, kind |-> kind, whole |-> page[p].whole]

\* A row that is gone is not found.
Notes(p, kind) ==
    /\ page[p] # NoPage /\ page[p].line \in DOMAIN lines /\ ~Rewritten(page[p].line[1])
    /\ DeskWrite({})
    /\ remarks' = remarks \cup {NoteOn(p, kind)}
    /\ UNCHANGED <<lines, verdict, byHand, page, tasks>>
Unwatches(p) ==
    /\ page[p] # NoPage /\ page[p].line \in DOMAIN lines /\ ~Rewritten(page[p].line[1])
    /\ remarks' = {n \in remarks : ~(n.line = page[p].line /\ n.by = p /\ n.kind = "watch")}
    /\ remarks' # remarks
    /\ UNCHANGED <<lines, verdict, byHand, page, removal, tally, tasks, deskWrites>>

-----------------------------------------------------------------------------
(* A bulk deletion: the rows, then the finding of each, one at a time.  What  *)
(* it wrote for one is sent when it reads the next.                           *)

RemovalBegins(p, u) ==
    /\ removal[p] = NoRemoval /\ RowsOf(u) # {}
    /\ removal' = [removal EXCEPT ![p] =
                     [stage |-> "next", url |-> u, todo |-> {l[2] : l \in RowsOf(u)}, done |-> {},
                      at |-> None0, reopens |-> {}, late |-> {}]]
    /\ UNCHANGED <<lines, verdict, byHand, page, remarks, tally, tasks, deskWrites>>
\* Mutant: a ticket's findings are reopened whatever became of them.
ReopensAny(f) == verdict[f] # "OPEN"

Reopens(f) == verdict[f] \in {"IN_PROGRESS", "REMEDIATED"}
Sent(r) == r.done \cup ({r.at} \cap r.reopens)
RemovalReads(p, f) ==
    LET r == removal[p] IN
    /\ r # NoRemoval /\ f \in r.todo
    /\ r.at \notin UNION {Held(q) : q \in Deleters \ {p}}
    /\ removal' = [removal EXCEPT ![p] =
                     [r EXCEPT !.stage = "held", !.todo = @ \ {f}, !.done = Sent(r), !.at = f,
                               !.reopens = IF Reopens(f) THEN @ \cup {f} ELSE @]]
    /\ UNCHANGED <<lines, verdict, byHand, page, remarks, tally, tasks, deskWrites>>
Gone(r) == {l \in DOMAIN lines : l[1] = r.url}
RemovalCommits(p) ==
    LET r == removal[p] IN
    /\ r # NoRemoval /\ r.todo = {}
    /\ r.at \notin UNION {Held(q) : q \in Deleters \ {p}}
    /\ lines' = [l \in DOMAIN lines \ Gone(r) |-> lines[l]]
    /\ remarks' = {n \in remarks : n.line \notin Gone(r)}
    /\ verdict' = [f \in DeskFindings |-> IF f \in r.reopens THEN "OPEN" ELSE verdict[f]]
    /\ byHand' = byHand \ r.reopens
    /\ removal' = [q \in Deleters |->
                     IF q = p THEN NoRemoval
                     ELSE IF removal[q].stage = "held" THEN [removal[q] EXCEPT !.late = @ \cup (r.reopens \cap {removal[q].at})]
                     ELSE removal[q]]
    /\ tally' = IF tally.stage = "counting" THEN [tally EXCEPT !.since = TRUE] ELSE NoTally
    /\ UNCHANGED <<page, tasks, deskWrites>>
\* An error, or PostgreSQL ending one of two deletions that wait for each other.
RemovalFails(p) ==
    /\ removal[p] # NoRemoval
    /\ removal' = [removal EXCEPT ![p] = NoRemoval]
    /\ UNCHANGED <<lines, verdict, byHand, page, remarks, tally, tasks, deskWrites>>

-----------------------------------------------------------------------------
(* Statistics are two reads.                                                  *)

CountsAll ==
    /\ tally = NoTally
    /\ tally' = [stage |-> "counting", total |-> TotalTickets, open |-> 0, since |-> FALSE]
    /\ UNCHANGED <<lines, verdict, byHand, page, remarks, removal, tasks, deskWrites>>
CountsOpen ==
    /\ tally.stage = "counting"
    /\ tally' = [tally EXCEPT !.stage = "shown", !.open = OpenTickets]
    /\ UNCHANGED <<lines, verdict, byHand, page, remarks, removal, tasks, deskWrites>>
StatsAreRead ==
    /\ tally.stage = "shown" /\ tally' = NoTally
    /\ UNCHANGED <<lines, verdict, byHand, page, remarks, removal, tasks, deskWrites>>

DeskInit ==
    /\ lines = [l \in {} |-> 0] /\ verdict = [f \in DeskFindings |-> "OPEN"] /\ byHand = {}
    /\ page = [p \in People |-> NoPage] /\ remarks = {} /\ removal = [p \in Deleters |-> NoRemoval]
    /\ tally = NoTally /\ tasks = {} /\ deskWrites = 0
DeskNext ==
    \/ \E u \in Urls : OpensTask(u) \/ ClosesTask(u) \/ \E blocked \in BOOLEAN : BulkBlocks(u, blocked)
    \/ \E f \in DeskFindings, s \in Verdicts : SetsVerdict(f, s)
    \/ \E p \in People :
         \/ \E blocked \in BOOLEAN : BlocksFromPage(p, blocked)
         \/ \E filter \in DeskFilters, u \in Urls : OpensTicket(p, filter, u)
         \/ \E kind \in {"comment", "watch"} : Notes(p, kind)
         \/ Unwatches(p)
    \/ \E p \in Deleters :
         \/ \E u \in Urls : RemovalBegins(p, u)
         \/ \E f \in DeskFindings : RemovalReads(p, f)
         \/ RemovalCommits(p)
         \/ RemovalFails(p)
    \/ CountsAll \/ CountsOpen \/ StatsAreRead

-----------------------------------------------------------------------------
\* A comment or watcher made on a ticket opened from the whole list is on the
\* row under which the whole list opens the ticket, for as long as the ticket
\* is there; one made from a filtered list may be on another row
\* (service.py:832; router.py:557).
NotesStay == \A n \in remarks : n.whole => n.line = Least(RowsOf(n.line[1]))

\* Whatever the filter, a ticket in the list is blocked and resolved as it is
\* on its own page, though the list reads only the rows that match
\* (service.py:838, 843; router.py:819).
ListedAsOnPage ==
    \A filter \in DeskFilters : \A u \in Listing(filter) : Item(filter, u) = PageOf(u)

\* A deletion reopens no finding that was suppressed, unless it was suppressed
\* while the deletion had read and not yet written it (router.py:453, 464).
SuppressedStay ==
    [][\A p \in Deleters : RemovalCommits(p) =>
         \A f \in removal[p].reopens : verdict[f] = "SUPPRESSED" => f \in removal[p].late]_deskVars

\* A finding in progress has a ticket or was put there by hand: deleting its
\* tickets takes it back (router.py:461).
InProgressForCause ==
    \A f \in DeskFindings \ byHand : verdict[f] = "IN_PROGRESS" => \E l \in DOMAIN lines : l[2] = f

\* The number of resolved tickets is the total less the open ones, unless one
\* was opened, closed or deleted between the two reads (service.py:1083).
TallyForCause ==
    tally.stage = "shown" =>
       \/ tally.since
       \/ tally.total - tally.open = Cardinality(Listing([Unfiltered EXCEPT !.chips = {"completed"}]))

\* Lists, pages, notes, statistics and findings tell one story of each ticket.
DeskSound == DeskTypeOK /\ NotesStay /\ ListedAsOnPage /\ InProgressForCause /\ TallyForCause
=============================================================================
