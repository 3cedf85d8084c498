------------------------------ MODULE Ticketing ------------------------------
(***************************************************************************)
(* One tenant's tickets at one provider: ticketing/service.py with its     *)
(* endpoints, rule_engine.py and daily_sync.py.                            *)
(*                                                                         *)
(* A task is what the provider holds; a ticket row links a task to one of  *)
(* its findings.  A maker is one session that opens tasks: a request, or a *)
(* run of a rule; it opens each task before it adds the rows and commits   *)
(* them all at its end.  A sync is one session that reads the tasks of the *)
(* open rows and writes rows and findings back: the daily job, the manual  *)
(* sync, or the closing of one ticket.  No session locks what it reads;    *)
(* the row locks of its UPDATEs only delay the others, so what it writes   *)
(* goes to the database when it commits.                                   *)
(***************************************************************************)
EXTENDS Naturals, FiniteSets

CONSTANTS
    Findings,
    Hosts,          \* the findings of each asset
    Remedies,       \* the findings of each remediation_id
    Tasks,          \* the provider's task ids
    Makers,         \* concurrent sessions that open tasks
    Dailies,        \* runs of run_daily_ticket_sync, one per replica
    Requests,       \* concurrent calls of sync_ticket_status or close_ticket
    MaxTickets,     \* a rule's max_tickets; one calendar day
    Deletable,      \* the tasks whose ticket people may delete
    MaxEdits,       \* bound: edits of findings, reopened tasks, deleted tickets
    MaxFailures,    \* bound: crashes, lost answers, failed calls
    None

Syncs == Dailies \cup Requests

ASSUME TicketingAssumption ==
    /\ IsFiniteSet(Findings) /\ IsFiniteSet(Tasks) /\ IsFiniteSet(Makers)
    /\ Hosts \subseteq SUBSET Findings /\ Remedies \subseteq SUBSET Findings
    \* A finding has one asset and one remediation_id: no session meets its own rows.
    /\ \A h, g \in Hosts : h # g => h \cap g = {}
    /\ \A h, g \in Remedies : h # g => h \cap g = {}
    /\ Deletable \subseteq Tasks
    /\ Dailies \cap Requests = {}
    /\ MaxTickets \in Nat /\ MaxEdits \in Nat /\ MaxFailures \in Nat
    /\ None \notin Tasks

VARIABLES
    status,     \* each finding's status
    task,       \* the provider's tasks: their state and what each is about
    rows,       \* rows[t][f]: the ticket row of task t and finding f
    maker,
    sync,
    edits,
    failures
vars == <<status, task, rows, maker, sync, edits, failures>>

Statuses == {"OPEN", "IN_PROGRESS", "REMEDIATED", "SUPPRESSED", "FALSE_POSITIVE"}

\* What one ticket is about.
FindingUnits == [kind : {"finding"}, of : {{f} : f \in Findings}]
HostUnits == [kind : {"host"}, of : Hosts]
RemedyUnits == [kind : {"remediation"}, of : Remedies]
Units == FindingUnits \cup HostUnits \cup RemedyUnits
NoUnit == [kind |-> "none", of |-> {}]

(***************************************************************************)
(* made and begun are the rows and the findings set IN_PROGRESS that are   *)
(* not committed; fresh are the targets that were not IN_PROGRESS already. *)
(***************************************************************************)
IdleMaker == [stage |-> "idle", rule |-> FALSE, quota |-> 0, todo |-> {},
              unit |-> NoUnit, targets |-> {}, fresh |-> {}, task |-> None,
              made |-> {}, begun |-> {}]

(***************************************************************************)
(* list is the rows read at the start, todo the tasks ahead in this pass;  *)
(* done and fixed are the resolved rows and the remediated findings that   *)
(* are not committed; got says that some task could be read.               *)
(***************************************************************************)
IdleSync == [stage |-> "idle", list |-> {}, todo |-> {}, done |-> {}, fixed |-> {},
             got |-> FALSE]

Init ==
    /\ status = [f \in Findings |-> "OPEN"]
    /\ task = [t \in Tasks |-> [state |-> "none", unit |-> NoUnit]]
    /\ rows = [t \in Tasks |-> [f \in Findings |-> "none"]]
    /\ maker = [c \in Makers |-> IdleMaker]
    /\ sync = [s \in Syncs |-> IdleSync]
    /\ edits = 0 /\ failures = 0

-----------------------------------------------------------------------------
Open == {f \in Findings : status[f] \in {"OPEN", "IN_PROGRESS"}}
Tickets(f) == {t \in Tasks : rows[t][f] # "none"}
Rows == {r \in Tasks \X Findings : rows[r[1]][r[2]] # "none"}
OpenRows == {r \in Rows : rows[r[1]][r[2]] = "open"}
Of(pairs, t) == {f \in Findings : <<t, f>> \in pairs}
TasksOf(pairs) == {r[1] : r \in pairs}

Fail == failures < MaxFailures /\ failures' = failures + 1
Edit == edits < MaxEdits /\ edits' = edits + 1

-----------------------------------------------------------------------------
(* Makers *)

\* POST /tickets for some findings, or POST /tickets/host.
Request(c) ==
    /\ maker[c] = IdleMaker
    /\ \E units \in (SUBSET FindingUnits) \cup {{h} : h \in HostUnits} :
          /\ units # {}
          /\ maker' = [maker EXCEPT ![c] =
                [IdleMaker EXCEPT !.stage = "next", !.todo = units]]
    /\ UNCHANGED <<status, task, rows, sync, edits, failures>>

\* run_rule: the budget left is counted in rows, for every row of a host's or a
\* remediation's ticket has an external id of its own.
RunRule(c) ==
    /\ maker[c] = IdleMaker
    /\ Cardinality(Rows) < MaxTickets
    /\ \E units \in (SUBSET HostUnits) \cup (SUBSET RemedyUnits) :
          /\ units # {}
          /\ maker' = [maker EXCEPT ![c] =
                [IdleMaker EXCEPT !.stage = "next", !.rule = TRUE, !.todo = units,
                                  !.quota = MaxTickets - Cardinality(Rows)]]
    /\ UNCHANGED <<status, task, rows, sync, edits, failures>>

Going(c) == maker[c].stage = "next" /\ (maker[c].rule => maker[c].quota > 0)
Skipping(m, u) == [m EXCEPT !.stage = "next", !.unit = NoUnit, !.targets = {},
                            !.fresh = {}, !.task = None, !.todo = @ \ {u}]

\* The duplicate checks.  A finding's looks for a row of any age, the others for one
\* that is still open.
Ticketed(u) ==
    \/ u.kind = "finding" /\ \E f \in u.of : Tickets(f) # {}
    \/ u.kind = "host" /\ \E r \in OpenRows : r[2] \in u.of
    \/ u.kind = "remediation" /\ \E r \in OpenRows : task[r[1]].unit = u

\* Only a single finding is ticketed whatever its status.
Targets(u) == IF u.kind = "finding" THEN u.of ELSE u.of \cap Open

\* scalar_one_or_none raises when it finds two rows.
Ambiguous(F) == \E f \in F : Cardinality(Tickets(f)) > 1

\* Nothing to do, or create returns None.
Skip(c) ==
    /\ Going(c)
    /\ \E u \in maker[c].todo :
          /\ u.kind = "finding" => ~Ambiguous(u.of)
          /\ maker' = [maker EXCEPT ![c] = Skipping(@, u)]
    /\ UNCHANGED <<status, task, rows, sync, edits, failures>>

\* An exception.  A request is rolled back, and so is a rule run on demand; the
\* scheduler marks the rule FAILED and commits what its session holds.
Raised(m) == {IdleMaker} \cup (IF m.rule THEN {[Skipping(m, m.unit) EXCEPT !.todo = {}]} ELSE {})

RaiseInCheck(c) ==
    /\ Going(c)
    /\ \E u \in maker[c].todo : u.kind = "finding" /\ Ambiguous(u.of)
    /\ maker' = [maker EXCEPT ![c] = IdleMaker]
    /\ UNCHANGED <<status, task, rows, sync, edits, failures>>

\* client.create comes before any row.  Nothing that others can see lies between the
\* checks and the call.
OpenTask(c, t, u) ==
    /\ Going(c)
    /\ u \in maker[c].todo
    /\ ~Ticketed(u) /\ Targets(u) # {}
    /\ task[t].state = "none"
    /\ task' = [task EXCEPT ![t] = [state |-> "open", unit |-> u]]

Create(c) ==
    /\ \E t \in Tasks, u \in Units :
          /\ OpenTask(c, t, u)
          /\ maker' = [maker EXCEPT ![c] =
                [@ EXCEPT !.stage = "linking", !.unit = u, !.task = t, !.targets = Targets(u),
                          !.fresh = {f \in Targets(u) : status[f] # "IN_PROGRESS"}]]
    /\ UNCHANGED <<status, rows, sync, edits, failures>>

\* The connection breaks after the provider has accepted the task.
CreateLost(c) ==
    /\ Fail
    /\ \E t \in Tasks, u \in Units : OpenTask(c, t, u)
    /\ \E m \in Raised(maker[c]) : maker' = [maker EXCEPT ![c] = m]
    /\ UNCHANGED <<status, rows, sync, edits>>

\* Mutant: a host's ticket takes every open finding.
LinkableAll(m) == m.targets

\* A host's ticket leaves out the findings that have a row of any age.
Linkable(m) ==
    IF m.unit.kind = "host" THEN {f \in m.targets : Tickets(f) = {}} ELSE m.targets

Linked(m, F) == [m EXCEPT !.made = @ \cup ({m.task} \X F),
                          !.begun = @ \cup (F \cap m.fresh)]

\* created += 1
Counted(m) == [m EXCEPT !.quota = IF m.rule THEN @ - 1 ELSE 0]

Link(c) ==
    LET m == maker[c] IN
    /\ m.stage = "linking"
    /\ m.unit.kind = "host" => ~Ambiguous(m.targets)
    /\ maker' = [maker EXCEPT ![c] = Skipping(Counted(Linked(m, Linkable(m))), m.unit)]
    /\ UNCHANGED <<status, task, rows, sync, edits, failures>>

\* A second row turns up in the loop over the targets; the rows before it are added.
RaiseInLink(c) ==
    LET m == maker[c] IN
    /\ m.stage = "linking" /\ m.unit.kind = "host" /\ Ambiguous(m.targets)
    /\ \E F \in SUBSET Linkable(m) : \E n \in Raised(Linked(m, F)) :
          maker' = [maker EXCEPT ![c] = n]
    /\ UNCHANGED <<status, task, rows, sync, edits, failures>>

Commit(c) ==
    LET m == maker[c] IN
    /\ m.stage = "next" /\ (m.todo = {} \/ (m.rule /\ m.quota = 0))
    /\ rows' = [t \in Tasks |-> [f \in Findings |->
          IF <<t, f>> \in m.made THEN "open" ELSE rows[t][f]]]
    /\ status' = [f \in Findings |-> IF f \in m.begun THEN "IN_PROGRESS" ELSE status[f]]
    /\ maker' = [maker EXCEPT ![c] = IdleMaker]
    /\ UNCHANGED <<task, sync, edits, failures>>

\* A crash, a deadlock broken by the database: nothing is committed.
MakerFails(c) ==
    /\ maker[c].stage # "idle"
    /\ Fail
    /\ maker' = [maker EXCEPT ![c] = IdleMaker]
    /\ UNCHANGED <<status, task, rows, sync, edits>>

Make(c) ==
    \/ Request(c) \/ RunRule(c) \/ Skip(c) \/ RaiseInCheck(c) \/ Create(c) \/ CreateLost(c)
    \/ Link(c) \/ RaiseInLink(c) \/ Commit(c) \/ MakerFails(c)

-----------------------------------------------------------------------------
(* Syncs *)

ListTickets(s) ==
    /\ sync[s] = IdleSync
    /\ OpenRows # {}
    /\ sync' = [sync EXCEPT ![s] = [IdleSync EXCEPT
          !.stage = "reading", !.list = OpenRows, !.todo = TasksOf(OpenRows)]]
    /\ UNCHANGED <<status, task, rows, maker, edits, failures>>

\* The findings a completed task leaves alone.  The manual sync overwrites SUPPRESSED,
\* and either sync FALSE_POSITIVE.
Kept(s) == {f \in Findings :
    status[f] \in {"REMEDIATED"} \cup (IF s \in Dailies THEN {"SUPPRESSED"} ELSE {})}

\* Mutant: a completed task remediates whatever the session has listed.
ReadTaskForAll(s) ==
    /\ sync[s].stage = "reading"
    /\ \E t \in sync[s].todo :
          LET mine == {r \in sync[s].list : r[1] = t}
              q == [sync[s] EXCEPT !.todo = @ \ {t}, !.got = TRUE]
          IN  sync' = [sync EXCEPT ![s] =
                 IF task[t].state = "closed"
                 THEN [q EXCEPT !.done = @ \cup mine,
                                !.fixed = @ \cup ({r[2] : r \in q.list} \ Kept(s))]
                 ELSE q]
    /\ UNCHANGED <<status, task, rows, maker, edits, failures>>

\* First pass.  A completed task resolves its rows and remediates their findings.
ReadTask(s) ==
    /\ sync[s].stage = "reading"
    /\ \E t \in sync[s].todo :
          LET mine == {r \in sync[s].list : r[1] = t}
              q == [sync[s] EXCEPT !.todo = @ \ {t}, !.got = TRUE]
          IN  sync' = [sync EXCEPT ![s] =
                 IF task[t].state = "closed"
                 THEN [q EXCEPT !.done = @ \cup mine,
                                !.fixed = @ \cup (Of(mine, t) \ Kept(s))]
                 ELSE q]
    /\ UNCHANGED <<status, task, rows, maker, edits, failures>>

\* get returns None.
ReadFails(s) ==
    /\ sync[s].stage = "reading"
    /\ Fail
    /\ \E t \in sync[s].todo : sync' = [sync EXCEPT ![s].todo = @ \ {t}]
    /\ UNCHANGED <<status, task, rows, maker, edits>>

SecondPass(s) ==
    /\ sync[s].stage = "reading" /\ sync[s].todo = {}
    /\ sync' = [sync EXCEPT ![s] = [@ EXCEPT !.stage = "closing",
          !.todo = TasksOf(sync[s].list \ sync[s].done)]]
    /\ UNCHANGED <<status, task, rows, maker, edits, failures>>

\* Mutant: suppressed findings and false positives keep their ticket open.
StillOpenOrSuppressed(s, t) ==
    {f \in Of(sync[s].list \ sync[s].done, t) : status[f] # "REMEDIATED"} \ sync[s].fixed

\* The findings of a task's rows that are left, as this session sees them.
StillOpen(s, t) == (Of(sync[s].list \ sync[s].done, t) \cap Open) \ sync[s].fixed

\* A task in the tracker is completed, or the call fails and the client says nothing.
Completed(t) ==
    \/ /\ task' = [task EXCEPT ![t].state = IF @ = "none" THEN @ ELSE "closed"]
       /\ UNCHANGED failures
    \/ Fail /\ UNCHANGED task

\* Second pass: a ticket whose findings are all settled is closed; the others may
\* get a comment.
AutoClose(s) ==
    /\ sync[s].stage = "closing"
    /\ \E t \in sync[s].todo :
          LET q == [sync[s] EXCEPT !.todo = @ \ {t}] IN
          IF StillOpen(s, t) = {}
          THEN /\ Completed(t)
               /\ sync' = [sync EXCEPT ![s] =
                     [q EXCEPT !.done = @ \cup {r \in q.list : r[1] = t}]]
          ELSE /\ sync' = [sync EXCEPT ![s] = q]
               /\ UNCHANGED <<task, failures>>
    /\ UNCHANGED <<status, rows, maker, edits>>

\* close_ticket: all rows of the task, resolved ones included.
CloseTicket(s) ==
    /\ s \in Requests /\ sync[s] = IdleSync
    /\ \E t \in TasksOf(Rows) :
          LET mine == {r \in Rows : r[1] = t} IN
          /\ Completed(t)
          /\ sync' = [sync EXCEPT ![s] = [IdleSync EXCEPT
                !.stage = "closing", !.list = mine, !.done = mine, !.got = TRUE,
                !.fixed = {f \in Of(mine, t) : status[f] \notin {"REMEDIATED", "SUPPRESSED"}}]]
    /\ UNCHANGED <<status, rows, maker, edits>>

\* An UPDATE of a row that is gone fails the whole session.
Written(q) ==
    /\ q.done \subseteq Rows
    /\ rows' = [t \in Tasks |-> [f \in Findings |->
          IF <<t, f>> \in q.done THEN "resolved" ELSE rows[t][f]]]
    /\ status' = [f \in Findings |->
          IF f \in q.fixed THEN "REMEDIATED" ELSE status[f]]

\* The daily job commits if it could read a task of this or of another connector.
CommitSync(s) ==
    LET q == sync[s] IN
    /\ q.stage = "closing" /\ q.todo = {}
    /\ \/ Written(q)
       \/ /\ ~(q.done \subseteq Rows) \/ (s \in Dailies /\ ~q.got)
          /\ UNCHANGED <<rows, status>>
    /\ sync' = [sync EXCEPT ![s] = IdleSync]
    /\ UNCHANGED <<task, maker, edits, failures>>

\* A crash or an exception.  The daily job catches it per connector and commits what
\* was written before it if another connector could be read.
SyncFails(s) ==
    /\ sync[s].stage # "idle"
    /\ Fail
    /\ (s \in Dailies /\ Written(sync[s])) \/ UNCHANGED <<rows, status>>
    /\ sync' = [sync EXCEPT ![s] = IdleSync]
    /\ UNCHANGED <<task, maker, edits>>

Proceed(s) == ReadTask(s) \/ SecondPass(s) \/ AutoClose(s) \/ CommitSync(s)
Sync(s) ==
    \/ ListTickets(s) \/ Proceed(s) \/ CloseTicket(s) \/ ReadFails(s) \/ SyncFails(s)

-----------------------------------------------------------------------------
(* People *)

\* The status endpoints: any status from any other.
SetStatus(f) ==
    /\ Edit
    /\ \E v \in Statuses : status' = [status EXCEPT ![f] = v]
    /\ UNCHANGED <<task, rows, maker, sync, failures>>

\* Somebody completes or reopens a task in the tracker.
TaskClosed(t) ==
    /\ task[t].state \in {"open", "reopened"}
    /\ task' = [task EXCEPT ![t].state = "closed"]
    /\ UNCHANGED <<status, rows, maker, sync, edits, failures>>

TaskReopened(t) ==
    /\ Edit
    /\ task[t].state = "closed"
    /\ task' = [task EXCEPT ![t].state = "reopened"]
    /\ UNCHANGED <<status, rows, maker, sync, failures>>

\* The bulk action: the rows go, their findings are open again, the task stays.
DeleteTicket(t) ==
    /\ Edit
    /\ t \in Deletable \cap TasksOf(Rows)
    /\ rows' = [rows EXCEPT ![t] = [f \in Findings |-> "none"]]
    /\ status' = [f \in Findings |->
          IF f \in Of(Rows, t) /\ status[f] \in {"IN_PROGRESS", "REMEDIATED"}
          THEN "OPEN" ELSE status[f]]
    /\ UNCHANGED <<task, maker, sync, failures>>

Next ==
    \/ \E c \in Makers : Make(c)
    \/ \E s \in Syncs : Sync(s)
    \/ \E f \in Findings : SetStatus(f)
    \/ \E t \in Tasks : TaskClosed(t) \/ TaskReopened(t) \/ DeleteTicket(t)

Spec == Init /\ [][Next]_vars

(***************************************************************************)
(* The scheduler starts a sync every day and a sync runs to its end.       *)
(* Failures are finite in number; nothing is assumed of makers or people.  *)
(***************************************************************************)
Fairness == \A s \in Dailies : WF_vars(ListTickets(s)) /\ WF_vars(Proceed(s))

FairSpec == Spec /\ Fairness

-----------------------------------------------------------------------------
(* Properties. *)

TypeOK ==
    /\ status \in [Findings -> Statuses]
    /\ task \in [Tasks -> [state : {"none", "open", "closed", "reopened"},
                           unit : Units \cup {NoUnit}]]
    /\ rows \in [Tasks -> [Findings -> {"none", "open", "resolved"}]]
    /\ maker \in [Makers -> [stage : {"idle", "next", "linking"},
                             rule : BOOLEAN, quota : 0..MaxTickets,
                             todo : SUBSET Units, unit : Units \cup {NoUnit},
                             targets : SUBSET Findings, fresh : SUBSET Findings,
                             task : Tasks \cup {None}, made : SUBSET (Tasks \X Findings),
                             begun : SUBSET Findings]]
    /\ sync \in [Syncs -> [stage : {"idle", "reading", "closing"},
                           list : SUBSET (Tasks \X Findings), todo : SUBSET Tasks,
                           done : SUBSET (Tasks \X Findings), fixed : SUBSET Findings,
                           got : BOOLEAN]]
    /\ edits \in Nat /\ failures \in Nat

\* create_tickets and create_host_ticket look for rows of a finding without a lock: it
\* gets no more of them than there are sessions that can open tasks at a time, whatever
\* was closed, reopened or deleted in between.
DuplicatesBounded ==
    \A f \in Findings :
        Cardinality({t \in Tickets(f) : task[t].unit.kind # "remediation"})
            =< Cardinality(Makers)

\* The daily job remediates a finding only on account of a task it is linked to and
\* that was completed, though it reads each task once and writes back much later.
RemediedForCause ==
    \A s \in Dailies : \A f \in sync[s].fixed :
        \E t \in Tasks : /\ <<t, f>> \in sync[s].done
                         /\ task[t].state \in {"closed", "reopened"}
                         /\ f \in task[t].unit.of

\* The daily job in one statement.
RemediesSound == TypeOK /\ RemediedForCause

\* A ticket waits for the sync: its task is completed or its findings are settled.
Due(t) ==
    /\ t \in TasksOf(OpenRows)
    /\ task[t].state = "closed" \/ Of(OpenRows, t) \cap Open = {}

\* No ticket stays due for good.
DueTicketsResolve == \A t \in Tasks : Due(t) ~> ~Due(t)

=============================================================================
