--------------------------- MODULE TicketingProofs ---------------------------
(***************************************************************************)
(* What Ticketing's runs check on small instances, for every number of     *)
(* findings, tasks, makers and syncs, every grouping of the findings into  *)
(* hosts and remediations, and whatever people edit.                       *)
(*                                                                         *)
(* The argument has two parts.  A task, once opened, is about one unit for *)
(* good, and every pair that a session holds or a row records lies within  *)
(* the unit of its task.  And a session holds at most one pair of a        *)
(* finding, which it takes up only when the finding has no row: so the     *)
(* rows and the sessions that still hold one never outnumber the makers.   *)
(***************************************************************************)
EXTENDS Ticketing, FiniteSetTheorems, TLAPS

TaskRec == [state : {"none", "open", "closed", "reopened"}, unit : Units \cup {NoUnit}]
MakerRec ==
    [stage : {"idle", "next", "linking"}, rule : BOOLEAN, quota : 0..MaxTickets,
     todo : SUBSET Units, unit : Units \cup {NoUnit},
     targets : SUBSET Findings, fresh : SUBSET Findings,
     task : Tasks \cup {None}, made : SUBSET (Tasks \X Findings), begun : SUBSET Findings]
SyncRec ==
    [stage : {"idle", "reading", "closing"}, list : SUBSET (Tasks \X Findings),
     todo : SUBSET Tasks, done : SUBSET (Tasks \X Findings), fixed : SUBSET Findings,
     got : BOOLEAN]

\* The pair lies within the unit of its task, when the tasks are T.
About(r, T) == T[r[1]].state # "none" /\ r[2] \in T[r[1]].unit.of

\* The tasks go from T to U: one that is there keeps its unit, and its past.
Grows(T, U) ==
    \A t \in Tasks : T[t].state # "none" =>
        /\ U[t].state # "none" /\ U[t].unit = T[t].unit
        /\ T[t].state \in {"closed", "reopened"} => U[t].state \in {"closed", "reopened"}

Linking(m, T) ==
    /\ m.task \in Tasks /\ T[m.task].state # "none" /\ T[m.task].unit = m.unit
    /\ m.targets \subseteq m.unit.of /\ m.unit \in m.todo
    /\ m.rule => m.quota > 0

\* No two units of a session share a finding, and none has one it already holds.
Apart(m) ==
    /\ \A u, v \in m.todo : u # v => u.of \cap v.of = {}
    /\ \A r \in m.made, u \in m.todo : r[2] \notin u.of
    /\ \A r, k \in m.made : r[2] = k[2] => r[1] = k[1]

MakerFits(m, T) ==
    /\ m \in MakerRec
    /\ \A r \in m.made : About(r, T)
    /\ m.stage = "linking" => Linking(m, T)
    /\ Apart(m)

Caused(q, T) ==
    \A f \in q.fixed : \E t \in Tasks :
        <<t, f>> \in q.done /\ T[t].state \in {"closed", "reopened"} /\ f \in T[t].unit.of

SyncFits(s, q, T) ==
    /\ q \in SyncRec
    /\ \A r \in q.list \cup q.done : About(r, T)
    /\ s \in Dailies => Caused(q, T)

\* The session holds, or is about to take, a row of f that is no remediation's.
Taking(m, f, T) ==
    \/ \E r \in m.made : r[2] = f /\ T[r[1]].unit.kind # "remediation"
    \/ m.stage = "linking" /\ m.unit.kind = "finding" /\ f \in m.unit.of

Takers(f) == {c \in Makers : Taking(maker[c], f, task)}
OwnTickets(f) == {t \in Tickets(f) : task[t].unit.kind # "remediation"}

TablesTyped ==
    /\ status \in [Findings -> Statuses]
    /\ task \in [Tasks -> TaskRec]
    /\ rows \in [Tasks -> [Findings -> {"none", "open", "resolved"}]]
    /\ edits \in Nat /\ failures \in Nat
MakersFit == maker \in [Makers -> MakerRec] /\ \A c \in Makers : MakerFits(maker[c], task)
SyncsFit == sync \in [Syncs -> SyncRec] /\ \A s \in Syncs : SyncFits(s, sync[s], task)
RowsFit == \A r \in Rows : About(r, task)
Balanced ==
    \A f \in Findings : Cardinality(OwnTickets(f)) + Cardinality(Takers(f)) =< Cardinality(Makers)

\* The inductive invariant.
TicketInv == TablesTyped /\ MakersFit /\ SyncsFit /\ RowsFit /\ Balanced

-----------------------------------------------------------------------------
(* The operators of the model *)

LEMMA UnitsTyped ==
    /\ FindingUnits \subseteq Units /\ HostUnits \subseteq Units /\ RemedyUnits \subseteq Units
    /\ \A u \in Units : u.kind \in {"finding", "host", "remediation"} /\ u.of \subseteq Findings
    /\ NoUnit.of = {} /\ NoUnit.kind = "none"
BY TicketingAssumption DEF Units, FindingUnits, HostUnits, RemedyUnits, NoUnit

\* The units of one request, or of one rule, share no finding.
LEMMA UnitsApart ==
    /\ \A u, v \in FindingUnits : u # v => u.of \cap v.of = {}
    /\ \A u, v \in HostUnits : u # v => u.of \cap v.of = {}
    /\ \A u, v \in RemedyUnits : u # v => u.of \cap v.of = {}
<1>1. ASSUME NEW u \in FindingUnits, NEW v \in FindingUnits, u # v PROVE u.of \cap v.of = {}
  BY <1>1 DEF FindingUnits
<1>2. ASSUME NEW u \in HostUnits, NEW v \in HostUnits, u # v PROVE u.of \cap v.of = {}
  <2>1. u.of \in Hosts /\ v.of \in Hosts /\ u.of # v.of
    BY <1>2 DEF HostUnits
  <2> QED BY <2>1, TicketingAssumption
<1>3. ASSUME NEW u \in RemedyUnits, NEW v \in RemedyUnits, u # v PROVE u.of \cap v.of = {}
  <2>1. u.of \in Remedies /\ v.of \in Remedies /\ u.of # v.of
    BY <1>3 DEF RemedyUnits
  <2> QED BY <2>1, TicketingAssumption
<1> QED BY <1>1, <1>2, <1>3

LEMMA IdleMakerFits == ASSUME NEW T PROVE MakerFits(IdleMaker, T) /\ IdleMaker \in MakerRec
<1>1. IdleMaker \in MakerRec
  BY TicketingAssumption DEF IdleMaker, MakerRec, NoUnit
<1> QED BY <1>1 DEF MakerFits, IdleMaker, Apart

LEMMA IdleSyncFits == ASSUME NEW s, NEW T PROVE SyncFits(s, IdleSync, T) /\ IdleSync \in SyncRec
<1>1. IdleSync \in SyncRec
  BY DEF IdleSync, SyncRec
<1> QED BY <1>1 DEF SyncFits, IdleSync, Caused

LEMMA RowsAre ==
    /\ Rows \subseteq Tasks \X Findings
    /\ \A t \in Tasks, f \in Findings : <<t, f>> \in Rows <=> rows[t][f] # "none"
    /\ OpenRows \subseteq Rows
    /\ Rows \in SUBSET (Tasks \X Findings) /\ IsFiniteSet(Rows) /\ Cardinality(Rows) \in Nat
<1>1. /\ Rows \subseteq Tasks \X Findings
      /\ \A t \in Tasks, f \in Findings : <<t, f>> \in Rows <=> rows[t][f] # "none"
      /\ OpenRows \subseteq Rows
  BY DEF Rows, OpenRows
<1>2. IsFiniteSet(Tasks \X Findings)
  BY FS_Product, TicketingAssumption
<1>3. IsFiniteSet(Rows)
  BY <1>1, <1>2, FS_Subset
<1> QED BY <1>1, <1>3, FS_CardinalityType

\* What Skipping leaves of a session.
LEMMA SkippingIs ==
    ASSUME NEW m \in MakerRec, NEW u
    PROVE  /\ Skipping(m, u) \in MakerRec
           /\ Skipping(m, u).stage = "next" /\ Skipping(m, u).todo = m.todo \ {u}
           /\ Skipping(m, u).made = m.made
BY DEF MakerRec, Skipping

LEMMA SkippingFits ==
    ASSUME NEW T, NEW m, MakerFits(m, T), NEW u
    PROVE  MakerFits(Skipping(m, u), T) /\ \A f : Taking(Skipping(m, u), f, T) => Taking(m, f, T)
<1>1. /\ Skipping(m, u) \in MakerRec
      /\ Skipping(m, u).stage = "next" /\ Skipping(m, u).todo = m.todo \ {u}
      /\ Skipping(m, u).made = m.made
  BY SkippingIs DEF MakerFits
<1> QED BY <1>1 DEF MakerFits, Apart, Taking

\* A session that raised holds no more than before.
LEMMA RaisedFits ==
    ASSUME NEW T, NEW m, MakerFits(m, T), NEW n \in Raised(m)
    PROVE  MakerFits(n, T) /\ \A f : Taking(n, f, T) => Taking(m, f, T)
<1>1. CASE n = IdleMaker
  BY <1>1, IdleMakerFits DEF Taking, IdleMaker
<1>2. CASE n = [Skipping(m, m.unit) EXCEPT !.todo = {}]
  <2>1. MakerFits(Skipping(m, m.unit), T) /\ \A f : Taking(Skipping(m, m.unit), f, T) => Taking(m, f, T)
    BY SkippingFits
  <2>2. /\ n \in MakerRec /\ n.todo = {} /\ n.made = Skipping(m, m.unit).made
        /\ n.stage = Skipping(m, m.unit).stage /\ n.unit = Skipping(m, m.unit).unit /\ n.stage = "next"
    <3>1. Skipping(m, m.unit) \in MakerRec /\ Skipping(m, m.unit).stage = "next"
      BY SkippingIs DEF MakerFits
    <3> HIDE DEF Skipping
    <3> QED BY <1>2, <3>1 DEF MakerRec
  <2> QED BY <2>1, <2>2 DEF MakerFits, Apart, Taking
<1> QED BY <1>1, <1>2 DEF Raised

LEMMA GrowthKeeps ==
    ASSUME NEW T, NEW U, Grows(T, U)
    PROVE  /\ \A r \in Tasks \X Findings : About(r, T) => About(r, U)
           /\ \A m : MakerFits(m, T) => MakerFits(m, U) /\ \A f : Taking(m, f, U) => Taking(m, f, T)
           /\ \A s, q : SyncFits(s, q, T) => SyncFits(s, q, U)
<1>1. ASSUME NEW r \in Tasks \X Findings, About(r, T) PROVE About(r, U)
  BY <1>1 DEF About, Grows
<1>2. ASSUME NEW m, MakerFits(m, T) PROVE MakerFits(m, U) /\ \A f : Taking(m, f, U) => Taking(m, f, T)
  <2>1. m.made \subseteq Tasks \X Findings
    BY <1>2 DEF MakerFits, MakerRec
  <2>2. \A r \in m.made : About(r, U) /\ U[r[1]].unit = T[r[1]].unit
    BY <1>1, <1>2, <2>1 DEF MakerFits, About, Grows
  <2>3. Linking(m, T) => Linking(m, U)
    BY DEF Linking, Grows
  <2> QED BY <1>2, <2>2, <2>3 DEF MakerFits, Taking
<1>3. ASSUME NEW s, NEW q, SyncFits(s, q, T) PROVE SyncFits(s, q, U)
  <2>1. q.list \cup q.done \subseteq Tasks \X Findings
    BY <1>3 DEF SyncFits, SyncRec
  <2>2. Caused(q, T) => Caused(q, U)
    <3> SUFFICES ASSUME Caused(q, T), NEW f \in q.fixed
                 PROVE  \E t \in Tasks : <<t, f>> \in q.done /\ U[t].state \in {"closed", "reopened"} /\ f \in U[t].unit.of
      BY DEF Caused
    <3>1. PICK t \in Tasks : <<t, f>> \in q.done /\ T[t].state \in {"closed", "reopened"} /\ f \in T[t].unit.of
      BY DEF Caused
    <3>2. U[t].state \in {"closed", "reopened"} /\ U[t].unit = T[t].unit
      BY <3>1 DEF Grows
    <3> QED BY <3>1, <3>2
  <2> QED BY <1>1, <1>3, <2>1, <2>2 DEF SyncFits
<1> QED BY <1>1, <1>2, <1>3

\* A balance is kept when both sides shrink, when no ticket is left, and when one
\* taker turns into one ticket.
LEMMA BalanceKept ==
    ASSUME NEW A \in SUBSET Tasks, NEW B \in SUBSET Tasks, NEW C \in SUBSET Makers, NEW D \in SUBSET Makers,
           Cardinality(A) + Cardinality(C) =< Cardinality(Makers),
           \/ B \subseteq A /\ D \subseteq C
           \/ B = {}
           \/ \E c \in C, t \in Tasks : D \subseteq C \ {c} /\ B \subseteq A \cup {t}
    PROVE  Cardinality(B) + Cardinality(D) =< Cardinality(Makers)
<1>1. /\ IsFiniteSet(A) /\ IsFiniteSet(B) /\ IsFiniteSet(C) /\ IsFiniteSet(D) /\ IsFiniteSet(Makers)
  BY FS_Subset, TicketingAssumption
<1>2. /\ Cardinality(A) \in Nat /\ Cardinality(B) \in Nat /\ Cardinality(C) \in Nat
      /\ Cardinality(D) \in Nat /\ Cardinality(Makers) \in Nat
  BY <1>1, FS_CardinalityType
<1>3. CASE B \subseteq A /\ D \subseteq C
  <2>1. Cardinality(B) =< Cardinality(A) /\ Cardinality(D) =< Cardinality(C)
    BY <1>1, <1>3, FS_Subset
  <2> QED BY <1>2, <2>1
<1>4. CASE B = {}
  <2>1. Cardinality(B) = 0 /\ Cardinality(D) =< Cardinality(Makers)
    BY <1>1, <1>4, FS_EmptySet, FS_Subset
  <2> QED BY <1>2, <2>1
<1>5. ASSUME NEW c \in C, NEW t \in Tasks, D \subseteq C \ {c}, B \subseteq A \cup {t}
      PROVE  Cardinality(B) + Cardinality(D) =< Cardinality(Makers)
  <2>1. IsFiniteSet(C \ {c}) /\ Cardinality(C \ {c}) = Cardinality(C) - 1
    BY <1>1, FS_RemoveElement
  <2>2. Cardinality(D) =< Cardinality(C) - 1
    BY <1>5, <2>1, FS_Subset
  <2>3. IsFiniteSet(A \cup {t}) /\ Cardinality(A \cup {t}) =< Cardinality(A) + 1
    <3>1. IsFiniteSet(A \cup {t}) /\ Cardinality(A \cup {t}) = IF t \in A THEN Cardinality(A) ELSE Cardinality(A) + 1
      BY <1>1, FS_AddElement
    <3> QED BY <1>2, <3>1
  <2>4. Cardinality(B) =< Cardinality(A) + 1
    <3>1. Cardinality(B) =< Cardinality(A \cup {t}) /\ Cardinality(A \cup {t}) \in Nat
      BY <1>5, <2>3, FS_Subset, FS_CardinalityType
    <3> QED BY <1>2, <2>3, <3>1
  <2> QED BY <1>2, <2>2, <2>4
<1> QED BY <1>3, <1>4, <1>5
-----------------------------------------------------------------------------
(* A step of one session, or of people *)

LEMMA TicketStart == Init => TicketInv
<1> SUFFICES ASSUME Init PROVE TicketInv
  OBVIOUS
<1>1. TablesTyped
  BY DEF Init, TablesTyped, Statuses, TaskRec
<1>2. MakersFit
  BY IdleMakerFits DEF Init, MakersFit
<1>3. SyncsFit
  BY IdleSyncFits DEF Init, SyncsFit
<1>4. Rows = {} /\ \A f \in Findings : Tickets(f) = {}
  BY DEF Init, Rows, Tickets
<1>5. ASSUME NEW f \in Findings PROVE Cardinality(OwnTickets(f)) + Cardinality(Takers(f)) =< Cardinality(Makers)
  <2>1. OwnTickets(f) = {}
    BY <1>4 DEF OwnTickets
  <2>2. Takers(f) = {}
    BY DEF Takers, Taking, Init, IdleMaker
  <2>3. Cardinality(OwnTickets(f)) = 0 /\ Cardinality(Takers(f)) = 0 /\ Cardinality(Makers) \in Nat
    BY <2>1, <2>2, FS_EmptySet, FS_CardinalityType, TicketingAssumption
  <2> QED BY <2>3
<1> QED BY <1>1, <1>2, <1>3, <1>4, <1>5 DEF TicketInv, RowsFit, Balanced

\* What a growth of the tasks leaves of the invariant, when no session and no row changes.
LEMMA GrowthIs ==
    ASSUME TicketInv, Grows(task, task')
    PROVE  /\ \A r \in Rows : About(r, task')
           /\ \A c \in Makers : /\ MakerFits(maker[c], task')
                                /\ \A f : Taking(maker[c], f, task') => Taking(maker[c], f, task)
           /\ \A s \in Syncs : SyncFits(s, sync[s], task')
           /\ \A t \in Tasks, f \in Findings : rows[t][f] # "none" => task'[t].unit = task[t].unit
<1>1. \A r \in Rows : About(r, task') /\ task'[r[1]].unit = task[r[1]].unit
  BY GrowthKeeps, RowsAre DEF TicketInv, RowsFit, About, Grows
<1>2. \A t \in Tasks, f \in Findings : rows[t][f] # "none" => task'[t].unit = task[t].unit
  BY <1>1, RowsAre
<1> QED BY <1>1, <1>2, GrowthKeeps DEF TicketInv, MakersFit, SyncsFit

\* A step of one maker that commits nothing: it takes up a finding only without rows.
LEMMA MakerStepKeeps ==
    ASSUME TicketInv, NEW c \in Makers, NEW m,
           maker' = [maker EXCEPT ![c] = m], UNCHANGED <<status, rows, sync, edits>>,
           task' \in [Tasks -> TaskRec], Grows(task, task'), failures' \in Nat,
           MakerFits(m, task'),
           \A f \in Findings : Taking(m, f, task') => Taking(maker[c], f, task) \/ Tickets(f) = {}
    PROVE  TicketInv'
<1>1. TablesTyped'
  BY DEF TicketInv, TablesTyped
<1>2. maker' \in [Makers -> MakerRec] /\ \A d \in Makers : maker'[d] = IF d = c THEN m ELSE maker[d]
  BY DEF TicketInv, MakersFit, MakerFits
<1>3. MakersFit'
  BY <1>2, GrowthIs DEF MakersFit
<1>4. Rows' = Rows
  BY DEF Rows
<1>5. SyncsFit' /\ RowsFit'
  BY <1>4, GrowthIs DEF SyncsFit, RowsFit, TicketInv
<1>6. ASSUME NEW f \in Findings
      PROVE  (Cardinality(OwnTickets(f)) + Cardinality(Takers(f)) =< Cardinality(Makers))'
  <2>1. Tickets(f)' = Tickets(f) /\ Tickets(f) \subseteq Tasks
    BY DEF Tickets
  <2>2. \A t \in Tickets(f) : task'[t].unit = task[t].unit
    BY GrowthIs DEF Tickets
  <2>3. OwnTickets(f)' = OwnTickets(f)
    BY <2>1, <2>2 DEF OwnTickets
  <2>4. \A d \in Makers : Taking(maker'[d], f, task') => Taking(maker[d], f, task) \/ Tickets(f) = {}
    BY <1>2, GrowthIs
  <2>5. OwnTickets(f)' = {} \/ Takers(f)' \subseteq Takers(f)
    BY <2>1, <2>3, <2>4 DEF Takers, OwnTickets
  <2>6. /\ OwnTickets(f) \in SUBSET Tasks /\ OwnTickets(f)' \in SUBSET Tasks
        /\ Takers(f) \in SUBSET Makers /\ Takers(f)' \in SUBSET Makers
    BY <2>1 DEF OwnTickets, Takers
  <2>7. Cardinality(OwnTickets(f)) + Cardinality(Takers(f)) =< Cardinality(Makers)
    BY DEF TicketInv, Balanced
  <2>8. Cardinality(OwnTickets(f)') + Cardinality(Takers(f)') =< Cardinality(Makers)
    BY <2>3, <2>5, <2>6, <2>7, BalanceKept
  <2> QED BY <2>8
<1> QED BY <1>1, <1>3, <1>5, <1>6 DEF TicketInv, Balanced

\* A step that moves no maker and adds no row.
LEMMA OtherStepKeeps ==
    ASSUME TicketInv, UNCHANGED maker, Grows(task, task'),
           TablesTyped', SyncsFit', Rows' \subseteq Rows
    PROVE  TicketInv'
<1>1. MakersFit'
  BY GrowthIs DEF MakersFit, TicketInv
<1>2. RowsFit'
  BY GrowthIs DEF RowsFit
<1>3. ASSUME NEW f \in Findings
      PROVE  (Cardinality(OwnTickets(f)) + Cardinality(Takers(f)) =< Cardinality(Makers))'
  <2>1. ASSUME NEW t \in Tasks, rows'[t][f] # "none" PROVE rows[t][f] # "none"
    <3>1. <<t, f>> \in Rows'
      BY <2>1 DEF Rows
    <3> QED BY <3>1 DEF Rows
  <2>2. OwnTickets(f)' \subseteq OwnTickets(f)
    BY <2>1, GrowthIs DEF OwnTickets, Tickets
  <2>3. Takers(f)' \subseteq Takers(f)
    BY GrowthIs DEF Takers
  <2>4. /\ OwnTickets(f) \in SUBSET Tasks /\ OwnTickets(f)' \in SUBSET Tasks
        /\ Takers(f) \in SUBSET Makers /\ Takers(f)' \in SUBSET Makers
    BY DEF OwnTickets, Tickets, Takers
  <2>5. Cardinality(OwnTickets(f)) + Cardinality(Takers(f)) =< Cardinality(Makers)
    BY DEF TicketInv, Balanced
  <2>6. Cardinality(OwnTickets(f)') + Cardinality(Takers(f)') =< Cardinality(Makers)
    BY <2>2, <2>3, <2>4, <2>5, BalanceKept
  <2> QED BY <2>6
<1> QED BY <1>1, <1>2, <1>3 DEF TicketInv, Balanced

\* A sync that writes nothing.
LEMMA SyncStepKeeps ==
    ASSUME TicketInv, NEW s \in Syncs, NEW q,
           sync' = [sync EXCEPT ![s] = q], UNCHANGED <<status, rows, maker, edits>>,
           task' \in [Tasks -> TaskRec], Grows(task, task'), failures' \in Nat,
           SyncFits(s, q, task')
    PROVE  TicketInv'
<1>1. TablesTyped'
  BY DEF TicketInv, TablesTyped
<1>2. sync' \in [Syncs -> SyncRec] /\ \A z \in Syncs : sync'[z] = IF z = s THEN q ELSE sync[z]
  BY DEF TicketInv, SyncsFit, SyncFits
<1>3. SyncsFit'
  BY <1>2, GrowthIs DEF SyncsFit
<1>4. Rows' = Rows
  BY DEF Rows
<1> QED BY <1>1, <1>3, <1>4, OtherStepKeeps

LEMMA SameTasksGrow == ASSUME TicketInv, task' = task PROVE Grows(task, task') /\ task' \in [Tasks -> TaskRec]
BY DEF Grows, TicketInv, TablesTyped

-----------------------------------------------------------------------------
(* Makers *)

LEMMA RequestKeeps == ASSUME TicketInv, NEW c \in Makers, Request(c) PROVE TicketInv'
<1>1. PICK units \in (SUBSET FindingUnits) \cup {{h} : h \in HostUnits} :
        maker' = [maker EXCEPT ![c] = [IdleMaker EXCEPT !.stage = "next", !.todo = units]]
  BY DEF Request
<1> DEFINE m == [IdleMaker EXCEPT !.stage = "next", !.todo = units]
<1>2. units \subseteq Units /\ \A u, v \in units : u # v => u.of \cap v.of = {}
  <2>1. CASE units \in SUBSET FindingUnits
    BY <2>1, UnitsTyped, UnitsApart
  <2>2. CASE units \in {{h} : h \in HostUnits}
    BY <2>2, UnitsTyped
  <2> QED BY <2>1, <2>2
<1>3. m \in MakerRec /\ m.stage = "next" /\ m.todo = units /\ m.made = {}
  BY <1>2, IdleMakerFits DEF IdleMaker, MakerRec
<1>4. MakerFits(m, task) /\ \A f : ~Taking(m, f, task)
  BY <1>2, <1>3 DEF MakerFits, Apart, Taking
<1>5. UNCHANGED <<status, task, rows, sync, edits, failures>> /\ failures' \in Nat
  BY DEF Request, TicketInv, TablesTyped
<1> HIDE DEF m
<1> QED BY <1>1, <1>4, <1>5, SameTasksGrow, MakerStepKeeps DEF m

LEMMA RunRuleKeeps == ASSUME TicketInv, NEW c \in Makers, RunRule(c) PROVE TicketInv'
<1>1. PICK units \in (SUBSET HostUnits) \cup (SUBSET RemedyUnits) :
        maker' = [maker EXCEPT ![c] =
                [IdleMaker EXCEPT !.stage = "next", !.rule = TRUE, !.todo = units,
                                  !.quota = MaxTickets - Cardinality(Rows)]]
  BY DEF RunRule
<1> DEFINE m == [IdleMaker EXCEPT !.stage = "next", !.rule = TRUE, !.todo = units,
                                  !.quota = MaxTickets - Cardinality(Rows)]
<1>2. units \subseteq Units /\ \A u, v \in units : u # v => u.of \cap v.of = {}
  BY UnitsTyped, UnitsApart
<1>3. MaxTickets - Cardinality(Rows) \in 0..MaxTickets
  BY RowsAre, TicketingAssumption DEF RunRule
<1>4. m \in MakerRec /\ m.stage = "next" /\ m.todo = units /\ m.made = {}
  BY <1>2, <1>3, IdleMakerFits DEF IdleMaker, MakerRec
<1>5. MakerFits(m, task) /\ \A f : ~Taking(m, f, task)
  BY <1>2, <1>4 DEF MakerFits, Apart, Taking
<1>6. UNCHANGED <<status, task, rows, sync, edits, failures>> /\ failures' \in Nat
  BY DEF RunRule, TicketInv, TablesTyped
<1> HIDE DEF m
<1> QED BY <1>1, <1>5, <1>6, SameTasksGrow, MakerStepKeeps DEF m

LEMMA SkipKeeps == ASSUME TicketInv, NEW c \in Makers, Skip(c) PROVE TicketInv'
<1>1. PICK u \in maker[c].todo : maker' = [maker EXCEPT ![c] = Skipping(maker[c], u)]
  BY DEF Skip, TicketInv, MakersFit
<1>2. /\ MakerFits(Skipping(maker[c], u), task)
      /\ \A f : Taking(Skipping(maker[c], u), f, task) => Taking(maker[c], f, task)
  BY SkippingFits DEF TicketInv, MakersFit
<1>3. UNCHANGED <<status, task, rows, sync, edits, failures>> /\ failures' \in Nat
  BY DEF Skip, TicketInv, TablesTyped
<1> QED BY <1>1, <1>2, <1>3, SameTasksGrow, MakerStepKeeps

\* A session that raises, or fails, without having opened a task.
LEMMA EndKeeps ==
    ASSUME TicketInv, NEW c \in Makers, maker' = [maker EXCEPT ![c] = IdleMaker],
           UNCHANGED <<status, task, rows, sync, edits>>, failures' \in Nat
    PROVE  TicketInv'
<1>1. MakerFits(IdleMaker, task) /\ \A f : ~Taking(IdleMaker, f, task)
  BY IdleMakerFits DEF Taking, IdleMaker
<1> QED BY <1>1, SameTasksGrow, MakerStepKeeps

\* A task that was free is opened.
LEMMA OpeningGrows ==
    ASSUME TicketInv, NEW c \in Makers, NEW t \in Tasks, NEW u \in Units, OpenTask(c, t, u)
    PROVE  /\ task' \in [Tasks -> TaskRec] /\ Grows(task, task')
           /\ task'[t] = [state |-> "open", unit |-> u]
<1>1. task \in [Tasks -> TaskRec]
  BY DEF TicketInv, TablesTyped
<1>2. task' = [task EXCEPT ![t] = [state |-> "open", unit |-> u]] /\ task[t].state = "none"
  BY DEF OpenTask
<1>3. [state |-> "open", unit |-> u] \in TaskRec
  BY DEF TaskRec
<1> QED BY <1>1, <1>2, <1>3 DEF Grows

LEMMA CreateKeeps == ASSUME TicketInv, NEW c \in Makers, Create(c) PROVE TicketInv'
<1>1. PICK t \in Tasks, u \in Units :
        /\ OpenTask(c, t, u)
        /\ maker' = [maker EXCEPT ![c] =
             [maker[c] EXCEPT !.stage = "linking", !.unit = u, !.task = t, !.targets = Targets(u),
                              !.fresh = {f \in Targets(u) : status[f] # "IN_PROGRESS"}]]
  BY DEF Create, TicketInv, MakersFit
<1>2. task' \in [Tasks -> TaskRec] /\ Grows(task, task') /\ task'[t] = [state |-> "open", unit |-> u]
  BY <1>1, OpeningGrows
<1>3. u \in maker[c].todo /\ ~Ticketed(u) /\ (maker[c].rule => maker[c].quota > 0)
  BY <1>1 DEF OpenTask, Going
<1>4. MakerFits(maker[c], task') /\ \A f : Taking(maker[c], f, task') => Taking(maker[c], f, task)
  BY <1>2, GrowthIs
<1> DEFINE fresh == {f \in Targets(u) : status[f] # "IN_PROGRESS"}
<1>5. Targets(u) \subseteq u.of /\ u.of \subseteq Findings /\ fresh \subseteq Findings
  BY UnitsTyped DEF Targets
<1> DEFINE m == [maker[c] EXCEPT !.stage = "linking", !.unit = u, !.task = t, !.targets = Targets(u), !.fresh = fresh]
<1>6. /\ m \in MakerRec /\ m.stage = "linking" /\ m.unit = u /\ m.task = t /\ m.targets = Targets(u)
      /\ m.todo = maker[c].todo /\ m.made = maker[c].made /\ m.rule = maker[c].rule /\ m.quota = maker[c].quota
  <2>1. maker[c] \in MakerRec /\ Targets(u) \in SUBSET Findings /\ fresh \in SUBSET Findings
    BY <1>4, <1>5 DEF MakerFits
  <2> HIDE DEF fresh
  <2> QED BY <2>1 DEF MakerRec
<1> HIDE DEF m, fresh
<1>7. Linking(m, task')
  BY <1>2, <1>3, <1>5, <1>6 DEF Linking
<1>8. MakerFits(m, task')
  BY <1>4, <1>6, <1>7 DEF MakerFits, Apart
<1>9. ASSUME NEW f \in Findings, Taking(m, f, task') PROVE Taking(maker[c], f, task) \/ Tickets(f) = {}
  <2>1. CASE u.kind = "finding" /\ f \in u.of
    BY <1>3, <2>1 DEF Ticketed
  <2>2. CASE ~(u.kind = "finding" /\ f \in u.of)
    BY <1>4, <1>6, <1>9, <2>2 DEF Taking
  <2> QED BY <2>1, <2>2
<1>10. UNCHANGED <<status, rows, sync, edits, failures>> /\ failures' \in Nat
  BY DEF Create, TicketInv, TablesTyped
<1> QED BY <1>1, <1>2, <1>8, <1>9, <1>10, MakerStepKeeps DEF m, fresh

LEMMA CreateLostKeeps == ASSUME TicketInv, NEW c \in Makers, CreateLost(c) PROVE TicketInv'
<1>1. PICK t \in Tasks, u \in Units : OpenTask(c, t, u)
  BY DEF CreateLost
<1>2. task' \in [Tasks -> TaskRec] /\ Grows(task, task')
  BY <1>1, OpeningGrows
<1>3. PICK m \in Raised(maker[c]) : maker' = [maker EXCEPT ![c] = m]
  BY DEF CreateLost
<1>4. MakerFits(maker[c], task') /\ \A f : Taking(maker[c], f, task') => Taking(maker[c], f, task)
  BY <1>2, GrowthIs
<1>5. MakerFits(m, task') /\ \A f : Taking(m, f, task') => Taking(maker[c], f, task)
  BY <1>4, RaisedFits
<1>6. UNCHANGED <<status, rows, sync, edits>> /\ failures' \in Nat
  BY DEF CreateLost, Fail, TicketInv, TablesTyped
<1> QED BY <1>2, <1>3, <1>5, <1>6, MakerStepKeeps

\* A session takes up rows of its task for some of its targets, and leaves the unit.
LEMMA TakenUpKeeps ==
    ASSUME TicketInv, NEW c \in Makers, maker[c].stage = "linking", NEW F \in SUBSET Linkable(maker[c]),
           NEW x \in MakerRec, x.stage = "next", x.todo \subseteq maker[c].todo \ {maker[c].unit},
           x.made = maker[c].made \cup ({maker[c].task} \X F),
           maker' = [maker EXCEPT ![c] = x], UNCHANGED <<status, task, rows, sync, edits, failures>>
    PROVE  TicketInv'
<1> DEFINE m == maker[c]
<1>1. m \in MakerRec /\ Linking(m, task) /\ Apart(m) /\ \A r \in m.made : About(r, task)
  BY DEF TicketInv, MakersFit, MakerFits
<1>2. F \subseteq m.targets /\ F \subseteq m.unit.of /\ \A f \in F : m.unit.kind = "host" => Tickets(f) = {}
  <2>1. F \subseteq m.targets /\ \A f \in F : m.unit.kind = "host" => Tickets(f) = {}
    BY DEF Linkable
  <2> QED BY <1>1, <2>1 DEF Linking
<1>3. \A r \in {m.task} \X F : r[1] = m.task /\ r[2] \in F
  OBVIOUS
<1>4. \A r \in x.made : r \in m.made \/ (r[1] = m.task /\ r[2] \in F)
  BY <1>3
<1>5. \A r \in x.made : About(r, task)
  BY <1>1, <1>2, <1>4 DEF About, Linking
<1>6. Apart(x)
  <2>1. \A r \in m.made : r[2] \notin m.unit.of
    BY <1>1 DEF Apart, Linking
  <2>2. \A u \in x.todo : u \in m.todo /\ u.of \cap m.unit.of = {}
    BY <1>1 DEF Apart, Linking
  <2>3. \A r \in x.made, u \in x.todo : r[2] \notin u.of
    BY <1>1, <1>2, <1>4, <2>2 DEF Apart
  <2>4. \A r, k \in x.made : r[2] = k[2] => r[1] = k[1]
    BY <1>1, <1>2, <1>4, <2>1 DEF Apart
  <2>5. \A u, v \in x.todo : u # v => u.of \cap v.of = {}
    BY <1>1, <2>2 DEF Apart
  <2> QED BY <2>3, <2>4, <2>5 DEF Apart
<1>7. MakerFits(x, task)
  BY <1>5, <1>6 DEF MakerFits
<1>8. ASSUME NEW f \in Findings, Taking(x, f, task) PROVE Taking(m, f, task) \/ Tickets(f) = {}
  <2>1. PICK r \in x.made : r[2] = f /\ task[r[1]].unit.kind # "remediation"
    BY <1>8 DEF Taking
  <2>2. CASE r \in m.made
    BY <2>1, <2>2 DEF Taking
  <2>3. CASE r[1] = m.task /\ r[2] \in F
    <3>1. m.unit.kind \in {"finding", "host"} /\ f \in F /\ f \in m.unit.of
      <4>1. m.unit \in Units /\ task[m.task].unit = m.unit
        BY <1>1 DEF Linking, MakerRec
      <4> QED BY <1>2, <2>1, <2>3, <4>1, UnitsTyped
    <3>2. CASE m.unit.kind = "finding"
      BY <3>1, <3>2 DEF Taking
    <3>3. CASE m.unit.kind = "host"
      BY <1>2, <3>1, <3>3
    <3> QED BY <3>1, <3>2, <3>3
  <2> QED BY <1>4, <2>2, <2>3
<1>9. failures' \in Nat /\ UNCHANGED <<status, rows, sync, edits>> /\ task' = task
  BY DEF TicketInv, TablesTyped
<1>10. Grows(task, task') /\ task' \in [Tasks -> TaskRec]
  BY <1>9, SameTasksGrow
<1>11. /\ MakerFits(x, task')
       /\ \A f \in Findings : Taking(x, f, task') => Taking(maker[c], f, task) \/ Tickets(f) = {}
  BY <1>7, <1>8, <1>9
<1> QED BY <1>9, <1>10, <1>11, MakerStepKeeps

LEMMA LinkedIs ==
    ASSUME TicketInv, NEW c \in Makers, maker[c].stage = "linking", NEW F \in SUBSET Linkable(maker[c])
    PROVE  LET n == Linked(maker[c], F) IN
           /\ n \in MakerRec /\ n.made = maker[c].made \cup ({maker[c].task} \X F)
           /\ n.todo = maker[c].todo /\ n.unit = maker[c].unit /\ n.rule = maker[c].rule
           /\ n.quota = maker[c].quota /\ n.stage = maker[c].stage
<1>1. maker[c] \in MakerRec /\ Linking(maker[c], task)
  BY DEF TicketInv, MakersFit, MakerFits
<1>2. F \subseteq Findings /\ F \subseteq maker[c].targets
  BY <1>1 DEF Linkable, MakerRec
<1> DEFINE pairs == {maker[c].task} \X F
           extra == F \cap maker[c].fresh
<1>3. pairs \subseteq Tasks \X Findings /\ extra \subseteq Findings
  BY <1>1, <1>2 DEF Linking
<1>4. Linked(maker[c], F) = [maker[c] EXCEPT !.made = maker[c].made \cup pairs, !.begun = maker[c].begun \cup extra]
  BY <1>1 DEF Linked, MakerRec
<1> HIDE DEF pairs, extra
<1>5. [maker[c] EXCEPT !.made = maker[c].made \cup pairs, !.begun = maker[c].begun \cup extra] \in MakerRec
  BY <1>1, <1>3 DEF MakerRec
<1>6. Linked(maker[c], F).made = maker[c].made \cup pairs
  BY <1>1, <1>4 DEF MakerRec
<1> QED BY <1>1, <1>4, <1>5, <1>6 DEF pairs, MakerRec

LEMMA LinkKeeps == ASSUME TicketInv, NEW c \in Makers, Link(c) PROVE TicketInv'
<1> DEFINE m == maker[c]
           F == Linkable(m)
           n == Linked(m, F)
           x == Skipping(Counted(n), m.unit)
<1>1. maker' = [maker EXCEPT ![c] = x] /\ m.stage = "linking"
  BY DEF Link
<1>2. /\ n \in MakerRec /\ n.made = m.made \cup ({m.task} \X F)
      /\ n.todo = m.todo /\ n.unit = m.unit /\ n.rule = m.rule /\ n.quota = m.quota
  BY <1>1, LinkedIs
<1>3. Counted(n) \in MakerRec /\ Counted(n).made = n.made /\ Counted(n).todo = n.todo
  <2>1. n.rule => n.quota - 1 \in 0..MaxTickets
    <3>1. m.rule => m.quota > 0
      BY <1>1 DEF TicketInv, MakersFit, MakerFits, Linking
    <3>2. n.quota \in 0..MaxTickets
      BY <1>2 DEF MakerRec
    <3> QED BY <1>2, <3>1, <3>2, TicketingAssumption
  <2>2. (IF n.rule THEN n.quota - 1 ELSE 0) \in 0..MaxTickets
    BY <2>1, TicketingAssumption
  <2> HIDE DEF n
  <2>3. Counted(n) = [n EXCEPT !.quota = IF n.rule THEN n.quota - 1 ELSE 0]
    BY <1>2 DEF Counted, MakerRec
  <2> QED BY <1>2, <2>2, <2>3 DEF MakerRec
<1>4. x \in MakerRec /\ x.stage = "next" /\ x.todo = m.todo \ {m.unit} /\ x.made = m.made \cup ({m.task} \X F)
  BY <1>2, <1>3, SkippingIs
<1>5. UNCHANGED <<status, task, rows, sync, edits, failures>>
  BY DEF Link
<1> HIDE DEF x
<1> QED BY <1>1, <1>4, <1>5, TakenUpKeeps

LEMMA RaiseInLinkKeeps == ASSUME TicketInv, NEW c \in Makers, RaiseInLink(c) PROVE TicketInv'
<1> DEFINE m == maker[c]
<1>1. /\ m.stage = "linking" /\ UNCHANGED <<status, task, rows, sync, edits, failures>>
      /\ failures' \in Nat
  BY DEF RaiseInLink, TicketInv, TablesTyped
<1>2. PICK F \in SUBSET Linkable(m) : \E n \in Raised(Linked(m, F)) : maker' = [maker EXCEPT ![c] = n]
  BY DEF RaiseInLink
<1>3. PICK n \in Raised(Linked(m, F)) : maker' = [maker EXCEPT ![c] = n]
  BY <1>2
<1>4. CASE n = IdleMaker
  BY <1>1, <1>3, <1>4, EndKeeps
<1>5. CASE n # IdleMaker
  <2> DEFINE q == Linked(m, F)
  <2>1. q \in MakerRec /\ q.made = m.made \cup ({m.task} \X F) /\ q.unit = m.unit
    BY <1>1, LinkedIs
  <2>2. n = [Skipping(q, q.unit) EXCEPT !.todo = {}]
    BY <1>3, <1>5 DEF Raised
  <2>3. /\ Skipping(q, q.unit) \in MakerRec /\ Skipping(q, q.unit).stage = "next"
        /\ Skipping(q, q.unit).made = q.made
    BY <2>1, SkippingIs
  <2>4. n \in MakerRec /\ n.stage = "next" /\ n.todo = {} /\ n.made = m.made \cup ({m.task} \X F)
    <3> HIDE DEF q
    <3> QED BY <2>1, <2>2, <2>3 DEF MakerRec
  <2> QED BY <1>1, <1>3, <2>4, TakenUpKeeps
<1> QED BY <1>4, <1>5

\* The rows of a session are there at once; the session holds them no more.
LEMMA CommitKeeps == ASSUME TicketInv, NEW c \in Makers, Commit(c) PROVE TicketInv'
<1> DEFINE m == maker[c]
<1>1. /\ m.stage = "next" /\ maker' = [maker EXCEPT ![c] = IdleMaker]
      /\ rows' = [t \in Tasks |-> [f \in Findings |-> IF <<t, f>> \in m.made THEN "open" ELSE rows[t][f]]]
      /\ status' = [f \in Findings |-> IF f \in m.begun THEN "IN_PROGRESS" ELSE status[f]]
      /\ UNCHANGED <<task, sync, edits, failures>>
  BY DEF Commit
<1>2. m \in MakerRec /\ Apart(m) /\ \A r \in m.made : About(r, task)
  BY DEF TicketInv, MakersFit, MakerFits
<1>3. TablesTyped'
  <2>1. status' \in [Findings -> Statuses]
    BY <1>1 DEF TicketInv, TablesTyped, Statuses
  <2>2. rows' \in [Tasks -> [Findings -> {"none", "open", "resolved"}]]
    BY <1>1 DEF TicketInv, TablesTyped
  <2> QED BY <1>1, <2>1, <2>2 DEF TicketInv, TablesTyped
<1>4. maker' \in [Makers -> MakerRec] /\ \A d \in Makers : maker'[d] = IF d = c THEN IdleMaker ELSE maker[d]
  BY <1>1, IdleMakerFits DEF TicketInv, MakersFit
<1>5. MakersFit'
  BY <1>1, <1>4, IdleMakerFits DEF TicketInv, MakersFit
<1>6. SyncsFit'
  BY <1>1 DEF TicketInv, SyncsFit
<1>7. \A t \in Tasks, f \in Findings : rows'[t][f] # "none" <=> <<t, f>> \in m.made \/ rows[t][f] # "none"
  BY <1>1
<1>8. RowsFit'
  <2>1. \A r \in Rows' : r \in m.made \/ r \in Rows
    BY <1>7 DEF Rows
  <2> QED BY <1>1, <1>2, <2>1 DEF TicketInv, RowsFit
<1>9. ASSUME NEW f \in Findings
      PROVE  (Cardinality(OwnTickets(f)) + Cardinality(Takers(f)) =< Cardinality(Makers))'
  <2> DEFINE A == OwnTickets(f)
             B == {t \in Tasks : rows'[t][f] # "none" /\ task[t].unit.kind # "remediation"}
             C == Takers(f)
             D == {d \in Makers : Taking(maker'[d], f, task)}
  <2>1. OwnTickets(f)' = B /\ Takers(f)' = D
    BY <1>1 DEF OwnTickets, Tickets, Takers
  <2>2. A = {t \in Tasks : rows[t][f] # "none" /\ task[t].unit.kind # "remediation"}
    BY DEF OwnTickets, Tickets
  <2>3. ~Taking(IdleMaker, f, task)
    BY DEF Taking, IdleMaker
  <2>4. D \subseteq C \ {c}
    BY <1>4, <2>3 DEF Takers
  <2>5. A \in SUBSET Tasks /\ B \in SUBSET Tasks /\ C \in SUBSET Makers /\ D \in SUBSET Makers
    BY DEF OwnTickets, Tickets, Takers
  <2>6. Cardinality(A) + Cardinality(C) =< Cardinality(Makers)
    BY DEF TicketInv, Balanced
  <2>7. (B \subseteq A /\ D \subseteq C) \/ (\E d \in C, t \in Tasks : D \subseteq C \ {d} /\ B \subseteq A \cup {t})
    <3>1. CASE \E r \in m.made : r[2] = f /\ task[r[1]].unit.kind # "remediation"
      <4>1. PICK r \in m.made : r[2] = f /\ task[r[1]].unit.kind # "remediation"
        BY <3>1
      <4>2. c \in C
        BY <4>1 DEF Takers, Taking
      <4>3. r[1] \in Tasks
        BY <1>2 DEF MakerRec
      <4>4. \A t \in Tasks : <<t, f>> \in m.made => t = r[1]
        BY <1>2, <4>1 DEF Apart
      <4>5. B \subseteq A \cup {r[1]}
        BY <1>7, <2>2, <4>4
      <4> QED BY <2>4, <4>2, <4>3, <4>5
    <3>2. CASE ~ \E r \in m.made : r[2] = f /\ task[r[1]].unit.kind # "remediation"
      <4>1. B \subseteq A
        BY <1>7, <2>2, <3>2
      <4> QED BY <2>4, <4>1
    <3> QED BY <3>1, <3>2
  <2> HIDE DEF A, B, C, D
  <2>8. Cardinality(B) + Cardinality(D) =< Cardinality(Makers)
    BY <2>5, <2>6, <2>7, BalanceKept
  <2> QED BY <2>1, <2>8
<1> QED BY <1>3, <1>5, <1>6, <1>8, <1>9 DEF TicketInv, Balanced

LEMMA MakeKeeps == ASSUME TicketInv, NEW c \in Makers, Make(c) PROVE TicketInv'
<1>1. CASE RaiseInCheck(c)
  BY <1>1, EndKeeps DEF RaiseInCheck, TicketInv, TablesTyped
<1>2. CASE MakerFails(c)
  <2>1. failures' \in Nat
    BY <1>2 DEF MakerFails, Fail, TicketInv, TablesTyped
  <2>2. maker' = [maker EXCEPT ![c] = IdleMaker] /\ UNCHANGED <<status, task, rows, sync, edits>>
    BY <1>2 DEF MakerFails
  <2> QED BY <2>1, <2>2, EndKeeps
<1> QED BY <1>1, <1>2, RequestKeeps, RunRuleKeeps, SkipKeeps, CreateKeeps, CreateLostKeeps, LinkKeeps,
           RaiseInLinkKeeps, CommitKeeps DEF Make

-----------------------------------------------------------------------------
(* Syncs *)

LEMMA ListKeeps == ASSUME TicketInv, NEW s \in Syncs, ListTickets(s) PROVE TicketInv'
<1> DEFINE q == [IdleSync EXCEPT !.stage = "reading", !.list = OpenRows, !.todo = TasksOf(OpenRows)]
<1>1. sync' = [sync EXCEPT ![s] = q] /\ UNCHANGED <<status, task, rows, maker, edits, failures>>
  BY DEF ListTickets
<1>2. OpenRows \subseteq Tasks \X Findings /\ OpenRows \subseteq Rows /\ TasksOf(OpenRows) \subseteq Tasks
  BY RowsAre DEF TasksOf
<1>3. q \in SyncRec /\ q.list = OpenRows /\ q.done = {} /\ q.fixed = {}
  BY <1>2, IdleSyncFits DEF IdleSync, SyncRec
<1>4. SyncFits(s, q, task)
  BY <1>2, <1>3 DEF SyncFits, Caused, TicketInv, RowsFit
<1>5. failures' \in Nat
  BY <1>1 DEF TicketInv, TablesTyped
<1> HIDE DEF q
<1> QED BY <1>1, <1>4, <1>5, SameTasksGrow, SyncStepKeeps

LEMMA ReadTaskKeeps == ASSUME TicketInv, NEW s \in Syncs, ReadTask(s) PROVE TicketInv'
<1> DEFINE o == sync[s]
<1>1. o \in SyncRec /\ SyncFits(s, o, task)
  BY DEF TicketInv, SyncsFit
<1>2. PICK t \in o.todo :
        LET mine == {r \in o.list : r[1] = t}
            q == [o EXCEPT !.todo = o.todo \ {t}, !.got = TRUE]
        IN  sync' = [sync EXCEPT ![s] =
               IF task[t].state = "closed"
               THEN [q EXCEPT !.done = q.done \cup mine, !.fixed = q.fixed \cup (Of(mine, t) \ Kept(s))]
               ELSE q]
  BY DEF ReadTask
<1> DEFINE mine == {r \in o.list : r[1] = t}
           more == Of(mine, t) \ Kept(s)
           q == [o EXCEPT !.todo = o.todo \ {t}, !.got = TRUE]
           w == [q EXCEPT !.done = q.done \cup mine, !.fixed = q.fixed \cup more]
<1>3. /\ q \in SyncRec /\ q.list = o.list /\ q.done = o.done /\ q.fixed = o.fixed
  BY <1>1 DEF SyncRec
<1>4. mine \subseteq o.list /\ mine \subseteq Tasks \X Findings /\ more \subseteq Findings /\ t \in Tasks
  BY <1>1 DEF SyncRec, Of
<1>5. \A f \in more : <<t, f>> \in mine
  BY DEF Of
<1>6. SyncFits(s, q, task)
  BY <1>1, <1>3 DEF SyncFits, Caused
<1>7. /\ w \in SyncRec /\ w.list = o.list /\ w.done = o.done \cup mine /\ w.fixed = o.fixed \cup more
  <2> HIDE DEF q, mine, more
  <2> QED BY <1>3, <1>4, <1>1 DEF SyncRec
<1>8. ASSUME task[t].state = "closed" PROVE SyncFits(s, w, task)
  <2>1. \A r \in w.list \cup w.done : About(r, task)
    BY <1>1, <1>4, <1>7 DEF SyncFits
  <2>2. ASSUME s \in Dailies, NEW f \in w.fixed
        PROVE  \E z \in Tasks : <<z, f>> \in w.done /\ task[z].state \in {"closed", "reopened"} /\ f \in task[z].unit.of
    <3>1. CASE f \in o.fixed
      BY <1>1, <1>7, <2>2, <3>1 DEF SyncFits, Caused
    <3>2. CASE f \in more
      <4>1. <<t, f>> \in w.done
        BY <1>5, <1>7, <3>2
      <4>2. f \in task[t].unit.of
        BY <2>1, <4>1 DEF About
      <4> QED BY <1>4, <1>8, <4>1, <4>2
    <3> QED BY <1>7, <2>2, <3>1, <3>2
  <2> QED BY <1>7, <2>1, <2>2 DEF SyncFits, Caused
<1>9. UNCHANGED <<status, task, rows, maker, edits, failures>> /\ failures' \in Nat
  BY DEF ReadTask, TicketInv, TablesTyped
<1>10. CASE task[t].state = "closed"
  <2>1. sync' = [sync EXCEPT ![s] = w]
    BY <1>2, <1>10
  <2> HIDE DEF w
  <2> QED BY <1>8, <1>9, <1>10, <2>1, SameTasksGrow, SyncStepKeeps
<1>11. CASE task[t].state # "closed"
  <2>1. sync' = [sync EXCEPT ![s] = q]
    BY <1>2, <1>11
  <2> HIDE DEF q
  <2> QED BY <1>6, <1>9, <2>1, SameTasksGrow, SyncStepKeeps
<1> QED BY <1>10, <1>11

\* A session of which only the stage and the tasks ahead change.
LEMMA SameHoldings ==
    ASSUME NEW s, NEW T, NEW o, NEW q \in SyncRec, SyncFits(s, o, T),
           q.list = o.list, q.done = o.done, q.fixed = o.fixed
    PROVE  SyncFits(s, q, T)
BY DEF SyncFits, Caused

LEMMA ReadFailsKeeps == ASSUME TicketInv, NEW s \in Syncs, ReadFails(s) PROVE TicketInv'
<1> DEFINE o == sync[s]
<1>1. o \in SyncRec /\ SyncFits(s, o, task)
  BY DEF TicketInv, SyncsFit
<1>2. PICK t \in o.todo : sync' = [sync EXCEPT ![s].todo = @ \ {t}]
  BY DEF ReadFails
<1> DEFINE q == [o EXCEPT !.todo = o.todo \ {t}]
<1>3. q \in SyncRec /\ q.list = o.list /\ q.done = o.done /\ q.fixed = o.fixed
  BY <1>1 DEF SyncRec
<1>4. sync' = [sync EXCEPT ![s] = q]
  BY <1>2 DEF TicketInv, SyncsFit
<1>5. UNCHANGED <<status, task, rows, maker, edits>> /\ failures' \in Nat
  BY DEF ReadFails, Fail, TicketInv, TablesTyped
<1> HIDE DEF q
<1>6. SyncFits(s, q, task)
  BY <1>1, <1>3, SameHoldings
<1> QED BY <1>4, <1>5, <1>6, SameTasksGrow, SyncStepKeeps

LEMMA SecondPassKeeps == ASSUME TicketInv, NEW s \in Syncs, SecondPass(s) PROVE TicketInv'
<1> DEFINE o == sync[s]
           left == TasksOf(o.list \ o.done)
           q == [o EXCEPT !.stage = "closing", !.todo = left]
<1>1. o \in SyncRec /\ SyncFits(s, o, task)
  BY DEF TicketInv, SyncsFit
<1>2. left \subseteq Tasks
  BY <1>1 DEF SyncRec, TasksOf
<1>3. q \in SyncRec /\ q.list = o.list /\ q.done = o.done /\ q.fixed = o.fixed
  <2> HIDE DEF left
  <2> QED BY <1>1, <1>2 DEF SyncRec
<1>4. sync' = [sync EXCEPT ![s] = q] /\ UNCHANGED <<status, task, rows, maker, edits, failures>>
  BY DEF SecondPass, TicketInv, SyncsFit
<1>5. failures' \in Nat
  BY <1>4 DEF TicketInv, TablesTyped
<1> HIDE DEF q
<1>6. SyncFits(s, q, task)
  BY <1>1, <1>3, SameHoldings
<1> QED BY <1>4, <1>5, <1>6, SameTasksGrow, SyncStepKeeps

\* What a completed task, or a failed call, does to the tasks.
LEMMA CompletedIs ==
    ASSUME TicketInv, NEW t \in Tasks, Completed(t)
    PROVE  task' \in [Tasks -> TaskRec] /\ Grows(task, task') /\ failures' \in Nat
<1>1. task \in [Tasks -> TaskRec] /\ failures \in Nat
  BY DEF TicketInv, TablesTyped
<1>2. CASE task' = [task EXCEPT ![t].state = IF @ = "none" THEN @ ELSE "closed"] /\ UNCHANGED failures
  <2> DEFINE x == [task[t] EXCEPT !.state = IF task[t].state = "none" THEN task[t].state ELSE "closed"]
  <2>1. /\ x \in TaskRec /\ x.unit = task[t].unit
        /\ task[t].state # "none" => x.state = "closed"
    BY <1>1 DEF TaskRec
  <2>2. task' = [task EXCEPT ![t] = x]
    BY <1>1, <1>2
  <2> HIDE DEF x
  <2> QED BY <1>1, <1>2, <2>1, <2>2 DEF Grows
<1>3. CASE Fail /\ UNCHANGED task
  BY <1>1, <1>3, SameTasksGrow DEF Fail
<1> QED BY <1>2, <1>3 DEF Completed

LEMMA AutoCloseKeeps == ASSUME TicketInv, NEW s \in Syncs, AutoClose(s) PROVE TicketInv'
<1> DEFINE o == sync[s]
<1>1. o \in SyncRec /\ SyncFits(s, o, task)
  BY DEF TicketInv, SyncsFit
<1>2. PICK t \in o.todo :
        LET q == [o EXCEPT !.todo = o.todo \ {t}] IN
        IF StillOpen(s, t) = {}
        THEN /\ Completed(t)
             /\ sync' = [sync EXCEPT ![s] = [q EXCEPT !.done = q.done \cup {r \in q.list : r[1] = t}]]
        ELSE /\ sync' = [sync EXCEPT ![s] = q]
             /\ UNCHANGED <<task, failures>>
  BY DEF AutoClose
<1> DEFINE q == [o EXCEPT !.todo = o.todo \ {t}]
           mine == {r \in q.list : r[1] = t}
           w == [q EXCEPT !.done = q.done \cup mine]
<1>3. t \in Tasks /\ q \in SyncRec /\ q.list = o.list /\ q.done = o.done /\ q.fixed = o.fixed
  BY <1>1 DEF SyncRec
<1>4. SyncFits(s, q, task)
  BY <1>1, <1>3, SameHoldings
<1>5. w \in SyncRec /\ w.list = o.list /\ w.done = o.done \cup mine /\ w.fixed = o.fixed
  <2>1. mine \subseteq q.list
    OBVIOUS
  <2> HIDE DEF q, mine
  <2> QED BY <1>3, <2>1 DEF SyncRec
<1>6. mine \subseteq o.list
  BY <1>3
<1> HIDE DEF mine
<1>7. SyncFits(s, w, task)
  <2>1. \A r \in w.list \cup w.done : About(r, task)
    BY <1>1, <1>5, <1>6 DEF SyncFits
  <2>2. s \in Dailies => Caused(w, task)
    BY <1>1, <1>5 DEF SyncFits, Caused
  <2> QED BY <1>5, <2>1, <2>2 DEF SyncFits
<1>8. UNCHANGED <<status, rows, maker, edits>>
  BY DEF AutoClose
<1>9. CASE StillOpen(s, t) = {}
  <2>1. Completed(t) /\ sync' = [sync EXCEPT ![s] = w]
    BY <1>2, <1>9 DEF mine
  <2>2. task' \in [Tasks -> TaskRec] /\ Grows(task, task') /\ failures' \in Nat
    BY <1>3, <2>1, CompletedIs
  <2>3. SyncFits(s, w, task')
    BY <1>7, <2>2, GrowthKeeps
  <2> HIDE DEF w
  <2> QED BY <1>8, <2>1, <2>2, <2>3, SyncStepKeeps
<1>10. CASE StillOpen(s, t) # {}
  <2>1. sync' = [sync EXCEPT ![s] = q] /\ UNCHANGED <<task, failures>>
    BY <1>2, <1>10
  <2>2. failures' \in Nat
    BY <2>1 DEF TicketInv, TablesTyped
  <2> HIDE DEF q
  <2> QED BY <1>4, <1>8, <2>1, <2>2, SameTasksGrow, SyncStepKeeps
<1> QED BY <1>9, <1>10

LEMMA CloseTicketKeeps == ASSUME TicketInv, NEW s \in Syncs, CloseTicket(s) PROVE TicketInv'
<1>1. PICK t \in TasksOf(Rows) :
        LET mine == {r \in Rows : r[1] = t} IN
        /\ Completed(t)
        /\ sync' = [sync EXCEPT ![s] = [IdleSync EXCEPT
              !.stage = "closing", !.list = mine, !.done = mine, !.got = TRUE,
              !.fixed = {f \in Of(mine, t) : status[f] \notin {"REMEDIATED", "SUPPRESSED"}}]]
  BY DEF CloseTicket
<1> DEFINE mine == {r \in Rows : r[1] = t}
           more == {f \in Of(mine, t) : status[f] \notin {"REMEDIATED", "SUPPRESSED"}}
           q == [IdleSync EXCEPT !.stage = "closing", !.list = mine, !.done = mine, !.got = TRUE, !.fixed = more]
<1>2. mine \subseteq Rows /\ mine \subseteq Tasks \X Findings /\ more \subseteq Findings /\ t \in Tasks
  BY RowsAre DEF Of, TasksOf
<1>3. Completed(t) /\ sync' = [sync EXCEPT ![s] = q]
  BY <1>1
<1> HIDE DEF mine, more
<1>4. q \in SyncRec /\ q.list = mine /\ q.done = mine
  BY <1>2, IdleSyncFits DEF IdleSync, SyncRec
<1>5. s \notin Dailies
  BY TicketingAssumption DEF CloseTicket
<1>6. task' \in [Tasks -> TaskRec] /\ Grows(task, task') /\ failures' \in Nat
  BY <1>2, <1>3, CompletedIs
<1>7. SyncFits(s, q, task')
  BY <1>2, <1>4, <1>5, <1>6, GrowthIs DEF SyncFits
<1>8. UNCHANGED <<status, rows, maker, edits>>
  BY DEF CloseTicket
<1> HIDE DEF q
<1> QED BY <1>3, <1>6, <1>7, <1>8, SyncStepKeeps

\* A sync ends, and wrote its rows and its findings or nothing.
LEMMA EndedSyncKeeps ==
    ASSUME TicketInv, NEW s \in Syncs, Written(sync[s]) \/ UNCHANGED <<rows, status>>,
           sync' = [sync EXCEPT ![s] = IdleSync], UNCHANGED <<task, maker, edits>>, failures' \in Nat
    PROVE  TicketInv'
<1>1. status' \in [Findings -> Statuses] /\ rows' \in [Tasks -> [Findings -> {"none", "open", "resolved"}]]
      /\ Rows' \subseteq Rows
  <2>1. CASE Written(sync[s])
    <3>1. status' \in [Findings -> Statuses] /\ rows' \in [Tasks -> [Findings -> {"none", "open", "resolved"}]]
      BY <2>1 DEF Written, TicketInv, TablesTyped, Statuses
    <3>2. \A t \in Tasks, f \in Findings : rows'[t][f] # "none" => <<t, f>> \in Rows
      BY <2>1, RowsAre DEF Written
    <3> QED BY <3>1, <3>2 DEF Rows
  <2>2. CASE UNCHANGED <<rows, status>>
    BY <2>2 DEF TicketInv, TablesTyped, Rows
  <2> QED BY <2>1, <2>2
<1>2. TablesTyped'
  BY <1>1 DEF TicketInv, TablesTyped
<1>3. SyncsFit'
  BY IdleSyncFits DEF TicketInv, SyncsFit
<1> QED BY <1>1, <1>2, <1>3, SameTasksGrow, OtherStepKeeps

LEMMA SyncKeeps == ASSUME TicketInv, NEW s \in Syncs, Sync(s) PROVE TicketInv'
<1>1. CASE CommitSync(s)
  <2>1. Written(sync[s]) \/ UNCHANGED <<rows, status>>
    BY <1>1 DEF CommitSync
  <2>2. sync' = [sync EXCEPT ![s] = IdleSync] /\ UNCHANGED <<task, maker, edits>> /\ failures' \in Nat
    BY <1>1 DEF CommitSync, TicketInv, TablesTyped
  <2> QED BY <2>1, <2>2, EndedSyncKeeps
<1>2. CASE SyncFails(s)
  <2>1. Written(sync[s]) \/ UNCHANGED <<rows, status>>
    BY <1>2 DEF SyncFails
  <2>2. sync' = [sync EXCEPT ![s] = IdleSync] /\ UNCHANGED <<task, maker, edits>> /\ failures' \in Nat
    BY <1>2 DEF SyncFails, Fail, TicketInv, TablesTyped
  <2> QED BY <2>1, <2>2, EndedSyncKeeps
<1> QED BY <1>1, <1>2, ListKeeps, ReadTaskKeeps, ReadFailsKeeps, SecondPassKeeps, AutoCloseKeeps, CloseTicketKeeps
           DEF Sync, Proceed

-----------------------------------------------------------------------------
(* People *)

LEMMA SetStatusKeeps == ASSUME TicketInv, NEW f \in Findings, SetStatus(f) PROVE TicketInv'
<1>1. TablesTyped'
  BY DEF SetStatus, Edit, TicketInv, TablesTyped
<1>2. UNCHANGED <<task, rows, maker, sync>>
  BY DEF SetStatus
<1>3. SyncsFit' /\ Rows' = Rows
  BY <1>2 DEF TicketInv, SyncsFit, Rows
<1> QED BY <1>1, <1>2, <1>3, SameTasksGrow, OtherStepKeeps

LEMMA TrackerKeeps == ASSUME TicketInv, NEW t \in Tasks, TaskClosed(t) \/ TaskReopened(t) PROVE TicketInv'
<1>1. PICK v \in {"closed", "reopened"} : task' = [task EXCEPT ![t].state = v]
  BY DEF TaskClosed, TaskReopened
<1>2. UNCHANGED <<status, rows, maker, sync, failures>> /\ edits' \in Nat
  BY DEF TaskClosed, TaskReopened, Edit, TicketInv, TablesTyped
<1>3. task \in [Tasks -> TaskRec]
  BY DEF TicketInv, TablesTyped
<1> DEFINE x == [task[t] EXCEPT !.state = v]
<1>4. x \in TaskRec /\ x.unit = task[t].unit /\ x.state = v /\ task' = [task EXCEPT ![t] = x]
  BY <1>1, <1>3 DEF TaskRec
<1> HIDE DEF x
<1>5. Grows(task, task') /\ task' \in [Tasks -> TaskRec]
  BY <1>3, <1>4 DEF Grows
<1>6. TablesTyped'
  BY <1>2, <1>5 DEF TicketInv, TablesTyped
<1>7. SyncsFit'
  BY <1>2, <1>5, GrowthIs DEF TicketInv, SyncsFit
<1>8. Rows' = Rows
  BY <1>2 DEF Rows
<1> QED BY <1>2, <1>5, <1>6, <1>7, <1>8, OtherStepKeeps

LEMMA DeleteKeeps == ASSUME TicketInv, NEW t \in Tasks, DeleteTicket(t) PROVE TicketInv'
<1>1. /\ rows' = [rows EXCEPT ![t] = [f \in Findings |-> "none"]]
      /\ status' = [f \in Findings |->
           IF f \in Of(Rows, t) /\ status[f] \in {"IN_PROGRESS", "REMEDIATED"} THEN "OPEN" ELSE status[f]]
      /\ UNCHANGED <<task, maker, sync, failures>> /\ edits' \in Nat
  BY DEF DeleteTicket, Edit, TicketInv, TablesTyped
<1>2. TablesTyped'
  <2>1. status' \in [Findings -> Statuses]
    BY <1>1 DEF TicketInv, TablesTyped, Statuses
  <2>2. rows' \in [Tasks -> [Findings -> {"none", "open", "resolved"}]]
    BY <1>1 DEF TicketInv, TablesTyped
  <2> QED BY <1>1, <2>1, <2>2 DEF TicketInv, TablesTyped
<1>3. Rows' \subseteq Rows
  <2>1. \A z \in Tasks, f \in Findings : rows'[z][f] # "none" => rows[z][f] # "none"
    BY <1>1 DEF TicketInv, TablesTyped
  <2> QED BY <2>1 DEF Rows
<1>4. SyncsFit'
  BY <1>1 DEF TicketInv, SyncsFit
<1> QED BY <1>1, <1>2, <1>3, <1>4, SameTasksGrow, OtherStepKeeps

-----------------------------------------------------------------------------
(* The theorems *)

LEMMA StutterKeepsTickets == ASSUME TicketInv, UNCHANGED vars PROVE TicketInv'
<1>1. UNCHANGED <<status, task, rows, maker, sync, edits, failures>>
  BY DEF vars
<1>2. TablesTyped' /\ SyncsFit' /\ Rows' = Rows
  BY <1>1 DEF TicketInv, TablesTyped, SyncsFit, Rows
<1> QED BY <1>1, <1>2, SameTasksGrow, OtherStepKeeps

LEMMA TicketInductive == Spec => []TicketInv
<1>1. TicketInv /\ [Next]_vars => TicketInv'
  BY MakeKeeps, SyncKeeps, SetStatusKeeps, TrackerKeeps, DeleteKeeps, StutterKeepsTickets DEF Next
<1> QED BY <1>1, TicketStart, PTL DEF Spec

(* RemediesSound: whatever else opens, closes, reopens, edits or deletes       *)
(* tickets while the daily sync runs, it holds a finding for remediated only  *)
(* with a row of it for a task that is about it and that was completed.       *)
THEOREM RemediesAreSound == Spec => []RemediesSound
<1>1. TicketInv => TypeOK
  <2> SUFFICES ASSUME TicketInv PROVE TypeOK
    OBVIOUS
  <2>1. maker \in [Makers -> MakerRec] /\ sync \in [Syncs -> SyncRec]
    BY DEF TicketInv, MakersFit, SyncsFit
  <2>2. TablesTyped
    BY DEF TicketInv
  <2> QED BY <2>1, <2>2 DEF TypeOK, MakerRec, SyncRec, TablesTyped, TaskRec
<1>2. TicketInv => RemediedForCause
  BY DEF TicketInv, SyncsFit, SyncFits, Caused, RemediedForCause, Syncs
<1> QED BY <1>1, <1>2, TicketInductive, PTL DEF RemediesSound

(* DuplicatesBounded: the checks for an earlier ticket take no lock, and yet   *)
(* a finding never has more rows of its own tickets than there are sessions   *)
(* that open tickets at a time.                                               *)
THEOREM DuplicatesAreBounded == Spec => []DuplicatesBounded
<1>1. ASSUME TicketInv, NEW f \in Findings
      PROVE  Cardinality({t \in Tickets(f) : task[t].unit.kind # "remediation"}) =< Cardinality(Makers)
  <2>1. OwnTickets(f) \in SUBSET Tasks /\ Takers(f) \in SUBSET Makers
    BY DEF OwnTickets, Tickets, Takers
  <2>2. /\ Cardinality(OwnTickets(f)) \in Nat /\ Cardinality(Takers(f)) \in Nat
        /\ Cardinality(Makers) \in Nat
    BY <2>1, FS_Subset, FS_CardinalityType, TicketingAssumption
  <2>3. Cardinality(OwnTickets(f)) + Cardinality(Takers(f)) =< Cardinality(Makers)
    BY <1>1 DEF TicketInv, Balanced
  <2>4. Cardinality(OwnTickets(f)) =< Cardinality(Makers)
    BY <2>2, <2>3
  <2> QED BY <2>4 DEF OwnTickets
<1>2. TicketInv => DuplicatesBounded
  BY <1>1 DEF DuplicatesBounded
<1> QED BY <1>2, TicketInductive, PTL
=============================================================================
