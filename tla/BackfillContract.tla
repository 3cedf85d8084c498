-------------------------- MODULE BackfillContract --------------------------
(***************************************************************************)
(* What the backfill of one tenant promises to the cutover gate that reads *)
(* its status: a job that says "completed" owes nothing.  owed is the set  *)
(* of findings that were open when the job was enqueued, have stayed open  *)
(* since, and carry no score of the current model.  How the work is split  *)
(* into chunks, who does it and what crashes on the way is left open.      *)
(***************************************************************************)
CONSTANT Findings

VARIABLES status, owed

cvars == <<status, owed>>

Init ==
    /\ status = "none"
    /\ owed = {}

\* The job is enqueued and owes the findings open at that moment.
Enqueue ==
    /\ status = "none"
    /\ status' = "pending"
    /\ owed' \in SUBSET Findings

\* Findings are migrated by the job.
Migrate ==
    /\ status \in {"pending", "in_progress"}
    /\ status' = "in_progress"
    /\ owed' \in SUBSET owed

\* Only a job that owes nothing completes.
Complete ==
    /\ status \in {"pending", "in_progress"}
    /\ owed = {}
    /\ status' = "completed"
    /\ owed' = {}

\* A failing tick marks the job failed, whatever it was before.
Fail ==
    /\ status # "none"
    /\ status' = "failed"
    /\ owed' = owed

\* Findings are closed, or scored by a sync: less is owed, never more.
Relieve ==
    /\ status' = status
    /\ owed' \in SUBSET owed

Next == Enqueue \/ Migrate \/ Complete \/ Fail \/ Relieve

Spec == Init /\ [][Next]_cvars
=============================================================================
