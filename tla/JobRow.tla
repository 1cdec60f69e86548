------------------------------- MODULE JobRow -------------------------------
(***************************************************************************)
(* One row of public.jobs and what the job store does to it: the lifecycle *)
(* of internal/jobs/jobs.go, and the effect of JobStore.Create, Claim and  *)
(* Advance (internal/database) on the row they lock.                       *)
(*                                                                         *)
(* A row keeps the columns that decide what happens next.  `task` is the   *)
(* number of the provider task the row names, 0 for none.  `run` stands    *)
(* for next_run_at:                                                        *)
(*   "due"        in the past, so a worker may claim the row               *)
(*   "leased"     pushed out by Claim                                      *)
(*   "scheduled"  set by a worker's update (a retry, the next poll)        *)
(*   "none"       null: the row is terminal, or does not exist yet         *)
(***************************************************************************)
EXTENDS Naturals

Statuses == {"queued", "running", "completed", "failed", "ready"}

\* The full lifecycle as a relation on statuses.
Transitions ==
    {<<"queued", "running">>, <<"queued", "failed">>, <<"queued", "ready">>,
     <<"running", "completed">>, <<"running", "failed">>, <<"running", "ready">>}

Terminal(status) ==
    status \in Statuses /\ \A to \in Statuses : <<status, to>> \notin Transitions

Stages == {"none", "preparing", "uploading", "submitting", "generating", "done"}
Runs   == {"none", "due", "leased", "scheduled"}

Row == [status : Statuses \cup {"absent"}, stage : Stages, task : Nat,
        retry : Nat, run : Runs]

\* A job nobody has asked for yet.
NoRow == [status |-> "absent", stage |-> "none", task |-> 0, retry |-> 0, run |-> "none"]

\* What Create inserts: queued and, through next_run_at = now(), due at once.
NewRow == [status |-> "queued", stage |-> "none", task |-> 0, retry |-> 0, run |-> "due"]

Exists(row) == row.status # "absent"
Ended(row)  == Terminal(row.status)

\* The rows Claim selects, and what it leaves in them.
Claimable(row) == row.status \in {"queued", "running"} /\ row.run = "due"

Claimed(row) == [row EXCEPT !.run = "leased"]

-----------------------------------------------------------------------------
(* Updates.  A field left at its "unchanged" value is not touched.         *)

Unchanged == [status |-> "", stage |-> "", task |-> 0, retry |-> 0, run |-> ""]

\* Mutation of Accepts: the lifecycle is not checked against the locked row.
Accepts_Unchecked(row, u) == Exists(row)

\* Whether Advance lets the update through, judged against the locked row.
Accepts(row, u) ==
    /\ Exists(row)
    /\ ~ Terminal(row.status)
    /\ \/ u.status \in {"", row.status}
       \/ <<row.status, u.status>> \in Transitions

\* Mutation of Coalesce: an unset field overwrites the column.
Coalesce_Overwrite(new, old, none) == new

Coalesce(new, old, none) == IF new = none THEN old ELSE new

\* The row after an update Advance let through.
Advanced(row, u) ==
    LET status == Coalesce(u.status, row.status, "")
    IN  [status |-> status,
         stage  |-> Coalesce(u.stage, row.stage, ""),
         task   |-> Coalesce(u.task, row.task, 0),
         retry  |-> row.retry + u.retry,
         run    |-> IF Terminal(status) THEN "none" ELSE Coalesce(u.run, row.run, "")]
=============================================================================
