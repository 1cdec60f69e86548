----------------------------- MODULE JobPromise -----------------------------
(* JobPipeline implements PaidWork: the refinement mapping and its claim. *)
EXTENDS JobPipeline

PhaseOf(row) ==
    CASE row.status = "absent"                -> "none"
      [] row.status \in {"queued", "running"} -> "open"
      [] row.status = "failed"                -> "failed"
      [] OTHER                                -> "delivered"

ChargeOf(j) ==
    CASE closed[j] = "settle" -> "kept"
      [] closed[j] = "refund" -> "returned"
      [] OTHER -> IF reserved[j] > 0 THEN "held" ELSE "none"

Phase  == [j \in Jobs |-> PhaseOf(rows[j])]
Spent  == [j \in Jobs |-> made[j] > 0]
Charge == [j \in Jobs |-> ChargeOf(j)]

Promise == INSTANCE PaidWork
    WITH Work <- Jobs, phase <- Phase, spent <- Spent, charge <- Charge

\* The whole pipeline, with its races and deaths, keeps the promise of
\* PaidWork: no step of it does anything to the work, the provider's bill or
\* the charge that the promise does not allow at that moment.
KeepsPromise == Promise!Spec
=============================================================================
