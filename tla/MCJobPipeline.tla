---------------------------- MODULE MCJobPipeline ----------------------------
(* Small instances of JobPipeline for TLC. *)
EXTENDS JobPromise, TLC

CONSTANTS u1, j1, r1, r2, w1, w2, c1

\* One job, asked for twice under one idempotency key.
OneJobOwner == [j \in {j1} |-> u1]
OneJobPrice == [j \in {j1} |-> 1]
OneJobOf    == [r \in {r1, r2} |-> j1]

WorkerSymmetry == Permutations({w1, w2})
=============================================================================
