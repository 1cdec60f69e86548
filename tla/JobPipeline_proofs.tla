------------------------- MODULE JobPipeline_proofs -------------------------
(***************************************************************************)
(* What holds of JobPipeline for every set of users, jobs, requests,       *)
(* workers and callbacks, and for every bound: the types, and that a job   *)
(* is submitted to the provider once and only what the provider made is    *)
(* delivered, for SubmitInv is inductive.  On top of it LedgerInv is: a    *)
(* finished row never moves, and a charge is closed the way its job ended; *)
(* together the two show that the pipeline implements PaidWork.            *)
(*                                                                         *)
(* The argument.  A row without a task that a worker may claim is handled  *)
(* by nobody (JobInv), so whoever is about to submit a job is alone on it, *)
(* holds its lease and sees the row as it is (ProcInv).  Once the provider *)
(* has accepted a task the row says so, by the task or by the stage        *)
(* "submitting", and a row that says so is never submitted again.          *)
(***************************************************************************)
EXTENDS JobPipeline, JobPromise, Sums, TLAPS

-----------------------------------------------------------------------------
(* The row.                                                                *)

\* Completed, failed and ready are the terminal statuses, and no others.
LEMMA TerminalStatuses ==
    \A s : Terminal(s) <=> s \in {"completed", "failed", "ready"}
BY DEF Terminal, Statuses, Transitions

\* The values the pipeline's updates take.
Updates == [status : {"", "running", "completed", "failed"}, stage : Stages \cup {""},
            task : Nat, retry : Nat, run : {"", "scheduled"}]

\* An update of the pipeline turns a row into a row.
LEMMA AdvancedType ==
    ASSUME NEW row \in Row, NEW u \in Updates
    PROVE  Advanced(row, u) \in Row
<1> DEFINE status == Coalesce(u.status, row.status, "")
           stage  == Coalesce(u.stage, row.stage, "")
           task   == Coalesce(u.task, row.task, 0)
           retry  == row.retry + u.retry
           run    == IF Terminal(status) THEN "none" ELSE Coalesce(u.run, row.run, "")
<1>1. status \in Statuses \cup {"absent"}
  BY DEF Coalesce, Row, Updates, Statuses
<1>2. stage \in Stages
  BY DEF Coalesce, Row, Updates, Stages
<1>3. task \in Nat
  BY DEF Coalesce, Row, Updates
<1>4. retry \in Nat
  <2>1. row.retry \in Nat /\ u.retry \in Nat
    BY DEF Row, Updates
  <2> QED
    BY <2>1
<1>5. run \in Runs
  BY DEF Coalesce, Row, Updates, Runs
<1>6. Advanced(row, u) = [status |-> status, stage |-> stage, task |-> task,
                          retry |-> retry, run |-> run]
  BY DEF Advanced
<1> HIDE DEF status, stage, task, retry, run
<1> QED
  BY <1>1, <1>2, <1>3, <1>4, <1>5, <1>6 DEF Row

\* Every update the pipeline writes is one of them.
LEMMA UpdatesType ==
    /\ Close \in Updates
    /\ [Unchanged EXCEPT !.status = "running", !.stage = "preparing"] \in Updates
    /\ [Unchanged EXCEPT !.stage = "uploading"] \in Updates
    /\ [Unchanged EXCEPT !.stage = "submitting"] \in Updates
    /\ \A t \in Nat : [Unchanged EXCEPT !.task = t, !.stage = "generating",
                                        !.run = "scheduled"] \in Updates
    /\ [Unchanged EXCEPT !.stage = "preparing", !.retry = 1, !.run = "scheduled"] \in Updates
    /\ [Unchanged EXCEPT !.run = "scheduled"] \in Updates
    /\ [Unchanged EXCEPT !.status = "completed", !.stage = "done"] \in Updates
BY DEF Close, Unchanged, Updates, Stages

LEMMA RowValues ==
    /\ NoRow \in Row
    /\ NewRow \in Row
    /\ \A row \in Row : Claimed(row) \in Row
    /\ \A row \in Row : SnapshotOf(row) \in Snapshot
    /\ NoSnapshot \in Snapshot
BY DEF NoRow, NewRow, Claimed, Row, Statuses, Stages, Runs, SnapshotOf, Snapshot, NoSnapshot

-----------------------------------------------------------------------------
(* Type correctness.                                                       *)

LEMMA InitType == Init => TypeOK
BY PriceAssumption, BoundsAssumption, RowValues
   DEF Init, TypeOK, RowsOK, ProcsOK, ProviderOK, LedgerOK, Labels, RequestLabels

LEMMA IdleType ==
    ASSUME ProcsOK, NEW p \in Procs, Idle(p)
    PROVE  ProcsOK'
BY RowValues DEF ProcsOK, Idle, Labels

LEMMA GotoType ==
    ASSUME ProcsOK, NEW p \in Procs, pc[p] # "idle", NEW label \in Labels, Goto(p, label)
    PROVE  ProcsOK'
BY DEF ProcsOK, Goto

LEMMA AdvanceToType ==
    ASSUME RowsOK, ProcsOK, NEW p \in Procs, pc[p] # "idle", NEW u \in Updates,
           NEW label \in Labels, AdvanceTo(p, u, label), UNCHANGED aged
    PROVE  RowsOK' /\ ProcsOK'
<1>1. at[p] \in Jobs
  BY DEF ProcsOK
<1>2. rows[at[p]] \in Row
  BY <1>1 DEF RowsOK
<1>3. RowsOK'
  BY <1>1, <1>2, AdvancedType DEF RowsOK, AdvanceTo
<1>4. ProcsOK'
  BY IdleType, GotoType DEF AdvanceTo
<1> QED
  BY <1>3, <1>4

LEMMA CloseChargeType ==
    ASSUME LedgerOK, NEW j \in Jobs, CloseCharge(j)
    PROVE  LedgerOK'
<1>1. Owner[j] \in Users /\ reserved[j] \in Nat /\ balance[Owner[j]] \in Nat
  BY UsersAssumption DEF LedgerOK
<1>2. CASE ~ OpenCharge(j)
  BY <1>2 DEF LedgerOK, CloseCharge, ledger
<1>3. CASE OpenCharge(j) /\ rows[j].status = "failed"
  <2>1. balance[Owner[j]] + reserved[j] \in Nat
    BY <1>1
  <2> QED
    BY <1>1, <1>3, <2>1 DEF LedgerOK, CloseCharge
<1>4. CASE OpenCharge(j) /\ rows[j].status # "failed"
  BY <1>1, <1>4 DEF LedgerOK, CloseCharge
<1> QED
  BY <1>2, <1>3, <1>4

LEMMA TakeReservationType ==
    ASSUME LedgerOK, NEW j \in Jobs, TakeReservation(j)
    PROVE  LedgerOK'
<1>1. Owner[j] \in Users /\ Price[j] \in Nat /\ balance[Owner[j]] \in Nat
  BY UsersAssumption, PriceAssumption DEF LedgerOK
<1>2. balance[Owner[j]] - Price[j] \in Nat
  BY <1>1 DEF TakeReservation
<1> QED
  BY <1>1, <1>2 DEF LedgerOK, TakeReservation

LEMMA CreateStepType ==
    ASSUME TypeOK, NEW r \in Requests, CreateStep(r)
    PROVE  TypeOK'
<1> USE DEF TypeOK, RequestLabels
<1>0. JobOf[r] \in Jobs
  BY RequestsAssumption
<1>1. CASE Insert(r)
  <2>1. RowsOK'
    BY <1>0, <1>1, RowValues DEF Insert, RowsOK
  <2> QED
    BY <1>1, <2>1 DEF Insert, procs, provider, ledger, ProcsOK, ProviderOK, LedgerOK
<1>2. CASE Reserve(r) \/ ReserveUnrecorded(r)
  <2>1. LedgerOK'
    BY <1>0, <1>2, TakeReservationType DEF Reserve, ReserveUnrecorded
  <2> QED
    BY <1>2, <2>1 DEF Reserve, ReserveUnrecorded, procs, provider, RowsOK, ProcsOK, ProviderOK
<1>3. CASE ReserveRefused(r) \/ CloseUnfundedFails(r) \/ RequestLost(r)
  BY <1>3 DEF ReserveRefused, CloseUnfundedFails, RequestLost, procs, provider, ledger,
              RowsOK, ProcsOK, ProviderOK, LedgerOK
<1>4. CASE CloseUnfunded(r)
  <2>1. Advanced(rows[JobOf[r]], Close) \in Row
    BY <1>0, AdvancedType, UpdatesType DEF RowsOK
  <2>2. RowsOK'
    BY <1>0, <1>4, <2>1 DEF CloseUnfunded, RowsOK
  <2> QED
    BY <1>4, <2>2 DEF CloseUnfunded, procs, provider, ledger, ProcsOK, ProviderOK, LedgerOK
<1> QED
  BY <1>1, <1>2, <1>3, <1>4 DEF CreateStep

\* The steps of a handler that only move it, or write one update to its row.
LEMMA HandlerStepType ==
    ASSUME TypeOK, NEW p \in Procs, HandlerStep(p)
    PROVE  TypeOK'
<1> USE DEF TypeOK
<1>1. ASSUME NEW label \in Labels, pc[p] # "idle", Goto(p, label),
             UNCHANGED <<rows, aged, request, provider, ledger, deaths>>
      PROVE  TypeOK'
  <2>1. ProcsOK'
    BY <1>1, GotoType
  <2> QED
    BY <1>1, <2>1 DEF provider, ledger, RowsOK, ProviderOK, LedgerOK
<1>2. ASSUME NEW u \in Updates, NEW label \in Labels, pc[p] # "idle",
             AdvanceTo(p, u, label), UNCHANGED <<aged, request, provider, ledger, deaths>>
      PROVE  TypeOK'
  <2>1. RowsOK' /\ ProcsOK'
    BY <1>2, AdvanceToType
  <2> QED
    BY <1>2, <2>1 DEF provider, ledger, ProviderOK, LedgerOK
<1>3. CASE Dispatch(p)
  <2>1. Branch(p) \in Labels
    BY <1>3 DEF Dispatch, Branch, Labels
  <2> QED
    BY <1>1, <1>3, <2>1 DEF Dispatch
<1>4. CASE StartPreparing(p)
  BY <1>2, <1>4, UpdatesType DEF StartPreparing, Labels
<1>5. CASE StartUpload(p)
  <2>1. at[p] \in Jobs
    BY <1>5 DEF StartUpload, ProcsOK
  <2>2. Advanced(rows[at[p]], [Unchanged EXCEPT !.stage = "uploading"]) \in Row
    BY <2>1, AdvancedType, UpdatesType DEF RowsOK
  <2>3. RowsOK'
    BY <1>5, <2>1, <2>2 DEF StartUpload, RowsOK
  <2>4. ProcsOK'
    BY <1>5, GotoType DEF StartUpload, Labels
  <2> QED
    BY <1>5, <2>3, <2>4 DEF StartUpload, provider, ledger, ProviderOK, LedgerOK
<1>6. CASE PrepFailed(p)
  BY <1>1, <1>6 DEF PrepFailed, Labels
<1>7. CASE StartSubmitting(p)
  BY <1>2, <1>7, UpdatesType DEF StartSubmitting, Labels
<1>8. CASE CreateTask(p)
  <2>1. at[p] \in Jobs /\ made[at[p]] \in Nat
    BY <1>8 DEF CreateTask, ProcsOK, ProviderOK
  <2>2. ProviderOK'
    BY <1>8, <2>1 DEF CreateTask, ProviderOK
  <2>3. seen' \in [Procs -> Snapshot]
    BY <1>8, <2>1 DEF CreateTask, ProcsOK, Snapshot
  <2>4. ProcsOK'
    BY <1>8, <2>3 DEF CreateTask, ProcsOK, Labels
  <2> QED
    BY <1>8, <2>2, <2>4 DEF CreateTask, ledger, RowsOK, LedgerOK
<1>9. CASE CreateUnconfirmed(p)
  <2>1. at[p] \in Jobs /\ made[at[p]] \in Nat
    BY <1>9 DEF CreateUnconfirmed, ProcsOK, ProviderOK
  <2>2. ProviderOK'
    BY <1>9, <2>1 DEF CreateUnconfirmed, ProviderOK, provider
  <2>3. ProcsOK'
    BY <1>9, GotoType DEF CreateUnconfirmed, Labels
  <2> QED
    BY <1>9, <2>2, <2>3 DEF CreateUnconfirmed, ledger, RowsOK, LedgerOK
<1>10. CASE CreateRejected(p)
  BY <1>1, <1>10 DEF CreateRejected, Labels
<1>11. CASE RecordTask(p)
  <2>1. seen[p].task \in Nat
    BY DEF ProcsOK, Snapshot
  <2> QED
    BY <1>2, <1>11, <2>1, UpdatesType DEF RecordTask, Labels
<1>12. CASE Retry(p)
  BY <1>2, <1>12, UpdatesType DEF Retry, Labels
<1>13. CASE RetryExhausted(p)
  BY <1>1, <1>13 DEF RetryExhausted, Labels
<1>14. CASE Poll(p)
  BY <1>1, <1>14 DEF Poll, Labels
<1>15. CASE Reschedule(p)
  BY <1>2, <1>15, UpdatesType DEF Reschedule, Labels
<1>16. CASE Complete(p)
  BY <1>2, <1>16, UpdatesType DEF Complete, Labels
<1>17. CASE Fail(p)
  BY <1>2, <1>17, UpdatesType DEF Fail, Labels
<1>18. CASE Finish(p)
  <2>1. LedgerOK' /\ ProcsOK'
    BY <1>18, CloseChargeType, IdleType DEF Finish, ProcsOK
  <2> QED
    BY <1>18, <2>1 DEF Finish, provider, RowsOK, ProviderOK
<1> QED
  BY <1>3, <1>4, <1>5, <1>6, <1>7, <1>8, <1>9, <1>10, <1>11, <1>12, <1>13, <1>14,
     <1>15, <1>16, <1>17, <1>18 DEF HandlerStep

LEMMA ClaimType ==
    ASSUME TypeOK, NEW w \in Workers, NEW j \in Jobs, Claim(w, j)
    PROVE  TypeOK'
<1>1. w \in Procs /\ rows[j] \in Row
  BY DEF Procs, TypeOK, RowsOK
<1>2. Claimed(rows[j]) \in Row /\ SnapshotOf(rows[j]) \in Snapshot
  BY <1>1, RowValues
<1>3. RowsOK'
  BY <1>2 DEF Claim, TypeOK, RowsOK
<1>4. ProcsOK'
  BY <1>1, <1>2 DEF Claim, TypeOK, ProcsOK, Labels
<1> QED
  BY <1>3, <1>4 DEF Claim, TypeOK, provider, ledger, ProviderOK, LedgerOK

LEMMA CallbackType ==
    ASSUME TypeOK, NEW c \in Callbacks, NEW j \in Jobs, CallbackArrives(c, j)
    PROVE  TypeOK'
<1>1. c \in Procs /\ rows[j] \in Row
  BY DEF Procs, TypeOK, RowsOK
<1>2. SnapshotOf(rows[j]) \in Snapshot
  BY <1>1, RowValues
<1>3. ProcsOK'
  BY <1>1, <1>2 DEF CallbackArrives, TypeOK, ProcsOK, Labels
<1> QED
  BY <1>3 DEF CallbackArrives, TypeOK, provider, ledger, RowsOK, ProviderOK, LedgerOK

LEMMA EnvironmentType ==
    ASSUME TypeOK, NEW j \in Jobs,
           Generate(j) \/ LeaseExpires(j) \/ ScheduleArrives(j) \/ Age(j) \/ Sweep(j)
    PROVE  TypeOK'
<1> USE DEF TypeOK
<1>1. CASE Generate(j)
  BY <1>1 DEF Generate, procs, ledger, RowsOK, ProcsOK, ProviderOK, LedgerOK
<1>2. CASE LeaseExpires(j) \/ ScheduleArrives(j)
  <2>1. [rows[j] EXCEPT !.run = "due"] \in Row
    BY DEF RowsOK, Row, Runs
  <2>2. RowsOK'
    BY <1>2, <2>1 DEF LeaseExpires, ScheduleArrives, RowsOK
  <2> QED
    BY <1>2, <2>2 DEF LeaseExpires, ScheduleArrives, procs, provider, ledger,
                      ProcsOK, ProviderOK, LedgerOK
<1>3. CASE Age(j)
  BY <1>3 DEF Age, procs, provider, ledger, RowsOK, ProcsOK, ProviderOK, LedgerOK
<1>4. CASE Sweep(j)
  <2>1. LedgerOK'
    BY <1>4, CloseChargeType DEF Sweep
  <2> QED
    BY <1>4, <2>1 DEF Sweep, procs, provider, RowsOK, ProcsOK, ProviderOK
<1> QED
  BY <1>1, <1>2, <1>3, <1>4

LEMMA NextType == TypeOK /\ [Next]_vars => TypeOK'
<1> SUFFICES ASSUME TypeOK, [Next]_vars
             PROVE  TypeOK'
  OBVIOUS
<1>1. ASSUME NEW p \in Procs, Die(p)
      PROVE  TypeOK'
  <2>1. ProcsOK'
    BY <1>1, IdleType DEF Die, TypeOK
  <2>2. deaths' \in 0 .. MaxDeaths
    BY <1>1, BoundsAssumption DEF Die, TypeOK
  <2> QED
    BY <1>1, <2>1, <2>2 DEF Die, TypeOK, provider, ledger, RowsOK, ProviderOK, LedgerOK
<1>2. CASE UNCHANGED vars
  BY <1>2 DEF vars, procs, provider, ledger, TypeOK, RowsOK, ProcsOK, ProviderOK, LedgerOK
<1> QED
  BY <1>1, <1>2, CreateStepType, HandlerStepType, ClaimType, CallbackType,
     EnvironmentType DEF Next

\* The type invariant; in particular no account is ever overdrawn, however
\* many requests reserve at once.
THEOREM TypeCorrect == Spec => []TypeOK
BY InitType, NextType, PTL DEF Spec


-----------------------------------------------------------------------------
(* What each update leaves in the row it is applied to.                    *)

LEMMA EndedMeans == \A row : Ended(row) <=> row.status \in {"completed", "failed", "ready"}
BY TerminalStatuses DEF Ended

LEMMA AcceptedRow ==
    ASSUME NEW row \in Row, NEW u, Accepts(row, u)
    PROVE  Exists(row) /\ ~ Ended(row) /\ row.status \in {"queued", "running"}
BY EndedMeans DEF Accepts, Exists, Ended, Row, Statuses

LEMMA AfterStage ==
    ASSUME NEW row \in Row, NEW s \in {"uploading", "submitting"},
           Accepts(row, [Unchanged EXCEPT !.stage = s])
    PROVE  LET new == Advanced(row, [Unchanged EXCEPT !.stage = s])
           IN  /\ new.status = row.status
               /\ new.stage = s
               /\ new.task = row.task
               /\ new.run = row.run
BY AcceptedRow, TerminalStatuses DEF Advanced, Unchanged, Coalesce

LEMMA AfterPreparing ==
    ASSUME NEW row \in Row,
           Accepts(row, [Unchanged EXCEPT !.status = "running", !.stage = "preparing"])
    PROVE  LET new == Advanced(row, [Unchanged EXCEPT !.status = "running", !.stage = "preparing"])
           IN  /\ new.status = "running"
               /\ new.stage = "preparing"
               /\ new.task = row.task
               /\ new.run = row.run
BY TerminalStatuses DEF Advanced, Unchanged, Coalesce

LEMMA AfterRetry ==
    ASSUME NEW row \in Row,
           Accepts(row, [Unchanged EXCEPT !.stage = "preparing", !.retry = 1, !.run = "scheduled"])
    PROVE  LET new == Advanced(row, [Unchanged EXCEPT !.stage = "preparing", !.retry = 1,
                                                      !.run = "scheduled"])
           IN  /\ new.status = row.status
               /\ new.task = row.task
BY AcceptedRow, TerminalStatuses DEF Advanced, Unchanged, Coalesce

LEMMA AfterReschedule ==
    ASSUME NEW row \in Row, Accepts(row, [Unchanged EXCEPT !.run = "scheduled"])
    PROVE  LET new == Advanced(row, [Unchanged EXCEPT !.run = "scheduled"])
           IN  /\ new.status = row.status
               /\ new.stage = row.stage
               /\ new.task = row.task
BY AcceptedRow, TerminalStatuses DEF Advanced, Unchanged, Coalesce

LEMMA AfterEnd ==
    ASSUME NEW row \in Row
    PROVE  /\ LET new == Advanced(row, Close)
              IN  new.status = "failed" /\ new.task = row.task /\ new.stage = row.stage
           /\ LET new == Advanced(row, [Unchanged EXCEPT !.status = "completed", !.stage = "done"])
              IN  new.status = "completed" /\ new.task = row.task
BY DEF Advanced, Unchanged, Coalesce, Close

-----------------------------------------------------------------------------
(* Steps that change no row.                                               *)

\* A process that stops disturbs nobody.
LEMMA IdleKeeps ==
    ASSUME TypeOK, SubmitInv, NEW p \in Procs, Idle(p), UNCHANGED <<rows, provider>>
    PROVE  SubmitInv'
<1>1. ASSUME NEW q \in Procs, pc'[q] # "idle"
      PROVE  q # p /\ pc'[q] = pc[q] /\ at'[q] = at[q] /\ seen'[q] = seen[q]
  BY <1>1 DEF Idle, TypeOK, ProcsOK
<1>2. ASSUME NEW q \in Procs, NEW j \in Jobs, Handling(q, j)'
      PROVE  Handling(q, j)
  BY <1>1, <1>2 DEF Handling
<1>3. ASSUME NEW j \in Jobs
      PROVE  JobInv(j)'
  BY <1>2, <1>3 DEF SubmitInv, JobInv, provider, Handling
<1>4. ASSUME NEW q \in Procs, pc'[q] # "idle"
      PROVE  ProcInv(q)'
  <2>1. ProcInv(q) /\ at[q] \in Jobs
    BY <1>1, <1>4 DEF SubmitInv, TypeOK, ProcsOK
  <2>2. InSubmit(q)' <=> InSubmit(q)
    BY <1>1, <1>4 DEF InSubmit
  <2> QED
    BY <1>1, <1>2, <1>4, <2>1, <2>2 DEF ProcInv, provider
<1> QED
  BY <1>3, <1>4 DEF SubmitInv

\* A step of one handler on its own job.  Whoever else is on that job is not
\* about to submit it, so it is enough that the row stays, keeps its task, and
\* that a success stays one.
LEMMA HandlerKeeps ==
    ASSUME TypeOK, SubmitInv, NEW p \in Procs, NEW j \in Jobs, Handling(p, j),
           \A q \in Procs \ {p} : /\ pc'[q] = pc[q]
                                  /\ at'[q] = at[q]
                                  /\ seen'[q] = seen[q],
           \A k \in Jobs \ {j} : /\ rows'[k] = rows[k]
                                 /\ made'[k] = made[k]
                                 /\ gen'[k] = gen[k],
           Exists(rows'[j]),
           rows[j].task # 0 => rows'[j].task # 0,
           gen[j] = "success" => gen'[j] = "success",
           JobInv(j)',
           pc'[p] # "idle" => at'[p] = j /\ ProcInv(p)'
    PROVE  SubmitInv'
<1>1. ASSUME NEW k \in Jobs \ {j}, NEW q \in Procs
      PROVE  Handling(q, k)' <=> Handling(q, k)
  BY <1>1 DEF Handling
<1>2. ASSUME NEW k \in Jobs \ {j}
      PROVE  JobInv(k)'
  BY <1>1, <1>2 DEF SubmitInv, JobInv
<1>3. ASSUME NEW q \in Procs \ {p}, pc'[q] # "idle"
      PROVE  ProcInv(q)'
  <2>1. ProcInv(q) /\ at[q] \in Jobs /\ at'[q] = at[q] /\ pc'[q] = pc[q] /\ seen'[q] = seen[q]
    BY <1>3 DEF SubmitInv, TypeOK, ProcsOK
  <2>2. InSubmit(q)' <=> InSubmit(q)
    BY <2>1 DEF InSubmit
  <2>3. CASE at[q] = j
    <3>1. ~ InSubmit(q)
      BY <1>3, <2>1, <2>3 DEF ProcInv
    <3> QED
      BY <2>1, <2>2, <2>3, <3>1 DEF ProcInv, InSubmit
  <2>4. CASE at[q] # j
    <3>1. rows'[at[q]] = rows[at[q]] /\ made'[at[q]] = made[at[q]] /\ gen'[at[q]] = gen[at[q]]
      BY <2>1, <2>4
    <3>2. ASSUME NEW r \in Procs, pc'[r] # "idle", at'[r] = at[q]
          PROVE  Handling(r, at[q])
      BY <1>1, <2>1, <2>4, <3>2 DEF Handling
    <3> QED
      BY <2>1, <2>2, <3>1, <3>2 DEF ProcInv, Handling
  <2> QED
    BY <2>3, <2>4
<1> QED
  BY <1>2, <1>3 DEF SubmitInv

\* A handler that moves on without touching anything else.
LEMMA GotoKeeps ==
    ASSUME TypeOK, SubmitInv, NEW p \in Procs, NEW label \in Labels \ {"idle"},
           pc[p] # "idle", Goto(p, label), UNCHANGED <<rows, provider>>, ProcInv(p)'
    PROVE  SubmitInv'
<1>1. at[p] \in Jobs /\ Handling(p, at[p]) /\ ProcInv(p) /\ JobInv(at[p])
  BY DEF TypeOK, ProcsOK, Handling, SubmitInv
<1>2. /\ pc'[p] = label
      /\ at' = at
      /\ \A q \in Procs \ {p} : pc'[q] = pc[q] /\ at'[q] = at[q] /\ seen'[q] = seen[q]
  BY DEF Goto, TypeOK, ProcsOK
<1>3. \A q \in Procs : Handling(q, at[p])' <=> Handling(q, at[p])
  BY <1>1, <1>2 DEF Handling
<1>4. JobInv(at[p])'
  BY <1>1, <1>2, <1>3 DEF JobInv, provider, Handling
<1>5. Exists(rows'[at[p]])
  BY <1>1 DEF ProcInv
<1> QED
  BY <1>1, <1>2, <1>4, <1>5, HandlerKeeps DEF provider

-----------------------------------------------------------------------------
(* The steps of a handler, one by one.                                     *)

\* What a step that is enabled knows before it is taken.
LEMMA AtStart ==
    ASSUME TypeOK, SubmitInv, NEW p \in Procs, pc[p] # "idle"
    PROVE  /\ at[p] \in Jobs
           /\ rows[at[p]] \in Row
           /\ Handling(p, at[p])
           /\ ProcInv(p)
           /\ JobInv(at[p])
BY DEF TypeOK, ProcsOK, RowsOK, Handling, SubmitInv

\* The row after an update the store let through, and everything else.
LEMMA AdvanceFrame ==
    ASSUME TypeOK, NEW p \in Procs, NEW u, NEW label \in Labels, pc[p] # "idle",
           AdvanceTo(p, u, label), Accepts(rows[at[p]], u)
    PROVE  /\ rows'[at[p]] = Advanced(rows[at[p]], u)
           /\ \A k \in Jobs \ {at[p]} : rows'[k] = rows[k]
           /\ \A q \in Procs \ {p} : pc'[q] = pc[q] /\ at'[q] = at[q] /\ seen'[q] = seen[q]
           /\ pc'[p] = label
           /\ label # "idle" => at'[p] = at[p] /\ seen'[p] = seen[p]
BY DEF AdvanceTo, Idle, Goto, TypeOK, ProcsOK, RowsOK

LEMMA DispatchKeeps ==
    ASSUME TypeOK, SubmitInv, NEW p \in Procs, Dispatch(p)
    PROVE  SubmitInv'
<1>1. pc[p] = "handle" /\ Branch(p) \in {"fail", "poll"} /\ Goto(p, Branch(p))
  BY DEF Dispatch, Branch
<1>2. ProcInv(p)
  BY <1>1, AtStart
<1>3. pc'[p] = Branch(p) /\ at' = at /\ seen' = seen
  BY <1>1 DEF Goto, TypeOK, ProcsOK
<1>4. Branch(p) = "poll" => ~ InSubmit(p)
  BY <1>1 DEF InSubmit, Branch
<1>5. ProcInv(p)'
  BY <1>1, <1>2, <1>3, <1>4 DEF ProcInv, InSubmit, Dispatch, provider
<1> QED
  BY <1>1, <1>5, GotoKeeps DEF Dispatch, Labels

LEMMA MoveKeeps ==
    ASSUME TypeOK, SubmitInv, NEW p \in Procs,
           PrepFailed(p) \/ CreateRejected(p) \/ RetryExhausted(p) \/ Poll(p)
    PROVE  SubmitInv'
<1>1. PICK label \in {"fail", "retry", "complete", "reschedule"} :
          /\ Goto(p, label)
          /\ label = "retry" => pc[p] \in {"prepare", "upload", "create"}
          /\ label = "complete" => pc[p] = "poll" /\ gen[at[p]] = "success"
          /\ label = "reschedule" => pc[p] = "poll"
  BY DEF PrepFailed, CreateRejected, RetryExhausted, Poll
<1>2. pc[p] # "idle" /\ UNCHANGED <<rows, provider>>
  BY DEF PrepFailed, CreateRejected, RetryExhausted, Poll
<1>3. ProcInv(p) /\ pc'[p] = label /\ at' = at /\ seen' = seen
  BY <1>1, <1>2, AtStart DEF Goto, TypeOK, ProcsOK
<1>4. \A q \in Procs \ {p} : Handling(q, at[p]) <=> (pc'[q] # "idle" /\ at'[q] = at'[p])
  BY <1>1, <1>3 DEF Goto, TypeOK, ProcsOK, Handling
<1>5. ProcInv(p)'
  BY <1>1, <1>2, <1>3, <1>4 DEF ProcInv, InSubmit, provider, Handling
<1> QED
  BY <1>1, <1>2, <1>5, GotoKeeps DEF Labels

LEMMA StartPreparingKeeps ==
    ASSUME TypeOK, SubmitInv, NEW p \in Procs, StartPreparing(p)
    PROVE  SubmitInv'
<1> DEFINE u == [Unchanged EXCEPT !.status = "running", !.stage = "preparing"]
<1>1. pc[p] = "handle" /\ AdvanceTo(p, u, "prepare") /\ UNCHANGED provider
  BY DEF StartPreparing
<1> PICK j \in Jobs : j = at[p]
  BY <1>1, AtStart
<1>2. /\ rows[j] \in Row /\ Handling(p, j) /\ ProcInv(p) /\ JobInv(j)
      /\ InSubmit(p) /\ made[j] = 0
  BY <1>1, AtStart DEF StartPreparing, Branch, InSubmit, ProcInv
<1>3. CASE ~ Accepts(rows[j], u)
  BY <1>1, <1>3, IdleKeeps DEF AdvanceTo
<1>4. CASE Accepts(rows[j], u)
  <2>1. /\ rows'[j].status = "running"
        /\ rows'[j].stage = "preparing"
        /\ rows'[j].task = 0
        /\ rows'[j].run = "leased"
        /\ pc'[p] = "prepare" /\ at'[p] = j
    BY <1>1, <1>2, <1>4, AdvanceFrame, AfterPreparing, AcceptedRow DEF Labels, ProcInv
  <2>2. Exists(rows'[j]) /\ ~ Ended(rows'[j])
    BY <2>1, EndedMeans DEF Exists
  <2>3. JobInv(j)'
    BY <1>1, <1>2, <2>1, <2>2 DEF JobInv, provider
  <2>4. \A q \in Procs \ {p} : ~ (pc'[q] # "idle" /\ at'[q] = j)
    BY <1>1, <1>2, <1>4, AdvanceFrame DEF ProcInv, Handling, Labels
  <2>5. ProcInv(p)'
    BY <1>1, <1>2, <2>1, <2>2, <2>4 DEF ProcInv, InSubmit, provider, Handling
  <2> QED
    BY <1>1, <1>2, <1>4, <2>1, <2>2, <2>3, <2>5, AdvanceFrame, HandlerKeeps
       DEF Labels, provider, ProcInv
<1> QED
  BY <1>3, <1>4

LEMMA StartUploadKeeps ==
    ASSUME TypeOK, SubmitInv, NEW p \in Procs, StartUpload(p)
    PROVE  SubmitInv'
<1> DEFINE u == [Unchanged EXCEPT !.stage = "uploading"]
<1>1. pc[p] = "prepare" /\ Goto(p, "upload") /\ UNCHANGED provider
  BY DEF StartUpload
<1> PICK j \in Jobs : j = at[p]
  BY <1>1, AtStart
<1>2. /\ rows[j] \in Row /\ Handling(p, j) /\ ProcInv(p) /\ JobInv(j)
      /\ InSubmit(p) /\ made[j] = 0
  BY <1>1, AtStart DEF InSubmit, ProcInv
<1>3. /\ pc'[p] = "upload" /\ at' = at /\ seen' = seen
      /\ \A q \in Procs \ {p} : pc'[q] = pc[q]
  BY <1>1 DEF Goto, TypeOK, ProcsOK
<1>4. /\ \A k \in Jobs \ {j} : rows'[k] = rows[k]
      /\ rows'[j].status = rows[j].status
      /\ rows'[j].task = rows[j].task
      /\ rows'[j].run = rows[j].run
  <2>1. CASE Accepts(rows[j], u)
    <3>1. rows' = [rows EXCEPT ![j] = Advanced(@, u)]
      BY <2>1 DEF StartUpload
    <3> QED
      BY <1>2, <2>1, <3>1, AfterStage DEF TypeOK, RowsOK
  <2>2. CASE ~ Accepts(rows[j], u)
    BY <2>2 DEF StartUpload
  <2> QED
    BY <2>1, <2>2
<1>5. Exists(rows'[j]) /\ (Ended(rows'[j]) <=> Ended(rows[j]))
  BY <1>2, <1>4 DEF Exists, Ended, ProcInv
<1>6. \A q \in Procs : Handling(q, j) <=> (pc'[q] # "idle" /\ at'[q] = j)
  BY <1>1, <1>3 DEF Handling
<1>7. JobInv(j)'
  BY <1>1, <1>2, <1>4, <1>5, <1>6 DEF JobInv, ProcInv, provider, Handling
<1>8. ProcInv(p)'
  BY <1>1, <1>2, <1>3, <1>4, <1>5, <1>6 DEF ProcInv, InSubmit, provider, Handling
<1> QED
  BY <1>1, <1>2, <1>3, <1>4, <1>5, <1>7, <1>8, HandlerKeeps DEF provider

LEMMA StartSubmittingKeeps ==
    ASSUME TypeOK, SubmitInv, NEW p \in Procs, StartSubmitting(p)
    PROVE  SubmitInv'
<1> DEFINE u == [Unchanged EXCEPT !.stage = "submitting"]
<1>1. pc[p] \in {"prepare", "upload"} /\ AdvanceTo(p, u, "create") /\ UNCHANGED provider
  BY DEF StartSubmitting
<1> PICK j \in Jobs : j = at[p]
  BY <1>1, AtStart
<1>2. /\ rows[j] \in Row /\ Handling(p, j) /\ ProcInv(p) /\ JobInv(j)
      /\ InSubmit(p) /\ made[j] = 0
  BY <1>1, AtStart DEF InSubmit, ProcInv
<1>3. CASE ~ Accepts(rows[j], u)
  BY <1>1, <1>3, IdleKeeps DEF AdvanceTo
<1>4. CASE Accepts(rows[j], u)
  <2>1. /\ rows'[j].status = rows[j].status
        /\ rows'[j].stage = "submitting"
        /\ rows'[j].task = 0
        /\ rows'[j].run = rows[j].run
        /\ pc'[p] = "create" /\ at'[p] = j
    BY <1>1, <1>2, <1>4, AdvanceFrame, AfterStage DEF Labels, ProcInv
  <2>2. Exists(rows'[j]) /\ (Ended(rows'[j]) <=> Ended(rows[j]))
    BY <1>2, <2>1 DEF Exists, Ended, ProcInv
  <2>3. JobInv(j)'
    BY <1>1, <1>2, <2>1, <2>2 DEF JobInv, ProcInv, provider
  <2>4. \A q \in Procs \ {p} : ~ (pc'[q] # "idle" /\ at'[q] = j)
    BY <1>1, <1>2, <1>4, AdvanceFrame DEF ProcInv, Handling, Labels
  <2>5. ProcInv(p)'
    BY <1>1, <1>2, <2>1, <2>2, <2>4 DEF ProcInv, InSubmit, provider, Handling
  <2> QED
    BY <1>1, <1>2, <1>4, <2>1, <2>2, <2>3, <2>5, AdvanceFrame, HandlerKeeps
       DEF Labels, provider, ProcInv
<1> QED
  BY <1>3, <1>4

\* The provider takes the task: the row says "submitting", and nobody else is
\* on the job.
LEMMA CreateKeeps ==
    ASSUME TypeOK, SubmitInv, NEW p \in Procs, CreateTask(p) \/ CreateUnconfirmed(p)
    PROVE  SubmitInv'
<1>1. pc[p] = "create" /\ UNCHANGED rows
  BY DEF CreateTask, CreateUnconfirmed
<1> PICK j \in Jobs : j = at[p]
  BY <1>1, AtStart
<1>2. /\ rows[j] \in Row /\ Handling(p, j) /\ ProcInv(p) /\ JobInv(j)
      /\ InSubmit(p) /\ made[j] = 0
      /\ Ended(rows[j]) \/ rows[j].stage = "submitting"
      /\ rows[j].task = 0
      /\ Exists(rows[j])
  BY <1>1, AtStart DEF InSubmit, ProcInv
<1>3. /\ at' = at
      /\ \A q \in Procs \ {p} : pc'[q] = pc[q] /\ seen'[q] = seen[q]
      /\ pc'[p] \in {"record", "fail"}
  BY DEF CreateTask, CreateUnconfirmed, Goto, TypeOK, ProcsOK
<1>4. \A k \in Jobs \ {j} : made'[k] = made[k] /\ gen'[k] = gen[k]
  BY <1>2 DEF CreateTask, CreateUnconfirmed, provider, TypeOK, ProviderOK
<1>5. /\ made'[j] \in {0, 1}
      /\ pc'[p] = "record" => made'[j] = 1 /\ seen'[p].task = 1
  BY <1>1, <1>2 DEF CreateTask, CreateUnconfirmed, Goto, provider, TypeOK, ProcsOK, ProviderOK, Snapshot
<1>6. \A q \in Procs \ {p} : ~ (pc'[q] # "idle" /\ at'[q] = j)
  BY <1>2, <1>3 DEF ProcInv, Handling
<1>7. rows[j].status # "completed"
  BY <1>2 DEF JobInv
<1>8. JobInv(j)'
  BY <1>1, <1>2, <1>5, <1>7, EndedMeans DEF JobInv, ProcInv
<1>9. ProcInv(p)'
  BY <1>1, <1>2, <1>3, <1>5, <1>6 DEF ProcInv, InSubmit, Handling
<1>10. \A q \in Procs \ {p} : ~ Handling(q, j)
  BY <1>2 DEF ProcInv
<1>11. ASSUME NEW q \in Procs \ {p}, pc'[q] # "idle"
       PROVE  ProcInv(q)'
  <2>1. ProcInv(q) /\ at[q] \in Jobs \ {j} /\ pc'[q] = pc[q] /\ at'[q] = at[q] /\ seen'[q] = seen[q]
    BY <1>3, <1>10, <1>11 DEF SubmitInv, TypeOK, ProcsOK, Handling
  <2>2. InSubmit(q)' <=> InSubmit(q)
    BY <2>1 DEF InSubmit
  <2>3. ASSUME NEW r \in Procs, pc'[r] # "idle", at'[r] = at[q]
        PROVE  Handling(r, at[q])
    BY <1>1, <1>3, <2>1, <2>3 DEF Handling
  <2> QED
    BY <1>1, <1>4, <2>1, <2>2, <2>3 DEF ProcInv, Handling
<1>12. ASSUME NEW k \in Jobs \ {j}
       PROVE  JobInv(k)'
  <2>1. \A q \in Procs : (pc'[q] # "idle" /\ at'[q] = k) => Handling(q, k)
    BY <1>3 DEF Handling
  <2> QED
    BY <1>1, <1>4, <2>1 DEF SubmitInv, JobInv, Handling
<1> QED
  BY <1>8, <1>9, <1>11, <1>12 DEF SubmitInv

LEMMA RecordTaskKeeps ==
    ASSUME TypeOK, SubmitInv, NEW p \in Procs, RecordTask(p)
    PROVE  SubmitInv'
<1> DEFINE u == [Unchanged EXCEPT !.task = 1, !.stage = "generating", !.run = "scheduled"]
<1>0. pc[p] = "record" /\ UNCHANGED provider
  BY DEF RecordTask
<1>1. pc[p] = "record" /\ AdvanceTo(p, u, "idle") /\ UNCHANGED provider
  BY <1>0, AtStart DEF RecordTask, ProcInv
<1> PICK j \in Jobs : j = at[p]
  BY <1>1, AtStart
<1>2. /\ rows[j] \in Row /\ Handling(p, j) /\ ProcInv(p) /\ JobInv(j)
      /\ InSubmit(p) /\ made[j] = 1 /\ seen[p].task = 1
  BY <1>1, AtStart DEF InSubmit, ProcInv
<1>3. CASE ~ Accepts(rows[j], u)
  BY <1>1, <1>3, IdleKeeps DEF AdvanceTo
<1>4. CASE Accepts(rows[j], u)
  <2>0. /\ Advanced(rows[j], u).status = rows[j].status
        /\ Advanced(rows[j], u).task = 1
    BY <1>2, <1>4, AcceptedRow, TerminalStatuses DEF Advanced, Unchanged, Coalesce
  <2>1. /\ rows'[j].status = rows[j].status
        /\ rows'[j].task = 1
        /\ pc'[p] = "idle"
    BY <1>1, <1>2, <1>4, <2>0, AdvanceFrame DEF Labels
  <2>2. Exists(rows'[j]) /\ rows'[j].status # "completed"
    BY <1>2, <1>4, <2>1, AcceptedRow DEF Exists, ProcInv
  <2>3. JobInv(j)'
    BY <1>1, <1>2, <2>1, <2>2 DEF JobInv, provider
  <2> QED
    BY <1>1, <1>2, <1>4, <2>1, <2>2, <2>3, AdvanceFrame, HandlerKeeps
       DEF Labels, provider, ProcInv
<1> QED
  BY <1>3, <1>4

LEMMA RetryKeeps ==
    ASSUME TypeOK, SubmitInv, NEW p \in Procs, Retry(p)
    PROVE  SubmitInv'
<1> DEFINE u == [Unchanged EXCEPT !.stage = "preparing", !.retry = 1, !.run = "scheduled"]
<1>1. pc[p] = "retry" /\ AdvanceTo(p, u, "idle") /\ UNCHANGED provider
  BY DEF Retry
<1> PICK j \in Jobs : j = at[p]
  BY <1>1, AtStart
<1>2. /\ rows[j] \in Row /\ Handling(p, j) /\ ProcInv(p) /\ JobInv(j)
      /\ InSubmit(p) /\ made[j] = 0
  BY <1>1, AtStart DEF InSubmit, ProcInv
<1>3. CASE ~ Accepts(rows[j], u)
  BY <1>1, <1>3, IdleKeeps DEF AdvanceTo
<1>4. CASE Accepts(rows[j], u)
  <2>1. /\ rows'[j].status = rows[j].status
        /\ rows'[j].task = rows[j].task
        /\ pc'[p] = "idle"
    BY <1>1, <1>2, <1>4, AdvanceFrame, AfterRetry DEF Labels
  <2>2. Exists(rows'[j]) /\ rows'[j].status # "completed"
    BY <1>2, <1>4, <2>1, AcceptedRow DEF Exists, ProcInv
  <2>3. \A q \in Procs : ~ (pc'[q] # "idle" /\ at'[q] = j)
    BY <1>1, <1>2, <1>4, <2>1, AdvanceFrame DEF ProcInv, Handling, Labels
  <2>4. JobInv(j)'
    BY <1>1, <1>2, <2>1, <2>2, <2>3 DEF JobInv, ProcInv, provider, Handling
  <2> QED
    BY <1>1, <1>2, <1>4, <2>1, <2>2, <2>4, AdvanceFrame, HandlerKeeps
       DEF Labels, provider, ProcInv
<1> QED
  BY <1>3, <1>4

LEMMA RescheduleKeeps ==
    ASSUME TypeOK, SubmitInv, NEW p \in Procs, Reschedule(p)
    PROVE  SubmitInv'
<1> DEFINE u == [Unchanged EXCEPT !.run = "scheduled"]
<1>1. pc[p] = "reschedule" /\ AdvanceTo(p, u, "idle") /\ UNCHANGED provider
  BY DEF Reschedule
<1> PICK j \in Jobs : j = at[p]
  BY <1>1, AtStart
<1>2. /\ rows[j] \in Row /\ Handling(p, j) /\ ProcInv(p) /\ JobInv(j)
      /\ rows[j].task # 0
  BY <1>1, AtStart DEF InSubmit, ProcInv
<1>3. CASE ~ Accepts(rows[j], u)
  BY <1>1, <1>3, IdleKeeps DEF AdvanceTo
<1>4. CASE Accepts(rows[j], u)
  <2>1. /\ rows'[j].status = rows[j].status
        /\ rows'[j].task = rows[j].task
        /\ pc'[p] = "idle"
    BY <1>1, <1>2, <1>4, AdvanceFrame, AfterReschedule DEF Labels
  <2>2. Exists(rows'[j])
    BY <1>2, <2>1 DEF Exists, ProcInv
  <2>3. JobInv(j)'
    BY <1>1, <1>2, <2>1, <2>2 DEF JobInv, provider
  <2> QED
    BY <1>1, <1>2, <1>4, <2>1, <2>2, <2>3, AdvanceFrame, HandlerKeeps
       DEF Labels, provider
<1> QED
  BY <1>3, <1>4

\* Ending a job: a completion is only ever written for a task that succeeded.
LEMMA EndKeeps ==
    ASSUME TypeOK, SubmitInv, NEW p \in Procs, Complete(p) \/ Fail(p)
    PROVE  SubmitInv'
<1> DEFINE done == [Unchanged EXCEPT !.status = "completed", !.stage = "done"]
<1>1. /\ pc[p] \in {"complete", "fail"} /\ UNCHANGED provider
      /\ \/ pc[p] = "complete" /\ AdvanceTo(p, done, "finish")
         \/ AdvanceTo(p, Close, "finish")
  BY DEF Complete, Fail
<1> PICK j \in Jobs : j = at[p]
  BY <1>1, AtStart
<1>2. /\ rows[j] \in Row /\ Handling(p, j) /\ ProcInv(p) /\ JobInv(j)
      /\ pc[p] = "complete" => rows[j].task # 0 /\ gen[j] = "success"
  BY <1>1, AtStart DEF InSubmit, ProcInv
<1>3. ASSUME NEW u, u = Close \/ (u = done /\ pc[p] = "complete"), AdvanceTo(p, u, "finish"),
             ~ Accepts(rows[j], u)
      PROVE  SubmitInv'
  BY <1>1, <1>3, IdleKeeps DEF AdvanceTo
<1>4. ASSUME NEW u, u = Close \/ (u = done /\ pc[p] = "complete"), AdvanceTo(p, u, "finish"),
             Accepts(rows[j], u)
      PROVE  SubmitInv'
  <2>1. /\ rows'[j] = Advanced(rows[j], u)
        /\ \A k \in Jobs \ {j} : rows'[k] = rows[k]
        /\ \A q \in Procs \ {p} : pc'[q] = pc[q] /\ at'[q] = at[q] /\ seen'[q] = seen[q]
        /\ pc'[p] = "finish" /\ at'[p] = j
    BY <1>1, <1>4, AdvanceFrame DEF Labels
  <2>2. /\ rows'[j].task = rows[j].task
        /\ rows'[j].status \in {"completed", "failed"}
        /\ rows'[j].status = "completed" => pc[p] = "complete"
    BY <1>2, <1>4, <2>1, AfterEnd
  <2>3. Exists(rows'[j]) /\ Ended(rows'[j])
    BY <2>2, EndedMeans DEF Exists
  <2>4. JobInv(j)'
    BY <1>1, <1>2, <2>2, <2>3 DEF JobInv, provider
  <2>5. ProcInv(p)'
    BY <1>1, <1>2, <2>1, <2>2, <2>3 DEF ProcInv, InSubmit, provider
  <2> QED
    BY <1>1, <1>2, <2>1, <2>2, <2>3, <2>4, <2>5, HandlerKeeps DEF provider
<1> QED
  BY <1>1, <1>3, <1>4

LEMMA FinishKeeps ==
    ASSUME TypeOK, SubmitInv, NEW p \in Procs, Finish(p) \/ Die(p)
    PROVE  SubmitInv'
BY IdleKeeps DEF Finish, Die, provider

LEMMA HandlerStepKeeps ==
    ASSUME TypeOK, SubmitInv, NEW p \in Procs, HandlerStep(p)
    PROVE  SubmitInv'
BY DispatchKeeps, MoveKeeps, StartPreparingKeeps, StartUploadKeeps, StartSubmittingKeeps,
   CreateKeeps, RecordTaskKeeps, RetryKeeps, RescheduleKeeps, EndKeeps, FinishKeeps
   DEF HandlerStep

-----------------------------------------------------------------------------
(* The other actors.                                                       *)

\* A row that changes in nothing but when it runs, or ends without completing,
\* or appears.
LEMMA InsertKeeps ==
    ASSUME TypeOK, SubmitInv, NEW r \in Requests, Insert(r)
    PROVE  SubmitInv'
<1> PICK j \in Jobs : j = JobOf[r]
  BY RequestsAssumption
<1>1. CASE Exists(rows[j])
  <2>1. UNCHANGED <<rows, pc, at, seen, made, gen>>
    BY <1>1 DEF Insert, procs, provider
  <2> QED
    BY <2>1 DEF SubmitInv, JobInv, ProcInv, InSubmit, Handling
<1>2. CASE ~ Exists(rows[j])
  <2>1. UNCHANGED <<pc, at, seen, made, gen>> /\ rows' = [rows EXCEPT ![j] = NewRow]
    BY <1>2 DEF Insert, procs, provider
  <2>2. \A p \in Procs : ~ Handling(p, j)
    BY <1>2 DEF SubmitInv, ProcInv, Handling
  <2>3. made[j] = 0
    BY <1>2 DEF SubmitInv, JobInv
  <2>4. rows'[j] = NewRow /\ \A k \in Jobs \ {j} : rows'[k] = rows[k]
    BY <2>1 DEF TypeOK, RowsOK
  <2>5. ASSUME NEW k \in Jobs
        PROVE  JobInv(k)'
    <3>1. CASE k = j
      BY <2>1, <2>2, <2>3, <2>4, <3>1 DEF JobInv, NewRow, Handling
    <3>2. CASE k # j
      BY <2>1, <2>4, <3>2 DEF SubmitInv, JobInv, Handling
    <3> QED
      BY <3>1, <3>2
  <2>6. ASSUME NEW p \in Procs, pc'[p] # "idle"
        PROVE  ProcInv(p)'
    <3>1. ProcInv(p) /\ at[p] \in Jobs \ {j}
      BY <2>1, <2>2, <2>6 DEF SubmitInv, TypeOK, ProcsOK, Handling
    <3> QED
      BY <2>1, <2>4, <3>1 DEF ProcInv, InSubmit, Handling
  <2> QED
    BY <2>5, <2>6 DEF SubmitInv
<1> QED
  BY <1>1, <1>2

LEMMA CreateStepKeeps ==
    ASSUME TypeOK, SubmitInv, NEW r \in Requests, CreateStep(r)
    PROVE  SubmitInv'
<1> PICK j \in Jobs : j = JobOf[r]
  BY RequestsAssumption
<1>1. CASE Insert(r)
  BY <1>1, InsertKeeps
<1>2. CASE CloseUnfunded(r) /\ Accepts(rows[j], Close)
  <2>1. /\ UNCHANGED <<pc, at, seen, made, gen>>
        /\ rows' = [rows EXCEPT ![j] = Advanced(rows[j], Close)]
    BY <1>2 DEF CloseUnfunded, procs, provider
  <2>2. rows[j] \in Row
    BY DEF TypeOK, RowsOK
  <2>3. /\ \A k \in Jobs \ {j} : rows'[k] = rows[k]
        /\ rows'[j].status = "failed"
        /\ rows'[j].task = rows[j].task
    BY <2>1, <2>2, AfterEnd DEF TypeOK, RowsOK
  <2>4. Exists(rows'[j]) /\ Ended(rows'[j])
    BY <2>3, EndedMeans DEF Exists
  <2>5. ASSUME NEW k \in Jobs
        PROVE  JobInv(k)'
    <3>1. CASE k = j
      BY <2>1, <2>3, <2>4, <3>1 DEF SubmitInv, JobInv
    <3>2. CASE k # j
      BY <2>1, <2>3, <3>2 DEF SubmitInv, JobInv, Handling
    <3> QED
      BY <3>1, <3>2
  <2>6. ASSUME NEW p \in Procs, pc'[p] # "idle"
        PROVE  ProcInv(p)'
    <3>1. ProcInv(p) /\ at[p] \in Jobs
      BY <2>1, <2>6 DEF SubmitInv, TypeOK, ProcsOK
    <3>2. CASE at[p] = j
      BY <2>1, <2>3, <2>4, <3>1, <3>2 DEF ProcInv, InSubmit, Handling
    <3>3. CASE at[p] # j
      BY <2>1, <2>3, <3>1, <3>3 DEF ProcInv, InSubmit, Handling
    <3> QED
      BY <3>2, <3>3
  <2> QED
    BY <2>5, <2>6 DEF SubmitInv
<1>3. CASE ~ Insert(r) /\ ~ (CloseUnfunded(r) /\ Accepts(rows[j], Close))
  <2>1. UNCHANGED <<rows, pc, at, seen, made, gen>>
    BY <1>3 DEF CreateStep, Reserve, ReserveUnrecorded, ReserveRefused, CloseUnfunded,
                CloseUnfundedFails, RequestLost, procs, provider
  <2> QED
    BY <2>1 DEF SubmitInv, JobInv, ProcInv, InSubmit, Handling
<1> QED
  BY <1>1, <1>2, <1>3

\* The claim: a due row without a task is nobody's, so the claimer is alone.
LEMMA ClaimKeeps ==
    ASSUME TypeOK, SubmitInv, NEW w \in Workers, NEW j \in Jobs, Claim(w, j)
    PROVE  SubmitInv'
<1>1. /\ w \in Procs /\ rows[j] \in Row /\ JobInv(j)
      /\ pc[w] = "idle"
      /\ rows[j].run = "due" /\ rows[j].status \in {"queued", "running"}
      /\ UNCHANGED provider
  BY DEF Claim, Claimable, Procs, TypeOK, RowsOK, SubmitInv
<1>2. /\ rows'[j] = Claimed(rows[j])
      /\ \A k \in Jobs \ {j} : rows'[k] = rows[k]
      /\ pc'[w] = "handle" /\ at'[w] = j /\ seen'[w] = SnapshotOf(rows[j])
      /\ \A q \in Procs \ {w} : pc'[q] = pc[q] /\ at'[q] = at[q] /\ seen'[q] = seen[q]
  BY <1>1 DEF Claim, TypeOK, RowsOK, ProcsOK
<1>3. /\ rows'[j].status = rows[j].status
      /\ rows'[j].stage = rows[j].stage
      /\ rows'[j].task = rows[j].task
      /\ rows'[j].run = "leased"
      /\ seen'[w].task = rows[j].task
      /\ seen'[w].stage = rows[j].stage
  BY <1>1, <1>2 DEF Claimed, SnapshotOf, Row
<1>4. ~ Ended(rows[j]) /\ Exists(rows'[j]) /\ ~ Ended(rows'[j])
  BY <1>1, <1>3, EndedMeans DEF Exists
<1>5. rows[j].task = 0 => \A q \in Procs : ~ Handling(q, j)
  BY <1>1, <1>4 DEF JobInv
<1>6. rows[j].task = 0 /\ rows[j].stage # "submitting" => made[j] = 0
  BY <1>1, <1>4 DEF JobInv
<1>7. ASSUME NEW k \in Jobs
      PROVE  JobInv(k)'
  <2>1. CASE k = j
    BY <1>1, <1>3, <1>4, <2>1 DEF JobInv, Ended, Exists, provider
  <2>2. CASE k # j
    BY <1>1, <1>2, <2>2 DEF SubmitInv, JobInv, Handling, provider
  <2> QED
    BY <2>1, <2>2
<1>8. ProcInv(w)'
  <2>1. rows[j].task = 0 => \A q \in Procs \ {w} : ~ (pc'[q] # "idle" /\ at'[q] = j)
    BY <1>2, <1>5 DEF Handling
  <2>2. w \notin Callbacks
    BY ProcsAssumption
  <2> QED
    BY <1>1, <1>2, <1>3, <1>4, <1>6, <2>1, <2>2 DEF ProcInv, InSubmit, Handling, provider
<1>9. ASSUME NEW q \in Procs \ {w}, pc'[q] # "idle"
      PROVE  ProcInv(q)'
  <2>1. ProcInv(q) /\ at[q] \in Jobs /\ pc'[q] = pc[q] /\ at'[q] = at[q] /\ seen'[q] = seen[q]
    BY <1>2, <1>9 DEF SubmitInv, TypeOK, ProcsOK
  <2>2. InSubmit(q)' <=> InSubmit(q)
    BY <2>1 DEF InSubmit
  <2>3. CASE at[q] = j
    <3>1. ~ InSubmit(q) /\ rows[j].task # 0
      BY <1>5, <1>9, <2>1, <2>3 DEF ProcInv, Handling
    <3> QED
      BY <1>1, <1>3, <1>4, <2>1, <2>2, <2>3, <3>1 DEF ProcInv, InSubmit, provider
  <2>4. CASE at[q] # j
    <3>1. \A r \in Procs : pc'[r] # "idle" /\ at'[r] = at[q] => Handling(r, at[q])
      BY <1>2, <2>4 DEF Handling
    <3> QED
      BY <1>1, <1>2, <2>1, <2>2, <2>4, <3>1 DEF ProcInv, Handling, provider
  <2> QED
    BY <2>3, <2>4
<1> QED
  BY <1>7, <1>8, <1>9 DEF SubmitInv

LEMMA CallbackKeeps ==
    ASSUME TypeOK, SubmitInv, NEW c \in Callbacks, NEW j \in Jobs, CallbackArrives(c, j)
    PROVE  SubmitInv'
<1>1. /\ c \in Procs /\ JobInv(j) /\ rows[j] \in Row
      /\ pc[c] = "idle" /\ rows[j].task # 0
      /\ UNCHANGED <<rows, made, gen>>
  BY DEF CallbackArrives, Procs, SubmitInv, TypeOK, RowsOK, provider
<1>2. /\ pc'[c] = "poll" /\ at'[c] = j
      /\ \A q \in Procs \ {c} : pc'[q] = pc[q] /\ at'[q] = at[q] /\ seen'[q] = seen[q]
  BY <1>1 DEF CallbackArrives, TypeOK, ProcsOK
<1>3. Exists(rows[j])
  BY <1>1 DEF JobInv
<1>4. ASSUME NEW k \in Jobs
      PROVE  JobInv(k)'
  BY <1>1, <1>2, <1>4 DEF SubmitInv, JobInv, Handling
<1>5. ProcInv(c)'
  BY <1>1, <1>2, <1>3 DEF ProcInv, InSubmit
<1>6. ASSUME NEW q \in Procs \ {c}, pc'[q] # "idle"
      PROVE  ProcInv(q)'
  <2>1. ProcInv(q) /\ at[q] \in Jobs /\ pc'[q] = pc[q] /\ at'[q] = at[q] /\ seen'[q] = seen[q]
    BY <1>2, <1>6 DEF SubmitInv, TypeOK, ProcsOK
  <2>2. InSubmit(q) => at[q] # j
    BY <1>1, <2>1 DEF ProcInv
  <2> QED
    BY <1>1, <1>2, <2>1, <2>2 DEF ProcInv, InSubmit, Handling
<1> QED
  BY <1>4, <1>5, <1>6 DEF SubmitInv

LEMMA EnvironmentKeeps ==
    ASSUME TypeOK, SubmitInv, NEW j \in Jobs,
           Generate(j) \/ LeaseExpires(j) \/ ScheduleArrives(j) \/ Age(j) \/ Sweep(j)
    PROVE  SubmitInv'
<1>1. CASE Generate(j)
  <2>1. /\ UNCHANGED <<rows, pc, at, seen, made>>
        /\ \A k \in Jobs : gen[k] = "success" => gen'[k] = "success"
    BY <1>1 DEF Generate, procs, TypeOK, ProviderOK
  <2> QED
    BY <2>1 DEF SubmitInv, JobInv, ProcInv, InSubmit, Handling, TypeOK, ProcsOK
<1>2. CASE Age(j) \/ Sweep(j)
  <2>1. UNCHANGED <<rows, pc, at, seen, made, gen>>
    BY <1>2 DEF Age, Sweep, procs, provider
  <2> QED
    BY <2>1 DEF SubmitInv, JobInv, ProcInv, InSubmit, Handling
<1>3. CASE LeaseExpires(j) \/ ScheduleArrives(j)
  <2>1. /\ UNCHANGED <<pc, at, seen, made, gen>>
        /\ rows'[j] = [rows[j] EXCEPT !.run = "due"]
        /\ \A k \in Jobs \ {j} : rows'[k] = rows[k]
    BY <1>3 DEF LeaseExpires, ScheduleArrives, procs, provider, TypeOK, RowsOK
  <2>2. rows[j] \in Row
    BY DEF TypeOK, RowsOK
  <2>3. /\ rows'[j].status = rows[j].status
        /\ rows'[j].stage = rows[j].stage
        /\ rows'[j].task = rows[j].task
        /\ Exists(rows'[j]) <=> Exists(rows[j])
        /\ Ended(rows'[j]) <=> Ended(rows[j])
    BY <2>1, <2>2 DEF Row, Exists, Ended
  <2>4. ~ Ended(rows[j]) /\ rows[j].task = 0 => \A p \in Procs : ~ Handling(p, j)
    <3>1. ASSUME NEW p \in Procs, Handling(p, j), ~ Ended(rows[j]), rows[j].task = 0
          PROVE  FALSE
      <4>1. ProcInv(p)
        BY <3>1 DEF Handling, SubmitInv
      <4>2. p \in Workers
        BY <3>1, <4>1 DEF ProcInv, Handling, Procs
      <4>3. ScheduleArrives(j)
        BY <1>3, <3>1, <4>2 DEF LeaseExpires
      <4> QED
        BY <3>1, <4>3 DEF ScheduleArrives, SubmitInv, JobInv
    <3> QED
      BY <3>1
  <2>5. ASSUME NEW k \in Jobs
        PROVE  JobInv(k)'
    <3>1. CASE k = j
      BY <2>1, <2>3, <2>4, <3>1 DEF SubmitInv, JobInv, Handling
    <3>2. CASE k # j
      BY <2>1, <3>2 DEF SubmitInv, JobInv, Handling
    <3> QED
      BY <3>1, <3>2
  <2>6. ASSUME NEW p \in Procs, pc'[p] # "idle"
        PROVE  ProcInv(p)'
    <3>1. ProcInv(p) /\ at[p] \in Jobs
      BY <2>1, <2>6 DEF SubmitInv, TypeOK, ProcsOK
    <3>2. CASE at[p] = j
      <4>1. InSubmit(p) => Ended(rows[j])
        BY <2>1, <2>4, <2>6, <3>1, <3>2 DEF ProcInv, Handling
      <4> QED
        BY <2>1, <2>3, <3>1, <3>2, <4>1 DEF ProcInv, InSubmit, Handling
    <3>3. CASE at[p] # j
      BY <2>1, <3>1, <3>3 DEF ProcInv, InSubmit, Handling
    <3> QED
      BY <3>2, <3>3
  <2> QED
    BY <2>5, <2>6 DEF SubmitInv
<1> QED
  BY <1>1, <1>2, <1>3

-----------------------------------------------------------------------------
(* The theorems.                                                           *)

LEMMA InitSubmit == Init => SubmitInv
BY EndedMeans DEF Init, SubmitInv, JobInv, Handling, NoRow, Ended

LEMMA NextSubmit == TypeOK /\ SubmitInv /\ [Next]_vars => SubmitInv'
<1> SUFFICES ASSUME TypeOK, SubmitInv, [Next]_vars
             PROVE  SubmitInv'
  OBVIOUS
<1>1. CASE UNCHANGED vars
  BY <1>1 DEF vars, procs, provider, SubmitInv, JobInv, ProcInv, InSubmit, Handling
<1> QED
  BY <1>1, CreateStepKeeps, ClaimKeeps, CallbackKeeps, HandlerStepKeeps, FinishKeeps,
     EnvironmentKeeps DEF Next

\* The invariant behind the two theorems below holds of every behaviour.
THEOREM SubmitInvariant == Spec => []SubmitInv
BY TypeCorrect, InitSubmit, NextSubmit, PTL DEF Spec

\* No job makes the provider accept a second task: not by a retry, a lease
\* that expires, a death at any point, or a callback.
THEOREM OneTaskPerJob == Spec => []SubmittedOnce
<1>1. SubmitInv => SubmittedOnce
  BY DEF SubmitInv, JobInv, SubmittedOnce
<1> QED
  BY <1>1, SubmitInvariant, PTL

\* A completed job carries the one task the provider made, and it succeeded.
THEOREM OnlyWhatWasMade == Spec => []DeliveredWhatWasMade
<1>1. SubmitInv => DeliveredWhatWasMade
  BY DEF SubmitInv, JobInv, DeliveredWhatWasMade
<1> QED
  BY <1>1, SubmitInvariant, PTL
-----------------------------------------------------------------------------
(* What any step does to a row.                                            *)

\* The changes a row can go through in one step, seen from outside.
RowStep(old, new) ==
    \/ new = old
    \/ ~ Exists(old) /\ new = NewRow
    \/ /\ Exists(old) /\ ~ Ended(old)
       /\ new.status \in {old.status, "running", "completed", "failed"}
       /\ Exists(new)
       /\ old.task # 0 => new.task = old.task
       /\ Quiet(new)

LEMMA AdvancedStep ==
    ASSUME NEW row \in Row, NEW u \in Updates, Accepts(row, u), u.task # 0 => row.task = 0
    PROVE  RowStep(row, Advanced(row, u))
<1>1. Exists(row) /\ ~ Ended(row)
  BY AcceptedRow
<1>2. Advanced(row, u).status = Coalesce(u.status, row.status, "")
  BY DEF Advanced
<1>3. Advanced(row, u).status \in {row.status, "running", "completed", "failed"}
  BY <1>2 DEF Coalesce, Updates
<1>4. Exists(Advanced(row, u))
  BY <1>1, <1>3 DEF Exists
<1>5. Advanced(row, u).task = Coalesce(u.task, row.task, 0)
  BY DEF Advanced
<1>6. row.task # 0 => Advanced(row, u).task = row.task
  BY <1>5 DEF Coalesce, Updates
<1>7. Quiet(Advanced(row, u))
  BY <1>2, <1>4 DEF Quiet, Advanced, Ended
<1> QED
  BY <1>1, <1>3, <1>4, <1>6, <1>7 DEF RowStep

LEMMA AdvanceToStep ==
    ASSUME TypeOK, SubmitInv, NEW p \in Procs, pc[p] # "idle", NEW u \in Updates,
           NEW label, AdvanceTo(p, u, label), u.task # 0 => pc[p] = "record"
    PROVE  \A j \in Jobs : RowStep(rows[j], rows'[j])
<1>1. at[p] \in Jobs /\ rows[at[p]] \in Row /\ ProcInv(p)
  BY AtStart
<1>2. u.task # 0 => rows[at[p]].task = 0
  BY <1>1 DEF ProcInv, InSubmit
<1>3. CASE Accepts(rows[at[p]], u)
  <2>1. RowStep(rows[at[p]], Advanced(rows[at[p]], u))
    BY <1>1, <1>2, <1>3, AdvancedStep
  <2> QED
    BY <1>1, <1>3, <2>1 DEF AdvanceTo, TypeOK, RowsOK, RowStep
<1>4. CASE ~ Accepts(rows[at[p]], u)
  BY <1>4 DEF AdvanceTo, RowStep
<1> QED
  BY <1>3, <1>4

LEMMA HandlerRowStep ==
    ASSUME TypeOK, SubmitInv, NEW p \in Procs, HandlerStep(p)
    PROVE  \A j \in Jobs : RowStep(rows[j], rows'[j])
<1>1. CASE UNCHANGED rows
  BY <1>1 DEF RowStep
<1>2. CASE StartPreparing(p) \/ StartSubmitting(p) \/ Retry(p) \/ Reschedule(p)
           \/ Complete(p) \/ Fail(p)
  <2>1. PICK u \in Updates : \E label \in Labels : AdvanceTo(p, u, label) /\ u.task = 0
    BY <1>2, UpdatesType DEF StartPreparing, StartSubmitting, Retry, Reschedule, Complete,
                             Fail, Labels, Unchanged, Close
  <2>2. pc[p] # "idle"
    BY <1>2 DEF StartPreparing, StartSubmitting, Retry, Reschedule, Complete, Fail
  <2> QED
    BY <2>1, <2>2, AdvanceToStep
<1>3. CASE RecordTask(p)
  <2>1. seen[p].task \in Nat
    BY DEF TypeOK, ProcsOK, Snapshot
  <2> QED
    BY <1>3, <2>1, UpdatesType, AdvanceToStep DEF RecordTask
<1>4. CASE StartUpload(p)
  <2> DEFINE u == [Unchanged EXCEPT !.stage = "uploading"]
  <2>1. at[p] \in Jobs /\ rows[at[p]] \in Row
    BY <1>4, AtStart DEF StartUpload
  <2>2. CASE Accepts(rows[at[p]], u)
    <3>1. u.task = 0
      BY DEF Unchanged
    <3>2. RowStep(rows[at[p]], Advanced(rows[at[p]], u))
      BY <2>1, <2>2, <3>1, UpdatesType, AdvancedStep
    <3> QED
      BY <1>4, <2>1, <2>2, <3>2 DEF StartUpload, TypeOK, RowsOK, RowStep
  <2>3. CASE ~ Accepts(rows[at[p]], u)
    BY <1>4, <2>3 DEF StartUpload, RowStep
  <2> QED
    BY <2>2, <2>3
<1> QED
  BY <1>1, <1>2, <1>3, <1>4
     DEF HandlerStep, Dispatch, PrepFailed, CreateTask, CreateUnconfirmed, CreateRejected,
         RetryExhausted, Poll, Finish

LEMMA CreateRowStep ==
    ASSUME TypeOK, NEW r \in Requests, CreateStep(r)
    PROVE  \A j \in Jobs : RowStep(rows[j], rows'[j])
<1> PICK k \in Jobs : k = JobOf[r]
  BY RequestsAssumption
<1>1. CASE UNCHANGED rows
  BY <1>1 DEF RowStep
<1>2. CASE Insert(r) /\ ~ Exists(rows[k])
  BY <1>2 DEF Insert, RowStep, TypeOK, RowsOK
<1>3. CASE CloseUnfunded(r) /\ Accepts(rows[k], Close)
  <2>1. Close.task = 0 /\ rows[k] \in Row
    BY DEF Close, Unchanged, TypeOK, RowsOK
  <2>2. RowStep(rows[k], Advanced(rows[k], Close))
    BY <1>3, <2>1, UpdatesType, AdvancedStep
  <2> QED
    BY <1>3, <2>2 DEF CloseUnfunded, RowStep, TypeOK, RowsOK
<1> QED
  BY <1>1, <1>2, <1>3 DEF CreateStep, Insert, Reserve, ReserveUnrecorded, ReserveRefused,
                          CloseUnfunded, CloseUnfundedFails, RequestLost

LEMMA EveryRowStep ==
    ASSUME TypeOK, SubmitInv, \A j \in Jobs : Quiet(rows[j]), [Next]_vars
    PROVE  \A j \in Jobs : RowStep(rows[j], rows'[j])
<1>1. CASE UNCHANGED rows
  BY <1>1 DEF RowStep
<1>2. ASSUME NEW k \in Jobs, Exists(rows[k]), ~ Ended(rows[k]), NEW run \in Runs,
             rows' = [rows EXCEPT ![k].run = run]
      PROVE  \A j \in Jobs : RowStep(rows[j], rows'[j])
  BY <1>2 DEF RowStep, TypeOK, RowsOK, Row, Exists, Quiet, Ended
<1>3. ASSUME NEW w \in Workers, NEW k \in Jobs, Claim(w, k)
      PROVE  \A j \in Jobs : RowStep(rows[j], rows'[j])
  <2>1. Exists(rows[k]) /\ ~ Ended(rows[k])
    BY <1>3, EndedMeans DEF Claim, Claimable, TypeOK, RowsOK, Exists
  <2>2. rows' = [rows EXCEPT ![k].run = "leased"]
    BY <1>3 DEF Claim, Claimed
  <2> QED
    BY <1>2, <2>1, <2>2 DEF Runs
<1>4. ASSUME NEW k \in Jobs, LeaseExpires(k) \/ ScheduleArrives(k)
      PROVE  \A j \in Jobs : RowStep(rows[j], rows'[j])
  <2>1. Exists(rows[k]) /\ ~ Ended(rows[k])
    BY <1>4 DEF Quiet, LeaseExpires, ScheduleArrives
  <2>2. rows' = [rows EXCEPT ![k].run = "due"]
    BY <1>4 DEF LeaseExpires, ScheduleArrives
  <2> QED
    BY <1>2, <2>1, <2>2 DEF Runs
<1> QED
  BY <1>1, <1>3, <1>4, CreateRowStep, HandlerRowStep
     DEF Next, vars, CallbackArrives, Die, Generate, Age, Sweep

LEMMA QuietKeeps ==
    ASSUME NEW old, NEW new, Quiet(old), RowStep(old, new)
    PROVE  Quiet(new)
BY DEF RowStep, Quiet, NewRow, Exists, Ended, Terminal, Transitions, Statuses

-----------------------------------------------------------------------------
(* The ledger.                                                             *)

LEMMA LedgerKinds ==
    ASSUME TypeOK, NEW j \in Jobs
    PROVE  closed[j] \in {"none", "settle", "refund"}
BY DEF TypeOK, LedgerOK

\* A charge nobody touches follows its row.
LEMMA ChargeKeeps ==
    ASSUME TypeOK, NEW j \in Jobs, ChargeInv(j), RowStep(rows[j], rows'[j]),
           reserved'[j] = reserved[j], closed'[j] = closed[j]
    PROVE  ChargeInv(j)'
<1>1. closed[j] # "none" => Ended(rows[j])
  BY EndedMeans, LedgerKinds DEF ChargeInv
<1> QED
  BY <1>1, EndedMeans DEF ChargeInv, RowStep, NewRow, Exists

LEMMA TakeKeeps ==
    ASSUME TypeOK, NEW j \in Jobs, \A k \in Jobs : ChargeInv(k), Exists(rows[j]),
           TakeReservation(j), UNCHANGED rows
    PROVE  \A k \in Jobs : ChargeInv(k)'
<1>1. /\ \A k \in Jobs : closed'[k] = closed[k]
      /\ \A k \in Jobs \ {j} : reserved'[k] = reserved[k]
      /\ reserved[j] = 0 /\ reserved'[j] = Price[j]
  BY DEF TakeReservation, TypeOK, LedgerOK
<1>2. Price[j] \in Nat
  BY PriceAssumption
<1>3. closed[j] = "none"
  BY <1>1 DEF ChargeInv
<1> QED
  BY <1>1, <1>2, <1>3 DEF ChargeInv

LEMMA CloseKeeps ==
    ASSUME TypeOK, NEW j \in Jobs, \A k \in Jobs : ChargeInv(k), Ended(rows[j]),
           CloseCharge(j), UNCHANGED rows
    PROVE  \A k \in Jobs : ChargeInv(k)'
<1>1. CASE ~ OpenCharge(j)
  BY <1>1 DEF CloseCharge, ledger, ChargeInv
<1>2. CASE OpenCharge(j)
  <2>1. /\ \A k \in Jobs : reserved'[k] = reserved[k]
        /\ \A k \in Jobs \ {j} : closed'[k] = closed[k]
        /\ closed'[j] = IF rows[j].status = "failed" THEN "refund" ELSE "settle"
    BY <1>2 DEF CloseCharge, TypeOK, LedgerOK
  <2>2. rows[j].status \in {"completed", "failed"}
    BY EndedMeans DEF ChargeInv
  <2> QED
    BY <1>2, <2>1, <2>2 DEF ChargeInv, OpenCharge
<1> QED
  BY <1>1, <1>2

LEMMA NextCharge ==
    ASSUME TypeOK, LedgerInv, [Next]_vars, \A j \in Jobs : RowStep(rows[j], rows'[j])
    PROVE  \A j \in Jobs : ChargeInv(j)'
<1>1. CASE UNCHANGED ledger
  BY <1>1, ChargeKeeps DEF ledger, LedgerInv
<1>2. ASSUME NEW r \in Requests, Reserve(r) \/ ReserveUnrecorded(r)
      PROVE  \A j \in Jobs : ChargeInv(j)'
  BY <1>2, TakeKeeps, RequestsAssumption DEF Reserve, ReserveUnrecorded, LedgerInv
<1>3. ASSUME NEW p \in Procs, Finish(p)
      PROVE  \A j \in Jobs : ChargeInv(j)'
  <2>1. at[p] \in Jobs /\ Ended(rows[at[p]])
    BY <1>3 DEF Finish, LedgerInv, TypeOK, ProcsOK
  <2> QED
    BY <1>3, <2>1, CloseKeeps DEF Finish, LedgerInv
<1>4. ASSUME NEW k \in Jobs, Sweep(k)
      PROVE  \A j \in Jobs : ChargeInv(j)'
  BY <1>4, CloseKeeps DEF Sweep, LedgerInv
<1> QED
  BY <1>1, <1>2, <1>3, <1>4
     DEF Next, vars, CreateStep, Insert, ReserveRefused, CloseUnfunded, CloseUnfundedFails,
         RequestLost, Claim, CallbackArrives, HandlerStep, Dispatch, StartPreparing,
         StartUpload, PrepFailed, StartSubmitting, CreateTask, CreateUnconfirmed,
         CreateRejected, RecordTask, Retry, RetryExhausted, Poll, Reschedule, Complete, Fail,
         Die, Generate, LeaseExpires, ScheduleArrives, Age

-----------------------------------------------------------------------------
(* Requests and handlers that are about to touch the ledger.               *)

LEMMA NextRequest ==
    ASSUME TypeOK, LedgerInv, [Next]_vars, \A j \in Jobs : RowStep(rows[j], rows'[j]),
           NEW r \in Requests, request'[r] \in {"reserving", "closing"}
    PROVE  Exists(rows'[JobOf[r]])
<1>1. JobOf[r] \in Jobs
  BY RequestsAssumption
<1>2. CASE request[r] \in {"reserving", "closing"}
  BY <1>1, <1>2 DEF LedgerInv, RowStep, Exists
<1>3. CASE request[r] \notin {"reserving", "closing"}
  <2>1. Insert(r)
    BY <1>3 DEF Next, vars, CreateStep, Insert, Reserve, ReserveUnrecorded, ReserveRefused,
          CloseUnfunded, CloseUnfundedFails, RequestLost, Claim, CallbackArrives, HandlerStep,
          Dispatch, StartPreparing, StartUpload, PrepFailed, StartSubmitting, CreateTask,
          CreateUnconfirmed, CreateRejected, RecordTask, Retry, RetryExhausted, Poll,
          Reschedule, Complete, Fail, Finish, Die, Generate, LeaseExpires, ScheduleArrives,
          Age, Sweep, TypeOK
  <2> QED
    BY <1>1, <2>1 DEF Insert, TypeOK, RowsOK, NewRow, Exists
<1> QED
  BY <1>2, <1>3

LEMMA SameOthers ==
    ASSUME TypeOK, NEW q \in Procs, HandlerStep(q) \/ Die(q), NEW p \in Procs \ {q}
    PROVE  pc'[p] = pc[p] /\ at'[p] = at[p]
BY DEF HandlerStep, Dispatch, StartPreparing, StartUpload, PrepFailed, StartSubmitting,
       CreateTask, CreateUnconfirmed, CreateRejected, RecordTask, Retry, RetryExhausted,
       Poll, Reschedule, Complete, Fail, Finish, Die, AdvanceTo, Goto, Idle, TypeOK, ProcsOK

\* Whoever ends a job goes on to close its charge, and nobody else does.
LEMMA NextFinish ==
    ASSUME TypeOK, SubmitInv, LedgerInv, [Next]_vars,
           \A j \in Jobs : RowStep(rows[j], rows'[j]),
           NEW p \in Procs, pc'[p] = "finish"
    PROVE  Ended(rows'[at'[p]])
<1>1. CASE pc[p] = "finish" /\ at'[p] = at[p]
  BY <1>1, EndedMeans DEF LedgerInv, RowStep, Exists, TypeOK, ProcsOK
<1>2. CASE Complete(p) \/ Fail(p)
  <2>1. PICK u : /\ u \in {Close, [Unchanged EXCEPT !.status = "completed", !.stage = "done"]}
                 /\ AdvanceTo(p, u, "finish")
    BY <1>2 DEF Complete, Fail
  <2>2. pc[p] # "idle" /\ at[p] \in Jobs /\ rows[at[p]] \in Row
    BY <1>2, AtStart DEF Complete, Fail
  <2>3. Accepts(rows[at[p]], u)
    BY <2>1, <2>2 DEF AdvanceTo, Idle, TypeOK, ProcsOK
  <2>4. rows'[at[p]] = Advanced(rows[at[p]], u) /\ at'[p] = at[p]
    BY <2>1, <2>2, <2>3, AdvanceFrame DEF Labels
  <2> QED
    BY <2>1, <2>2, <2>4, AfterEnd, EndedMeans
<1>3. (pc[p] = "finish" /\ at'[p] = at[p]) \/ Complete(p) \/ Fail(p)
  <2>1. ASSUME NEW q \in Procs, HandlerStep(q) \/ Die(q)
        PROVE  (pc[p] = "finish" /\ at'[p] = at[p]) \/ Complete(p) \/ Fail(p)
    <3>1. CASE q = p
      BY <2>1, <3>1 DEF HandlerStep, Dispatch, Branch, StartPreparing, StartUpload, PrepFailed,
          StartSubmitting, CreateTask, CreateUnconfirmed, CreateRejected, RecordTask, Retry,
          RetryExhausted, Poll, Reschedule, Finish, Die, AdvanceTo, Goto, Idle, TypeOK, ProcsOK
    <3>2. CASE q # p
      BY <2>1, <3>2, SameOthers
    <3> QED
      BY <3>1, <3>2
  <2>2. ASSUME NEW q \in Procs, NEW j \in Jobs, Claim(q, j) \/ CallbackArrives(q, j)
        PROVE  pc[p] = "finish" /\ at'[p] = at[p]
    BY <2>2 DEF Claim, CallbackArrives, TypeOK, ProcsOK
  <2>3. CASE UNCHANGED procs
    BY <2>3 DEF procs
  <2> QED
    BY <2>1, <2>2, <2>3
       DEF Next, vars, Procs, CreateStep, Insert, Reserve, ReserveUnrecorded, ReserveRefused,
           CloseUnfunded, CloseUnfundedFails, RequestLost, Generate, LeaseExpires,
           ScheduleArrives, Age, Sweep
<1> QED
  BY <1>1, <1>2, <1>3

-----------------------------------------------------------------------------
(* The theorems.                                                           *)

LEMMA InitLedger == Init => LedgerInv
BY PriceAssumption, EndedMeans DEF Init, LedgerInv, ChargeInv, Quiet, NoRow, Exists

LEMMA NextLedger == TypeOK /\ SubmitInv /\ LedgerInv /\ [Next]_vars => LedgerInv'
<1> SUFFICES ASSUME TypeOK, SubmitInv, LedgerInv, [Next]_vars
             PROVE  LedgerInv'
  OBVIOUS
<1>1. \A j \in Jobs : RowStep(rows[j], rows'[j])
  BY EveryRowStep DEF LedgerInv
<1>2. \A j \in Jobs : ChargeInv(j)'
  BY <1>1, NextCharge
<1>3. \A j \in Jobs : Quiet(rows'[j])
  BY <1>1, QuietKeeps DEF LedgerInv
<1>4. \A r \in Requests : request'[r] \in {"reserving", "closing"} => Exists(rows'[JobOf[r]])
  BY <1>1, NextRequest
<1>5. \A p \in Procs : pc'[p] = "finish" => Ended(rows'[at'[p]])
  BY <1>1, NextFinish
<1> QED
  BY <1>2, <1>3, <1>4, <1>5 DEF LedgerInv

\* The ledger's invariant: a charge belongs to a row, is the job's price, and
\* closes only once the job has ended, as that end says.
THEOREM LedgerInvariant == Spec => []LedgerInv
BY TypeCorrect, SubmitInvariant, InitLedger, NextLedger, PTL DEF Spec

\* A refund is only ever given for a job that failed and a settlement only for
\* one that was delivered, whoever closes the charge: the handler that ended
\* the job, or the sweeper after a crash or a late reservation.
THEOREM ChargesFollowOutcome == Spec => []ClosedAsEnded
<1>1. LedgerInv => ClosedAsEnded
  BY DEF LedgerInv, ChargeInv, ClosedAsEnded
<1> QED
  BY <1>1, LedgerInvariant, PTL

\* A finished row never changes again and a task id, once recorded, is never
\* replaced: a late callback or a second worker cannot undo an outcome.
THEOREM OutcomesAreFinal == Spec => FinalIsFinal
<1>1. TypeOK /\ SubmitInv /\ LedgerInv /\ [Next]_vars =>
          [\A j \in Jobs : /\ Ended(rows[j]) => rows'[j] = rows[j]
                           /\ rows[j].task # 0 => rows'[j].task = rows[j].task]_vars
  <2> SUFFICES ASSUME TypeOK, SubmitInv, LedgerInv, [Next]_vars, NEW j \in Jobs
               PROVE  /\ Ended(rows[j]) => rows'[j] = rows[j]
                      /\ rows[j].task # 0 => rows'[j].task = rows[j].task
    OBVIOUS
  <2>1. RowStep(rows[j], rows'[j])
    BY EveryRowStep DEF LedgerInv
  <2>2. ~ Exists(rows[j]) => ~ Ended(rows[j]) /\ rows[j].task = 0
    BY EndedMeans DEF SubmitInv, JobInv, Exists, ProcInv
  <2> QED
    BY <2>1, <2>2 DEF RowStep
<1> QED
  BY <1>1, TypeCorrect, SubmitInvariant, LedgerInvariant, PTL DEF Spec, FinalIsFinal
-----------------------------------------------------------------------------
(* No credit is made or lost.                                              *)

JobsOf(u) == {j \in Jobs : Owner[j] = u}
PaidOf    == [j \in Jobs |-> Paid(j)]

LEMMA PaidCounts ==
    ASSUME TypeOK, NEW u \in Users
    PROVE  Counts(PaidOf, JobsOf(u)) /\ \A j \in Jobs : Paid(j) \in Nat
<1>1. \A j \in Jobs : Paid(j) \in Nat
  BY DEF TypeOK, LedgerOK, Paid
<1>2. IsFiniteSet(JobsOf(u))
  BY JobsAssumption, FS_Subset DEF JobsOf
<1> QED
  BY <1>1, <1>2 DEF Counts, PaidOf, JobsOf

\* What one job takes from its owner's balance is what it has cost, and the other
\* way round.
LEMMA OneAccountMoves ==
    ASSUME TypeOK, TypeOK', CreditsConserved, NEW j \in Jobs,
           \A k \in Jobs \ {j} : Paid(k)' = Paid(k),
           \A u \in Users \ {Owner[j]} : balance'[u] = balance[u],
           balance'[Owner[j]] = balance[Owner[j]] + Paid(j) - Paid(j)'
    PROVE  CreditsConserved'
<1> SUFFICES ASSUME NEW u \in Users
             PROVE  balance'[u] + SumFunctionOnSet(PaidOf', JobsOf(u)) = Grant
  BY DEF CreditsConserved, PaidOf, JobsOf
<1>1. balance[u] + SumFunctionOnSet(PaidOf, JobsOf(u)) = Grant
  BY DEF CreditsConserved, PaidOf, JobsOf
<1>2. Counts(PaidOf, JobsOf(u)) /\ Paid(j) \in Nat
  BY PaidCounts
<1>3. Paid(j)' \in Nat /\ \A k \in Jobs : PaidOf'[k] = Paid(k)' /\ PaidOf[k] = Paid(k)
  BY DEF PaidOf, Paid, TypeOK, LedgerOK
<1>4. SumFunctionOnSet(PaidOf, JobsOf(u)) \in Nat /\ balance[u] \in Nat /\ balance'[u] \in Nat
  BY <1>2, SumNat DEF TypeOK, LedgerOK
<1>5. CASE u # Owner[j]
  <2>1. \A k \in JobsOf(u) : PaidOf[k] = PaidOf'[k]
    BY <1>3, <1>5 DEF JobsOf
  <2>2. SumFunctionOnSet(PaidOf, JobsOf(u)) = SumFunctionOnSet(PaidOf', JobsOf(u))
    BY <1>2, <2>1, SumSame
  <2> QED
    BY <1>1, <1>5, <2>2
<1>6. CASE u = Owner[j]
  <2>1. j \in JobsOf(u) /\ PaidOf'[j] \in Nat /\ \A k \in JobsOf(u) \ {j} : PaidOf[k] = PaidOf'[k]
    BY <1>3, <1>6 DEF JobsOf
  <2>2. SumFunctionOnSet(PaidOf', JobsOf(u))
            = SumFunctionOnSet(PaidOf, JobsOf(u)) - PaidOf[j] + PaidOf'[j]
    BY <1>2, <2>1, SumChange
  <2>3. SumFunctionOnSet(PaidOf', JobsOf(u))
            = SumFunctionOnSet(PaidOf, JobsOf(u)) - Paid(j) + Paid(j)'
    BY <1>3, <2>2
  <2> QED
    BY <1>1, <1>2, <1>3, <1>4, <1>6, <2>3
<1> QED
  BY <1>5, <1>6

LEMMA TakeConserves ==
    ASSUME TypeOK, TypeOK', CreditsConserved, NEW j \in Jobs, ChargeInv(j), TakeReservation(j)
    PROVE  CreditsConserved'
<1>1. /\ \A k \in Jobs : closed'[k] = closed[k]
      /\ \A k \in Jobs \ {j} : reserved'[k] = reserved[k]
      /\ reserved[j] = 0 /\ reserved'[j] = Price[j]
      /\ closed[j] = "none"
  BY DEF TakeReservation, TypeOK, LedgerOK, ChargeInv
<1>2. Owner[j] \in Users /\ Price[j] \in Nat
  BY UsersAssumption, PriceAssumption
<1>3. /\ \A u \in Users \ {Owner[j]} : balance'[u] = balance[u]
      /\ balance'[Owner[j]] = balance[Owner[j]] - Price[j]
      /\ balance[Owner[j]] \in Nat
  BY <1>2 DEF TakeReservation, TypeOK, LedgerOK
<1>4. Paid(j) = 0 /\ Paid(j)' = Price[j] /\ \A k \in Jobs \ {j} : Paid(k)' = Paid(k)
  BY <1>1 DEF Paid
<1> QED
  BY <1>2, <1>3, <1>4, OneAccountMoves

LEMMA CloseConserves ==
    ASSUME TypeOK, TypeOK', CreditsConserved, NEW j \in Jobs, OpenCharge(j), CloseCharge(j)
    PROVE  CreditsConserved'
<1> DEFINE back == IF rows[j].status = "failed" THEN reserved[j] ELSE 0
<1>1. /\ \A k \in Jobs : reserved'[k] = reserved[k]
      /\ \A k \in Jobs \ {j} : closed'[k] = closed[k]
      /\ closed[j] = "none"
      /\ closed'[j] = IF rows[j].status = "failed" THEN "refund" ELSE "settle"
  BY DEF CloseCharge, OpenCharge, TypeOK, LedgerOK
<1>2. Owner[j] \in Users /\ reserved[j] \in Nat /\ back \in Nat
  BY UsersAssumption DEF TypeOK, LedgerOK
<1>3. /\ \A u \in Users \ {Owner[j]} : balance'[u] = balance[u]
      /\ balance'[Owner[j]] = balance[Owner[j]] + back
      /\ balance[Owner[j]] \in Nat
  BY <1>2 DEF CloseCharge, TypeOK, LedgerOK
<1>4. \A k \in Jobs \ {j} : Paid(k)' = Paid(k)
  BY <1>1 DEF Paid
<1>5. Paid(j) = reserved[j] /\ Paid(j)' = reserved[j] - back
  BY <1>1, <1>2 DEF Paid
<1>6. balance'[Owner[j]] = balance[Owner[j]] + Paid(j) - Paid(j)'
  BY <1>2, <1>3, <1>5
<1> QED
  BY <1>3, <1>4, <1>6, OneAccountMoves

\* Nothing else writes the ledger.
LEMMA LedgerSteps ==
    ASSUME TypeOK, LedgerInv, [Next]_vars
    PROVE  \/ UNCHANGED ledger
           \/ \E j \in Jobs : TakeReservation(j)
           \/ \E j \in Jobs : OpenCharge(j) /\ CloseCharge(j)
<1>1. \A j \in Jobs : CloseCharge(j) => UNCHANGED ledger \/ (OpenCharge(j) /\ CloseCharge(j))
  BY DEF CloseCharge
<1>2. ASSUME NEW r \in Requests, Reserve(r) \/ ReserveUnrecorded(r)
      PROVE  \E j \in Jobs : TakeReservation(j)
  BY <1>2, RequestsAssumption DEF Reserve, ReserveUnrecorded
<1>3. ASSUME NEW p \in Procs, Finish(p)
      PROVE  \E j \in Jobs : CloseCharge(j)
  BY <1>3 DEF Finish, LedgerInv, TypeOK, ProcsOK
<1>4. ASSUME NEW k \in Jobs, Sweep(k)
      PROVE  \E j \in Jobs : CloseCharge(j)
  BY <1>4 DEF Sweep
<1>5. UNCHANGED ledger \/ (\E j \in Jobs : TakeReservation(j) \/ CloseCharge(j))
  BY <1>2, <1>3, <1>4
     DEF Next, vars, ledger, CreateStep, Insert, ReserveRefused, CloseUnfunded, CloseUnfundedFails,
         RequestLost, Claim, CallbackArrives, HandlerStep, Dispatch, StartPreparing,
         StartUpload, PrepFailed, StartSubmitting, CreateTask, CreateUnconfirmed,
         CreateRejected, RecordTask, Retry, RetryExhausted, Poll, Reschedule, Complete, Fail,
         Die, Generate, LeaseExpires, ScheduleArrives, Age
<1> QED
  BY <1>1, <1>5

LEMMA InitConserves == Init => CreditsConserved
<1> SUFFICES ASSUME Init, NEW u \in Users
             PROVE  balance[u] + SumFunctionOnSet(PaidOf, JobsOf(u)) = Grant
  BY DEF CreditsConserved, PaidOf, JobsOf
<1>1. balance[u] = Grant /\ \A j \in Jobs : PaidOf[j] = 0
  BY DEF Init, PaidOf, Paid
<1>2. IsFiniteSet(JobsOf(u))
  BY JobsAssumption, FS_Subset DEF JobsOf
<1>3. SumFunctionOnSet(PaidOf, JobsOf(u)) = 0
  BY <1>1, <1>2, SumOfZeros DEF JobsOf
<1> QED
  BY <1>1, <1>3, PriceAssumption

LEMMA NextConserves ==
    TypeOK /\ TypeOK' /\ LedgerInv /\ CreditsConserved /\ [Next]_vars => CreditsConserved'
<1> SUFFICES ASSUME TypeOK, TypeOK', LedgerInv, CreditsConserved, [Next]_vars
             PROVE  CreditsConserved'
  OBVIOUS
<1>1. CASE UNCHANGED ledger
  BY <1>1 DEF CreditsConserved, Paid, ledger
<1>2. ASSUME NEW j \in Jobs, TakeReservation(j)
      PROVE  CreditsConserved'
  BY <1>2, TakeConserves DEF LedgerInv
<1>3. ASSUME NEW j \in Jobs, OpenCharge(j), CloseCharge(j)
      PROVE  CreditsConserved'
  BY <1>3, CloseConserves
<1> QED
  BY <1>1, <1>2, <1>3, LedgerSteps

\* No credit is made or lost: what an account has and what its jobs have cost it
\* add up to what it was given, however many requests reserve, handlers finish,
\* sweeps close and processes die at once.  No charge is taken or given back twice.
THEOREM NoCreditIsLost == Spec => []CreditsConserved
BY TypeCorrect, LedgerInvariant, InitConserves, NextConserves, PTL DEF Spec

-----------------------------------------------------------------------------
(* The promise.  Every step moves one row, one reservation, one closing or *)
(* one task at the provider, and each of these is a step of PaidWork.      *)

LEMMA PhaseMeans ==
    ASSUME NEW row
    PROVE  /\ row.status = "absent" => PhaseOf(row) = "none"
           /\ row.status \in {"queued", "running"} => PhaseOf(row) = "open"
           /\ row.status = "failed" => PhaseOf(row) = "failed"
           /\ row.status = "completed" => PhaseOf(row) = "delivered"
BY DEF PhaseOf

LEMMA ChargeMeans ==
    ASSUME NEW j \in Jobs
    PROVE  /\ closed[j] = "settle" => ChargeOf(j) = "kept"
           /\ closed[j] = "refund" => ChargeOf(j) = "returned"
           /\ closed[j] = "none" /\ reserved[j] > 0 => ChargeOf(j) = "held"
           /\ closed[j] = "none" /\ ~ (reserved[j] > 0) => ChargeOf(j) = "none"
BY DEF ChargeOf

\* A step that changes one row, and neither the ledger nor what the provider took.
LEMMA RowKeepsPromise ==
    ASSUME TypeOK, TypeOK', SubmitInv', NEW k \in Jobs, NEW new,
           rows' = [rows EXCEPT ![k] = new], RowStep(rows[k], new),
           UNCHANGED <<made, ledger>>
    PROVE  [Promise!Next]_Promise!vars
<1>1. /\ Spent' = Spent /\ Charge' = Charge /\ balance' = balance
      /\ Phase' = [Phase EXCEPT ![k] = PhaseOf(new)]
      /\ Phase[k] = PhaseOf(rows[k])
      /\ rows'[k] = new /\ new \in Row /\ rows[k] \in Row
  BY DEF Spent, Charge, ChargeOf, Phase, TypeOK, RowsOK, ledger
<1>2. CASE PhaseOf(new) = PhaseOf(rows[k])
  BY <1>1, <1>2 DEF Promise!vars, Phase
<1>3. CASE ~ Exists(rows[k]) /\ new = NewRow
  <2>1. Phase[k] = "none" /\ PhaseOf(new) = "open"
    BY <1>1, <1>3, PhaseMeans DEF Exists, NewRow
  <2>2. Promise!Accept(k)
    BY <1>1, <2>1 DEF Promise!Accept
  <2> QED
    BY <2>2 DEF Promise!Next
<1>4. CASE /\ Exists(rows[k]) /\ ~ Ended(rows[k])
           /\ new.status \in {rows[k].status, "running", "completed", "failed"}
  <2>1. rows[k].status \in {"queued", "running"} /\ Phase[k] = "open"
    BY <1>1, <1>4, EndedMeans, PhaseMeans DEF Exists, Row, Statuses
  <2>2. CASE new.status \in {"queued", "running"}
    BY <1>1, <1>2, <2>1, <2>2, PhaseMeans
  <2>3. CASE new.status = "failed"
    <3>1. Promise!Fail(k)
      BY <1>1, <2>1, <2>3, PhaseMeans DEF Promise!Fail
    <3> QED
      BY <3>1 DEF Promise!Next
  <2>4. CASE new.status = "completed"
    <3>1. Spent[k]
      <4>1. JobInv(k)'
        BY DEF SubmitInv
      <4>2. made[k] = 1
        BY <1>1, <2>4, <4>1 DEF JobInv
      <4>3. made[k] > 0
        BY <4>2
      <4> QED
        BY <4>3, Zenon DEF Spent
    <3>2. Promise!Deliver(k)
      BY <1>1, <2>1, <2>4, <3>1, PhaseMeans DEF Promise!Deliver
    <3> QED
      BY <3>2 DEF Promise!Next
  <2> QED
    BY <1>4, <2>1, <2>2, <2>3, <2>4
<1> QED
  BY <1>2, <1>3, <1>4 DEF RowStep

\* A reservation, early or late; a free job's changes nothing.
LEMMA TakeKeepsPromise ==
    ASSUME TypeOK, LedgerInv, NEW k \in Jobs, Exists(rows[k]), TakeReservation(k),
           UNCHANGED <<rows, made>>
    PROVE  [Promise!Next]_Promise!vars
<1>1. /\ reserved[k] = 0 /\ closed[k] = "none" /\ Price[k] \in Nat
      /\ balance[Owner[k]] >= Price[k] /\ Owner[k] \in Users
      /\ balance' = [balance EXCEPT ![Owner[k]] = @ - Price[k]]
      /\ reserved' = [reserved EXCEPT ![k] = Price[k]] /\ closed' = closed
  BY PriceAssumption, UsersAssumption DEF TakeReservation, LedgerInv, ChargeInv
<1>2. Phase' = Phase /\ Spent' = Spent
  BY DEF Phase, Spent
<1>3. CASE Price[k] = 0
  <2>1. balance' = balance /\ reserved' = reserved
    BY <1>1, <1>3 DEF TypeOK, LedgerOK
  <2> QED
    BY <1>1, <1>2, <2>1 DEF Promise!vars, Charge, ChargeOf
<1>4. CASE Price[k] > 0
  <2>1. Charge[k] = "none"
    BY <1>1, ChargeMeans DEF Charge
  <2>2. Charge' = [Charge EXCEPT ![k] = "held"]
    BY <1>1, <1>4 DEF Charge, ChargeOf, TypeOK, LedgerOK
  <2>3. Phase[k] # "none"
    BY DEF Phase, PhaseOf, Exists
  <2>4. Promise!Charge(k)
    BY <1>1, <1>2, <1>4, <2>1, <2>2, <2>3 DEF Promise!Charge
  <2> QED
    BY <2>4 DEF Promise!Next
<1> QED
  BY <1>1, <1>3, <1>4

\* A closing, by the handler that ended the job or by the sweeper.
LEMMA CloseKeepsPromise ==
    ASSUME TypeOK, LedgerInv, NEW k \in Jobs, Ended(rows[k]), CloseCharge(k),
           UNCHANGED <<rows, made>>
    PROVE  [Promise!Next]_Promise!vars
<1>1. Phase' = Phase /\ Spent' = Spent
  BY DEF Phase, Spent
<1>2. CASE ~ OpenCharge(k)
  BY <1>1, <1>2 DEF CloseCharge, ledger, Promise!vars, Charge, ChargeOf
<1>3. CASE OpenCharge(k)
  <2>1. /\ reserved[k] = Price[k] /\ Price[k] \in Nat /\ Owner[k] \in Users
        /\ Charge[k] = "held" /\ reserved' = reserved
        /\ rows[k].status \in {"completed", "failed"}
        /\ balance \in [Users -> Nat]
    BY <1>3, ChargeMeans, EndedMeans, PriceAssumption, UsersAssumption
       DEF OpenCharge, LedgerInv, ChargeInv, Charge, CloseCharge, TypeOK, LedgerOK
  <2>2. CASE rows[k].status = "failed"
    <3>1. /\ closed' = [closed EXCEPT ![k] = "refund"]
          /\ balance' = [balance EXCEPT ![Owner[k]] = @ + Price[k]]
      BY <1>3, <2>1, <2>2 DEF CloseCharge
    <3>2. Charge' = [Charge EXCEPT ![k] = "returned"]
      BY <2>1, <3>1 DEF Charge, ChargeOf, TypeOK, LedgerOK
    <3>3. Phase[k] = "failed"
      BY <2>2, PhaseMeans DEF Phase
    <3>4. Promise!Return(k)
      BY <1>1, <2>1, <3>1, <3>2, <3>3 DEF Promise!Return
    <3> QED
      BY <3>4 DEF Promise!Next
  <2>3. CASE rows[k].status = "completed"
    <3>1. /\ closed' = [closed EXCEPT ![k] = "settle"]
          /\ balance' = [balance EXCEPT ![Owner[k]] = @ + 0]
      BY <1>3, <2>3 DEF CloseCharge
    <3> balance' = balance
      BY <2>1, <3>1
    <3>2. Charge' = [Charge EXCEPT ![k] = "kept"]
      BY <2>1, <3>1 DEF Charge, ChargeOf, TypeOK, LedgerOK
    <3>3. Phase[k] = "delivered"
      BY <2>3, PhaseMeans DEF Phase
    <3>4. Promise!Keep(k)
      BY <1>1, <2>1, <3>1, <3>2, <3>3 DEF Promise!Keep
    <3> QED
      BY <3>4 DEF Promise!Next
  <2> QED
    BY <2>1, <2>2, <2>3
<1> QED
  BY <1>2, <1>3

\* The provider takes the task, and it is the first of its job.
LEMMA SpendKeepsPromise ==
    ASSUME TypeOK, SubmitInv, LedgerInv, NEW p \in Procs, pc[p] = "create",
           made' = [made EXCEPT ![at[p]] = @ + 1], UNCHANGED <<rows, ledger>>
    PROVE  [Promise!Next]_Promise!vars
<1> DEFINE k == at[p]
<1>1. k \in Jobs /\ rows[k] \in Row /\ ProcInv(p) /\ JobInv(k) /\ Exists(rows[k])
  BY AtStart DEF SubmitInv, ProcInv
<1>2. made[k] = 0 /\ rows[k].task = 0
  <2>1. ProcInv(p) /\ InSubmit(p)
    BY <1>1 DEF InSubmit
  <2> QED
    BY <2>1 DEF ProcInv
<1>3. Spent[k] = FALSE /\ Spent' = [Spent EXCEPT ![k] = TRUE]
  <2>1. /\ made[k] > 0 <=> FALSE
        /\ made'[k] > 0 <=> TRUE
        /\ \A j \in Jobs \ {k} : made'[j] = made[j]
    BY <1>1, <1>2 DEF TypeOK, ProviderOK
  <2>2. Spent = [j \in Jobs |-> made[j] > 0] /\ Spent' = [j \in Jobs |-> made'[j] > 0]
    BY DEF Spent
  <2>3. (made[k] > 0) = FALSE /\ (made'[k] > 0) = TRUE
    BY <2>1, SMT
  <2>4. Spent[k] = FALSE
    BY <1>1, <2>2, <2>3, Zenon
  <2>5. ASSUME NEW j \in Jobs
        PROVE  Spent'[j] = [Spent EXCEPT ![k] = TRUE][j]
    <3>1. CASE j = k
      BY <1>1, <2>2, <2>3, <3>1, Zenon
    <3>2. CASE j # k
      <4>1. (made'[j] > 0) = (made[j] > 0)
        BY <2>1, <3>2, SMT
      <4> QED
        BY <2>2, <3>2, <4>1, Zenon
    <3> QED
      BY <3>1, <3>2
  <2>6. Spent' = [Spent EXCEPT ![k] = TRUE]
    BY <2>2, <2>5, Zenon
  <2> QED
    BY <2>4, <2>6
<1>4. Phase' = Phase /\ Charge' = Charge /\ balance' = balance
  BY DEF Phase, Charge, ChargeOf, ledger
<1>5. rows[k].status \in {"queued", "running", "failed"}
  BY <1>1, <1>2 DEF JobInv, Row, Statuses, Exists, LedgerInv, ChargeInv
<1>6. Phase[k] \in {"open", "failed"}
  BY <1>1, <1>5, PhaseMeans DEF Phase
<1>7. Promise!Spend(k)
  BY <1>3, <1>4, <1>6 DEF Promise!Spend
<1> QED
  BY <1>1, <1>7 DEF Promise!Next

\* A step of a handler touches the row of its own job at most.
LEMMA OthersStay ==
    ASSUME TypeOK, NEW p \in Procs, HandlerStep(p), NEW j \in Jobs \ {at[p]}
    PROVE  rows'[j] = rows[j]
BY DEF HandlerStep, Dispatch, StartPreparing, StartUpload, PrepFailed, StartSubmitting,
       CreateTask, CreateUnconfirmed, CreateRejected, RecordTask, Retry, RetryExhausted,
       Poll, Reschedule, Complete, Fail, Finish, AdvanceTo, TypeOK, RowsOK

LEMMA HandlerKeepsPromise ==
    ASSUME TypeOK, TypeOK', SubmitInv, SubmitInv', LedgerInv, NEW p \in Procs, HandlerStep(p)
    PROVE  [Promise!Next]_Promise!vars
<1> DEFINE k == at[p]
<1>1. k \in Jobs /\ pc[p] # "idle"
  BY DEF HandlerStep, Dispatch, StartPreparing, StartUpload, PrepFailed, StartSubmitting,
         CreateTask, CreateUnconfirmed, CreateRejected, RecordTask, Retry, RetryExhausted,
         Poll, Reschedule, Complete, Fail, Finish, TypeOK, ProcsOK
<1>2. CASE Finish(p)
  BY <1>1, <1>2, CloseKeepsPromise DEF Finish, LedgerInv, provider
<1>3. CASE CreateTask(p) \/ CreateUnconfirmed(p)
  <2>1. CASE made' = [made EXCEPT ![k] = @ + 1]
    BY <1>3, <2>1, SpendKeepsPromise DEF CreateTask, CreateUnconfirmed
  <2>2. CASE UNCHANGED made
    BY <1>3, <2>2 DEF CreateTask, CreateUnconfirmed, Promise!vars, Phase, Spent, Charge,
                      ChargeOf, ledger
  <2> QED
    BY <1>3, <2>1, <2>2 DEF CreateTask, CreateUnconfirmed, provider
<1>4. CASE ~ (Finish(p) \/ CreateTask(p) \/ CreateUnconfirmed(p))
  <2>1. UNCHANGED <<made, ledger>>
    BY <1>4 DEF HandlerStep, Dispatch, StartPreparing, StartUpload, PrepFailed,
                StartSubmitting, CreateRejected, RecordTask, Retry, RetryExhausted, Poll,
                Reschedule, Complete, Fail, provider
  <2>2. rows' = [rows EXCEPT ![k] = rows'[k]]
    BY <1>1, OthersStay DEF TypeOK, RowsOK
  <2>3. RowStep(rows[k], rows'[k])
    BY <1>1, HandlerRowStep
  <2> QED
    BY <1>1, <2>1, <2>2, <2>3, RowKeepsPromise
<1> QED
  BY <1>2, <1>3, <1>4

LEMMA CreateKeepsPromise ==
    ASSUME TypeOK, TypeOK', SubmitInv', LedgerInv, NEW r \in Requests, CreateStep(r)
    PROVE  [Promise!Next]_Promise!vars
<1> DEFINE k == JobOf[r]
<1>1. k \in Jobs
  BY RequestsAssumption
<1>2. CASE Reserve(r) \/ ReserveUnrecorded(r)
  BY <1>1, <1>2, TakeKeepsPromise DEF Reserve, ReserveUnrecorded, LedgerInv, provider
<1>3. CASE ~ (Reserve(r) \/ ReserveUnrecorded(r))
  <2>1. UNCHANGED <<made, ledger>>
    BY <1>3 DEF CreateStep, Insert, ReserveRefused, CloseUnfunded, CloseUnfundedFails,
                RequestLost, provider
  <2>2. \A j \in Jobs \ {k} : rows'[j] = rows[j]
    BY <1>3 DEF CreateStep, Insert, ReserveRefused, CloseUnfunded, CloseUnfundedFails,
                RequestLost, TypeOK, RowsOK
  <2>3. rows' = [rows EXCEPT ![k] = rows'[k]]
    BY <1>1, <2>2 DEF TypeOK, RowsOK
  <2>4. RowStep(rows[k], rows'[k])
    BY <1>1, CreateRowStep
  <2> QED
    BY <1>1, <2>1, <2>3, <2>4, RowKeepsPromise
<1> QED
  BY <1>2, <1>3

LEMMA NextKeepsPromise ==
    TypeOK /\ TypeOK' /\ SubmitInv /\ SubmitInv' /\ LedgerInv /\ [Next]_vars
        => [Promise!Next]_Promise!vars
<1> SUFFICES ASSUME TypeOK, TypeOK', SubmitInv, SubmitInv', LedgerInv, [Next]_vars
             PROVE  [Promise!Next]_Promise!vars
  OBVIOUS
<1>1. CASE UNCHANGED <<rows, made, ledger>>
  BY <1>1 DEF Promise!vars, Phase, Spent, Charge, ChargeOf, ledger
<1>2. ASSUME NEW k \in Jobs, \/ \E w \in Workers : Claim(w, k)
                             \/ LeaseExpires(k) \/ ScheduleArrives(k)
      PROVE  [Promise!Next]_Promise!vars
  <2>1. /\ UNCHANGED <<made, ledger>>
        /\ \A j \in Jobs \ {k} : rows'[j] = rows[j]
    BY <1>2 DEF Claim, LeaseExpires, ScheduleArrives, provider, TypeOK, RowsOK
  <2>2. rows' = [rows EXCEPT ![k] = rows'[k]]
    BY <2>1 DEF TypeOK, RowsOK
  <2>3. RowStep(rows[k], rows'[k])
    BY EveryRowStep DEF LedgerInv
  <2> QED
    BY <2>1, <2>2, <2>3, RowKeepsPromise
<1>3. ASSUME NEW k \in Jobs, Sweep(k)
      PROVE  [Promise!Next]_Promise!vars
  BY <1>3, CloseKeepsPromise DEF Sweep, provider
<1> QED
  BY <1>1, <1>2, <1>3, HandlerKeepsPromise, CreateKeepsPromise
     DEF Next, vars, provider, CallbackArrives, Die, Generate, Age

LEMMA InitKeepsPromise == Init => Promise!Init
<1> SUFFICES ASSUME Init PROVE Promise!Init
  OBVIOUS
<1>1. Phase = [j \in Jobs |-> "none"]
  BY PhaseMeans DEF Init, Phase, NoRow
<1>2. Charge = [j \in Jobs |-> "none"]
  BY DEF Init, Charge, ChargeOf
<1>3. Spent = [j \in Jobs |-> FALSE]
  <2>1. \A j \in Jobs : (made[j] > 0) = FALSE
    BY SMT DEF Init
  <2> QED
    BY <2>1, Zenon DEF Spent
<1> QED
  BY <1>1, <1>2, <1>3 DEF Promise!Init, Init

\* The pipeline implements the promise: whatever requests, workers, callbacks,
\* the sweeper and deaths do between them, no step of it pays the provider
\* twice, delivers what was not made, charges beyond a balance, or keeps and
\* returns a charge other than once and as the job ended.
THEOREM ImplementsPaidWork == Spec => KeepsPromise
<1>1. Spec => Promise!Init
  BY InitKeepsPromise DEF Spec
<1> QED
  BY <1>1, TypeCorrect, SubmitInvariant, LedgerInvariant, NextKeepsPromise, PTL
     DEF Spec, KeepsPromise, Promise!Spec

=============================================================================
