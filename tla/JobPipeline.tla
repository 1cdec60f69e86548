----------------------------- MODULE JobPipeline -----------------------------
(***************************************************************************)
(* A paid generation job from the request that creates it to the charge    *)
(* that closes it: the job service and its store, the worker pool running  *)
(* transform.Processor, the provider's callback, the credit ledger, and    *)
(* the sweeper.                                                            *)
(*                                                                         *)
(* The parts share three things only: the job's row in Postgres, the       *)
(* ledger in Postgres, and the provider.  Each step below is one statement *)
(* or transaction on one of them, or one provider call, so every           *)
(* interleaving and every crash between two of them is a behaviour.        *)
(***************************************************************************)
EXTENDS JobRow, FiniteSets, Functions

CONSTANTS
    Users,        \* accounts
    Jobs,         \* the jobs that can be asked for: a (user, idempotency key)
    Owner,        \* Owner[j] is the user job j belongs to
    Price,        \* Price[j] is what Reserve takes for j, 0 when it is free
    Grant,        \* what every balance holds at the start
    Requests,     \* calls of jobs.Service.Create
    JobOf,        \* JobOf[r] is the job request r names
    Workers,      \* slots of the worker pool, over every instance of the API
    Callbacks,    \* provider callbacks being handled at once
    NoJob,        \* no job: what an idle process works on
    MaxAttempts,  \* maxAttempts of the processor
    MaxDeaths     \* bound: how many processes may die in a behaviour

ASSUME UsersAssumption == Owner \in [Jobs -> Users]
\* A job's id is a uuid, so there are finitely many to ask for.
ASSUME JobsAssumption == IsFiniteSet(Jobs)
ASSUME PriceAssumption == Price \in [Jobs -> Nat] /\ Grant \in Nat
ASSUME RequestsAssumption == JobOf \in [Requests -> Jobs]
ASSUME ProcsAssumption == NoJob \notin Jobs /\ Workers \cap Callbacks = {}
ASSUME BoundsAssumption == MaxAttempts \in Nat /\ MaxDeaths \in Nat

Procs == Workers \cup Callbacks

VARIABLES
    rows,      \* public.jobs
    aged,      \* the jobs created more than maxJobAge ago
    request,   \* where each call of Create stands
    pc,        \* where each worker or callback stands
    at,        \* the job it works on
    seen,      \* the snapshot of the row it was handed
    made,      \* how many tasks the provider accepted for a job
    gen,       \* what became of the job's task at the provider
    balance,   \* public.credit_balances
    reserved,  \* the amount under the ledger key "reserve:<job>", 0 if unused
    closed,    \* the entry under the ledger key "close:<job>", "none" if unused
    deaths     \* processes that died so far

ledger   == <<balance, reserved, closed>>
provider == <<made, gen>>
procs    == <<pc, at, seen>>
vars     == <<rows, aged, request, procs, provider, ledger, deaths>>

Snapshot == [stage : Stages, task : Nat, retry : Nat]
NoSnapshot == [stage |-> "none", task |-> 0, retry |-> 0]
SnapshotOf(row) == [stage |-> row.stage, task |-> row.task, retry |-> row.retry]

Labels == {"idle", "handle", "prepare", "upload", "create", "record", "retry",
           "poll", "reschedule", "complete", "fail", "finish"}
RequestLabels == {"idle", "reserving", "closing", "accepted", "refused", "lost"}

RowsOK == rows \in [Jobs -> Row] /\ aged \subseteq Jobs

ProcsOK ==
    /\ pc \in [Procs -> Labels]
    /\ at \in [Procs -> Jobs \cup {NoJob}]
    /\ seen \in [Procs -> Snapshot]
    /\ \A p \in Procs : pc[p] # "idle" => at[p] \in Jobs

ProviderOK ==
    /\ made \in [Jobs -> Nat]
    /\ gen \in [Jobs -> {"none", "working", "success", "failed"}]

LedgerOK ==
    /\ balance \in [Users -> Nat]
    /\ reserved \in [Jobs -> Nat]
    /\ closed \in [Jobs -> {"none", "settle", "refund"}]

\* The state stays in the domains of the columns it stands for; above all no
\* balance goes below zero.
TypeOK ==
    /\ RowsOK
    /\ ProcsOK
    /\ ProviderOK
    /\ LedgerOK
    /\ request \in [Requests -> RequestLabels]
    /\ deaths \in 0 .. MaxDeaths

Init ==
    /\ rows = [j \in Jobs |-> NoRow]
    /\ aged = {}
    /\ request = [r \in Requests |-> "idle"]
    /\ pc = [p \in Procs |-> "idle"]
    /\ at = [p \in Procs |-> NoJob]
    /\ seen = [p \in Procs |-> NoSnapshot]
    /\ made = [j \in Jobs |-> 0]
    /\ gen = [j \in Jobs |-> "none"]
    /\ balance = [u \in Users |-> Grant]
    /\ reserved = [j \in Jobs |-> 0]
    /\ closed = [j \in Jobs |-> "none"]
    /\ deaths = 0

-----------------------------------------------------------------------------
(* The ledger.  Each operator is one CreditStore.Apply transaction.        *)

\* Take the price under the reserve key; a free job writes nothing.
TakeReservation(j) ==
    /\ balance[Owner[j]] >= Price[j]
    /\ reserved[j] = 0
    /\ balance' = [balance EXCEPT ![Owner[j]] = @ - Price[j]]
    /\ reserved' = [reserved EXCEPT ![j] = Price[j]]
    /\ UNCHANGED closed

\* Whether the job holds credits nobody has settled or refunded.
OpenCharge(j) == reserved[j] > 0 /\ closed[j] = "none"

\* Mutation of CloseCharge: settling and refunding do not share a key, so a
\* charge that was closed is closed again.
CloseCharge_NoKey(j) ==
    IF reserved[j] = 0
    THEN UNCHANGED ledger
    ELSE LET failed == rows[j].status = "failed"
         IN  /\ balance' = [balance EXCEPT ![Owner[j]] = @ + IF failed THEN reserved[j] ELSE 0]
             /\ closed' = [closed EXCEPT ![j] = IF failed THEN "refund" ELSE "settle"]
             /\ UNCHANGED reserved

\* JobBiller.Finish: a failed job gets its reservation back, any other end
\* keeps it.  The two write the same key, so only the first one counts.
CloseCharge(j) ==
    IF ~ OpenCharge(j)
    THEN UNCHANGED ledger
    ELSE LET back == IF rows[j].status = "failed" THEN reserved[j] ELSE 0
             kind == IF rows[j].status = "failed" THEN "refund" ELSE "settle"
         IN  /\ balance' = [balance EXCEPT ![Owner[j]] = @ + back]
             /\ closed' = [closed EXCEPT ![j] = kind]
             /\ UNCHANGED reserved

-----------------------------------------------------------------------------
(* jobs.Service.Create, one request at a time.                             *)

\* The row goes in, or the key is already taken and the original comes back.
Insert(r) ==
    /\ request[r] = "idle"
    /\ IF Exists(rows[JobOf[r]])
       THEN /\ request' = [request EXCEPT ![r] = "accepted"]
            /\ UNCHANGED rows
       ELSE /\ request' = [request EXCEPT ![r] = "reserving"]
            /\ rows' = [rows EXCEPT ![JobOf[r]] = NewRow]
    /\ UNCHANGED <<aged, procs, provider, ledger, deaths>>

Reserve(r) ==
    /\ request[r] = "reserving"
    /\ TakeReservation(JobOf[r])
    /\ request' = [request EXCEPT ![r] = "accepted"]
    /\ UNCHANGED <<rows, aged, procs, provider, deaths>>

\* The entry is written but its usage record is not, so Reserve reports an error.
ReserveUnrecorded(r) ==
    /\ request[r] = "reserving"
    /\ TakeReservation(JobOf[r])
    /\ request' = [request EXCEPT ![r] = "closing"]
    /\ UNCHANGED <<rows, aged, procs, provider, deaths>>

\* No credits, no price, a limit, a cancelled request or a lost connection.
ReserveRefused(r) ==
    /\ request[r] = "reserving"
    /\ request' = [request EXCEPT ![r] = "closing"]
    /\ UNCHANGED <<rows, aged, procs, provider, ledger, deaths>>

Close == [Unchanged EXCEPT !.status = "failed"]

\* The store's Advance, not the service's: the charge is left to the sweeper.
CloseUnfunded(r) ==
    /\ request[r] = "closing"
    /\ LET j == JobOf[r]
       IN  IF Accepts(rows[j], Close)
           THEN rows' = [rows EXCEPT ![j] = Advanced(@, Close)]
           ELSE UNCHANGED rows
    /\ request' = [request EXCEPT ![r] = "refused"]
    /\ UNCHANGED <<aged, procs, provider, ledger, deaths>>

\* The update runs under the request's own context, which may be cancelled by
\* now; the failure is logged and the row stays as it is.
CloseUnfundedFails(r) ==
    /\ request[r] = "closing"
    /\ request' = [request EXCEPT ![r] = "refused"]
    /\ UNCHANGED <<rows, aged, procs, provider, ledger, deaths>>

\* The process serving the request dies between two of its steps.
RequestLost(r) ==
    /\ request[r] \in {"reserving", "closing"}
    /\ request' = [request EXCEPT ![r] = "lost"]
    /\ UNCHANGED <<rows, aged, procs, provider, ledger, deaths>>

-----------------------------------------------------------------------------
(* The worker pool and transform.Processor.Handle.                         *)

Idle(p) ==
    /\ pc' = [pc EXCEPT ![p] = "idle"]
    /\ at' = [at EXCEPT ![p] = NoJob]
    /\ seen' = [seen EXCEPT ![p] = NoSnapshot]

Goto(p, label) == pc' = [pc EXCEPT ![p] = label] /\ UNCHANGED <<at, seen>>

\* Apply an update to the row of p's job and go on with `label`, or give up if
\* the store refuses it: another path finished the job first.
AdvanceTo(p, u, label) ==
    LET j == at[p]
    IN  IF Accepts(rows[j], u)
        THEN /\ rows' = [rows EXCEPT ![j] = Advanced(@, u)]
             /\ IF label = "idle" THEN Idle(p) ELSE Goto(p, label)
        ELSE Idle(p) /\ UNCHANGED rows

Claim(w, j) ==
    /\ pc[w] = "idle"
    /\ Claimable(rows[j])
    /\ rows' = [rows EXCEPT ![j] = Claimed(@)]
    /\ pc' = [pc EXCEPT ![w] = "handle"]
    /\ at' = [at EXCEPT ![w] = j]
    /\ seen' = [seen EXCEPT ![w] = SnapshotOf(rows[j])]
    /\ UNCHANGED <<aged, request, provider, ledger, deaths>>

\* Mutation of Branch: a job found at "submitting" is submitted again.
Branch_Resubmit(p) ==
    IF at[p] \in aged THEN "fail" ELSE IF seen[p].task # 0 THEN "poll" ELSE "submit"

\* What Handle does with the job it was given, in the order it asks.
Branch(p) ==
    IF at[p] \in aged                        THEN "fail"
    ELSE IF seen[p].task # 0                 THEN "poll"
    ELSE IF seen[p].stage = "submitting"     THEN "fail"
    ELSE "submit"

Dispatch(p) ==
    /\ pc[p] = "handle"
    /\ Branch(p) # "submit"
    /\ Goto(p, Branch(p))
    /\ UNCHANGED <<rows, aged, request, provider, ledger, deaths>>

StartPreparing(p) ==
    /\ pc[p] = "handle"
    /\ Branch(p) = "submit"
    /\ AdvanceTo(p, [Unchanged EXCEPT !.status = "running", !.stage = "preparing"], "prepare")
    /\ UNCHANGED <<aged, request, provider, ledger, deaths>>

\* The source is fetched; the stage is a courtesy, a refused update is ignored.
StartUpload(p) ==
    /\ pc[p] = "prepare"
    /\ LET j == at[p]
           u == [Unchanged EXCEPT !.stage = "uploading"]
       IN  IF Accepts(rows[j], u)
           THEN rows' = [rows EXCEPT ![j] = Advanced(@, u)]
           ELSE UNCHANGED rows
    /\ Goto(p, "upload")
    /\ UNCHANGED <<aged, request, provider, ledger, deaths>>

\* Resolving, fetching, building or uploading failed, for good or for now.
PrepFailed(p) ==
    /\ pc[p] \in {"prepare", "upload"}
    /\ \E label \in {"fail", "retry"} : Goto(p, label)
    /\ UNCHANGED <<rows, aged, request, provider, ledger, deaths>>

\* Recorded before the call that spends money.  A built job comes here from
\* "prepare", a transformation once its input is uploaded.
StartSubmitting(p) ==
    /\ pc[p] \in {"prepare", "upload"}
    /\ AdvanceTo(p, [Unchanged EXCEPT !.stage = "submitting"], "create")
    /\ UNCHANGED <<aged, request, provider, ledger, deaths>>

\* The provider accepts the task, and its answer arrives.
CreateTask(p) ==
    /\ pc[p] = "create"
    /\ LET j == at[p]
       IN  /\ made' = [made EXCEPT ![j] = @ + 1]
           /\ gen' = [gen EXCEPT ![j] = "working"]
           /\ seen' = [seen EXCEPT ![p].task = made[j] + 1]
    /\ pc' = [pc EXCEPT ![p] = "record"]
    /\ UNCHANGED <<rows, aged, request, at, ledger, deaths>>

\* No answer arrives: the task may have been accepted or not.
CreateUnconfirmed(p) ==
    /\ pc[p] = "create"
    /\ \/ /\ made' = [made EXCEPT ![at[p]] = @ + 1]
          /\ gen' = [gen EXCEPT ![at[p]] = "working"]
       \/ UNCHANGED provider
    /\ Goto(p, "fail")
    /\ UNCHANGED <<rows, aged, request, ledger, deaths>>

\* The provider answers that it did not take the task, for now or for good.
CreateRejected(p) ==
    /\ pc[p] = "create"
    /\ \E label \in {"retry", "fail"} : Goto(p, label)
    /\ UNCHANGED <<rows, aged, request, provider, ledger, deaths>>

RecordTask(p) ==
    /\ pc[p] = "record"
    /\ AdvanceTo(p, [Unchanged EXCEPT !.task = seen[p].task, !.stage = "generating",
                                      !.run = "scheduled"], "idle")
    /\ UNCHANGED <<aged, request, provider, ledger, deaths>>

Retry(p) ==
    /\ pc[p] = "retry"
    /\ seen[p].retry + 1 < MaxAttempts
    /\ AdvanceTo(p, [Unchanged EXCEPT !.stage = "preparing", !.retry = 1,
                                      !.run = "scheduled"], "idle")
    /\ UNCHANGED <<aged, request, provider, ledger, deaths>>

RetryExhausted(p) ==
    /\ pc[p] = "retry"
    /\ seen[p].retry + 1 >= MaxAttempts
    /\ Goto(p, "fail")
    /\ UNCHANGED <<rows, aged, request, provider, ledger, deaths>>

\* Mutation of Poll: a callback's word is taken for the outcome.
Poll_Trusting(p) ==
    /\ pc[p] = "poll"
    /\ \E label \in {"complete", "fail", "reschedule"} : Goto(p, label)
    /\ UNCHANGED <<rows, aged, request, provider, ledger, deaths>>

\* GetTask: a finished task says so; a pending one, or a lookup that failed
\* for now, is looked at again; a lookup that failed for good ends the job.
Poll(p) ==
    /\ pc[p] = "poll"
    /\ \/ gen[at[p]] = "success" /\ Goto(p, "complete")
       \/ Goto(p, "fail")
       \/ Goto(p, "reschedule")
    /\ UNCHANGED <<rows, aged, request, provider, ledger, deaths>>

Reschedule(p) ==
    /\ pc[p] = "reschedule"
    /\ AdvanceTo(p, [Unchanged EXCEPT !.run = "scheduled"], "idle")
    /\ UNCHANGED <<aged, request, provider, ledger, deaths>>

Complete(p) ==
    /\ pc[p] = "complete"
    /\ AdvanceTo(p, [Unchanged EXCEPT !.status = "completed", !.stage = "done"], "finish")
    /\ UNCHANGED <<aged, request, provider, ledger, deaths>>

Fail(p) ==
    /\ pc[p] = "fail"
    /\ AdvanceTo(p, Close, "finish")
    /\ UNCHANGED <<aged, request, provider, ledger, deaths>>

\* jobs.Service.finish, after the final update committed.
Finish(p) ==
    /\ pc[p] = "finish"
    /\ CloseCharge(at[p])
    /\ Idle(p)
    /\ UNCHANGED <<rows, aged, request, provider, deaths>>

\* The process dies, its time runs out, or the database stops answering it.
Die(p) ==
    /\ pc[p] # "idle"
    /\ deaths < MaxDeaths
    /\ deaths' = deaths + 1
    /\ Idle(p)
    /\ UNCHANGED <<rows, aged, request, provider, ledger>>

\* A callback names a task; Reconcile reads the row and polls the provider.
CallbackArrives(c, j) ==
    /\ pc[c] = "idle"
    /\ rows[j].task # 0
    /\ ~ Ended(rows[j])
    /\ pc' = [pc EXCEPT ![c] = "poll"]
    /\ at' = [at EXCEPT ![c] = j]
    /\ seen' = [seen EXCEPT ![c] = SnapshotOf(rows[j])]
    /\ UNCHANGED <<rows, aged, request, provider, ledger, deaths>>

-----------------------------------------------------------------------------
(* The provider, the clock and the sweeper.                                *)

Generate(j) ==
    /\ gen[j] = "working"
    /\ \E outcome \in {"success", "failed"} : gen' = [gen EXCEPT ![j] = outcome]
    /\ UNCHANGED <<rows, aged, request, procs, made, ledger, deaths>>

Handling(w, j) == pc[w] # "idle" /\ at[w] = j

\* Mutation of LeaseExpires: the handler may outlive its lease.
LeaseExpires_Early(j) ==
    /\ rows[j].run = "leased"
    /\ rows' = [rows EXCEPT ![j].run = "due"]
    /\ UNCHANGED <<aged, request, procs, provider, ledger, deaths>>

\* A lease runs out only after the handler it was taken for has: HandleTimeout
\* is shorter than Lease.
LeaseExpires(j) ==
    /\ rows[j].run = "leased"
    /\ \A w \in Workers : ~ Handling(w, j)
    /\ rows' = [rows EXCEPT ![j].run = "due"]
    /\ UNCHANGED <<aged, request, procs, provider, ledger, deaths>>

ScheduleArrives(j) ==
    /\ rows[j].run = "scheduled"
    /\ rows' = [rows EXCEPT ![j].run = "due"]
    /\ UNCHANGED <<aged, request, procs, provider, ledger, deaths>>

Age(j) ==
    /\ Exists(rows[j])
    /\ j \notin aged
    /\ aged' = aged \cup {j}
    /\ UNCHANGED <<rows, request, procs, provider, ledger, deaths>>

\* Mutations of Sweep: it does not wait for the job to end; it lists failed
\* jobs only.
Sweep_Early(j) ==
    /\ Exists(rows[j])
    /\ OpenCharge(j)
    /\ CloseCharge(j)
    /\ UNCHANGED <<rows, aged, request, procs, provider, deaths>>
Sweep_FailedOnly(j) ==
    /\ rows[j].status = "failed"
    /\ OpenCharge(j)
    /\ CloseCharge(j)
    /\ UNCHANGED <<rows, aged, request, procs, provider, deaths>>

\* Sweeper.Once on one job OpenJobs lists.
Sweep(j) ==
    /\ Ended(rows[j])
    /\ OpenCharge(j)
    /\ CloseCharge(j)
    /\ UNCHANGED <<rows, aged, request, procs, provider, deaths>>

-----------------------------------------------------------------------------
CreateStep(r) ==
    \/ Insert(r) \/ Reserve(r) \/ ReserveUnrecorded(r) \/ ReserveRefused(r)
    \/ CloseUnfunded(r) \/ CloseUnfundedFails(r) \/ RequestLost(r)

\* Everything a worker or a callback does of its own accord.
HandlerStep(p) ==
    \/ Dispatch(p) \/ StartPreparing(p) \/ StartUpload(p) \/ PrepFailed(p)
    \/ StartSubmitting(p) \/ CreateTask(p) \/ CreateUnconfirmed(p) \/ CreateRejected(p)
    \/ RecordTask(p) \/ Retry(p) \/ RetryExhausted(p) \/ Poll(p) \/ Reschedule(p)
    \/ Complete(p) \/ Fail(p) \/ Finish(p)

Next ==
    \/ \E r \in Requests : CreateStep(r)
    \/ \E w \in Workers, j \in Jobs : Claim(w, j)
    \/ \E c \in Callbacks, j \in Jobs : CallbackArrives(c, j)
    \/ \E p \in Procs : HandlerStep(p) \/ Die(p)
    \/ \E j \in Jobs : Generate(j) \/ LeaseExpires(j) \/ ScheduleArrives(j) \/ Age(j) \/ Sweep(j)

Spec == Init /\ [][Next]_vars

\* The pool ticks every two seconds, oldest due row first, so a due job is
\* claimed in the end; a handler runs on; clocks move; the sweeper ticks.
\* Nothing is assumed of the provider, of callbacks or of the clients.
Fairness ==
    /\ \A p \in Procs : WF_vars(HandlerStep(p))
    /\ \A j \in Jobs : /\ SF_vars(\E w \in Workers : Claim(w, j))
                       /\ WF_vars(LeaseExpires(j))
                       /\ WF_vars(ScheduleArrives(j))
                       /\ WF_vars(Age(j))
                       /\ WF_vars(Sweep(j))

FairSpec == Spec /\ Fairness

-----------------------------------------------------------------------------
(* Safety.                                                                 *)

\* A job never makes the provider accept two tasks, whatever retries, lease
\* expiries, deaths and callbacks do: the rule submit.go records the
\* "submitting" stage for.
SubmittedOnce == \A j \in Jobs : made[j] <= 1

\* A charge is closed the way its job ended: a refund only for a job that
\* failed, a settlement only for one that delivered.  Late reservations, the
\* sweeper and the normal path must agree on it.
ClosedAsEnded ==
    \A j \in Jobs : /\ closed[j] = "settle" => rows[j].status = "completed"
                    /\ closed[j] = "refund" => rows[j].status = "failed"

\* What a job has cost its owner so far.
Paid(j) == IF closed[j] = "refund" THEN 0 ELSE reserved[j]

\* No credit is made or lost: what an account has and what its jobs have cost
\* it always add up to the grant, so no charge or refund happens twice.
CreditsConserved ==
    \A u \in Users :
        balance[u] + SumFunctionOnSet([j \in Jobs |-> Paid(j)], {j \in Jobs : Owner[j] = u}) = Grant

\* A delivered job holds the only task the provider accepted for it, and that
\* task succeeded; a task is never recorded for a job the provider knows
\* nothing of.
DeliveredWhatWasMade ==
    \A j \in Jobs : /\ rows[j].task # 0 => rows[j].task = made[j]
                    /\ rows[j].status = "completed" =>
                           rows[j].task # 0 /\ gen[j] = "success"

-----------------------------------------------------------------------------
(* Why a job is submitted once: the strengthening of SubmittedOnce and     *)
(* DeliveredWhatWasMade that every step preserves.                         *)

\* p may still call the provider, or has just called it.
InSubmit(p) ==
    \/ pc[p] \in {"prepare", "upload", "create", "record", "retry"}
    \/ pc[p] = "handle" /\ seen[p].task = 0

\* A spent task has left its mark in the row, and a row a worker may claim
\* without a task is handled by nobody.
JobInv(j) ==
    /\ made[j] \in {0, 1}
    /\ made[j] = 1 => /\ Exists(rows[j])
                      /\ \/ Ended(rows[j])
                         \/ rows[j].task # 0
                         \/ rows[j].stage = "submitting"
    /\ rows[j].task # 0 => rows[j].task = 1 /\ made[j] = 1
    /\ rows[j].status = "completed" => rows[j].task # 0 /\ gen[j] = "success"
    /\ rows[j].run \in {"due", "scheduled"} /\ ~ Ended(rows[j]) /\ rows[j].task = 0
           => \A p \in Procs : ~ Handling(p, j)

\* What a handler knows of the job it works on.
ProcInv(p) ==
    /\ Exists(rows[at[p]])
    /\ InSubmit(p) => /\ p \in Workers
                      /\ rows[at[p]].task = 0
                      /\ Ended(rows[at[p]]) \/ rows[at[p]].run = "leased"
                      /\ \A q \in Procs \ {p} : ~ Handling(q, at[p])
    /\ ~ InSubmit(p) /\ pc[p] \in {"handle", "poll", "reschedule", "complete"}
           => rows[at[p]].task # 0
    /\ p \in Callbacks => rows[at[p]].task # 0
    /\ pc[p] \in {"prepare", "upload", "create", "retry"} => made[at[p]] = 0
    /\ pc[p] = "handle" /\ seen[p].task = 0 /\ seen[p].stage # "submitting"
           => made[at[p]] = 0
    /\ pc[p] \in {"create", "record"} =>
           Ended(rows[at[p]]) \/ rows[at[p]].stage = "submitting"
    /\ pc[p] = "record" => made[at[p]] = 1 /\ seen[p].task = 1
    /\ pc[p] = "complete" => gen[at[p]] = "success"

SubmitInv ==
    /\ \A j \in Jobs : JobInv(j)
    /\ \A p \in Procs : pc[p] # "idle" => ProcInv(p)

\* What the ledger knows of the jobs: the strengthening of ClosedAsEnded.
ChargeInv(j) ==
    /\ rows[j].status # "ready"
    /\ closed[j] = "settle" => rows[j].status = "completed"
    /\ closed[j] = "refund" => rows[j].status = "failed"
    /\ closed[j] # "none" => reserved[j] > 0
    /\ reserved[j] \in {0, Price[j]}
    /\ reserved[j] > 0 => Exists(rows[j])

\* A row that is over, or is not there yet, waits for nobody.
Quiet(row) == (Exists(row) /\ ~ Ended(row)) \/ row.run = "none"

LedgerInv ==
    /\ \A j \in Jobs : ChargeInv(j) /\ Quiet(rows[j])
    /\ \A r \in Requests : request[r] \in {"reserving", "closing"} => Exists(rows[JobOf[r]])
    /\ \A p \in Procs : pc[p] = "finish" => Ended(rows[at[p]])

-----------------------------------------------------------------------------
(* Action properties.                                                      *)

\* A finished row never changes again, and a recorded task is never replaced:
\* late callbacks and second workers are harmless.
FinalIsFinal ==
    [][\A j \in Jobs : /\ Ended(rows[j]) => rows'[j] = rows[j]
                       /\ rows[j].task # 0 => rows'[j].task = rows[j].task]_vars

-----------------------------------------------------------------------------
(* Liveness, under FairSpec.                                               *)

\* Every job that is created reaches an end, whatever the provider does.
EveryJobEnds == \A j \in Jobs : Exists(rows[j]) ~> Ended(rows[j])

\* Every reservation of a finished job is closed, even when the process that
\* finished it died before closing it or the reservation came in later.
EveryChargeCloses ==
    \A j \in Jobs : (Ended(rows[j]) /\ reserved[j] > 0) ~> closed[j] # "none"

\* Both: nobody waits for ever on a job, or on the credits it holds.
EveryJobAndChargeEnds == EveryJobEnds /\ EveryChargeCloses

-----------------------------------------------------------------------------
(* What the comments say and the code does not do.                         *)

\* jobs/service.go, in Create: "Not charged, so close the job rather than
\* leave it for a worker."
UnfundedIsClosed ==
    \A r \in Requests :
        request[r] = "refused" /\ reserved[JobOf[r]] = 0 => Ended(rows[JobOf[r]])
=============================================================================
