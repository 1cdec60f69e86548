------------------------------ MODULE Workflow ------------------------------
(***************************************************************************)
(* One orchestrator workflow: a plan of steps that the assistant proposes, *)
(* the user approves and the engine carries out, from the requests that    *)
(* store it to the pass that settles it.                                   *)
(*                                                                         *)
(* The actors meet only in the workflow's row, its step rows and the       *)
(* records of the work its steps start (jobs, discoveries, posts).  Each   *)
(* action is one statement on one of them.  A pass of the engine works on  *)
(* the snapshot it read, so the passes of two workers, a request, the      *)
(* user's Start and Cancel, and a crash interleave at every statement.     *)
(*                                                                         *)
(* Steps are numbered in the order the store returns them.  A step is      *)
(*   "inline"    done in one call that may be repeated to the same effect  *)
(*               (a reading, or schedule_post, which sends the step's key) *)
(*   "keyed"     a job, created once for the key the step always sends     *)
(*   "unkeyed"   a discovery, whose submit ignores the key                 *)
(***************************************************************************)
EXTENDS Naturals, Sequences, FiniteSetsExt

CONSTANTS
    StepCount,    \* how many steps there may be
    Needs,        \* Needs[s]: the steps s waits for
    Kind,         \* Kind[s]: how s is carried out
    Gated,        \* the steps that spend money or act in public
    Plans,        \* what the planner may answer
    PlanSteps,    \* PlanSteps[p]: the steps of p; none when p asks a question
    NoPlan,       \* no plan
    Requests,     \* submissions of the workflow under its one idempotency key
    Workers,      \* slots of the workflows pool, over every instance of the API
    MaxDeaths     \* bound: how many passes may die or end on an error

Steps == 1 .. StepCount

ASSUME StepsAssumption ==
    /\ StepCount \in Nat
    /\ Needs \in [Steps -> SUBSET Steps]
    /\ Kind \in [Steps -> {"inline", "keyed", "unkeyed"}]
    /\ Gated \subseteq Steps
ASSUME PlansAssumption ==
    /\ PlanSteps \in [Plans -> SUBSET Steps]
    /\ NoPlan \notin Plans
    /\ \A p \in Plans : \A s \in PlanSteps[p] : Needs[s] \subseteq PlanSteps[p]
ASSUME DeathsAssumption == MaxDeaths \in Nat

VARIABLES
    status,    \* workflows.status, "absent" until the plan is stored
    plan,      \* workflows.plan
    run,       \* workflows.next_run_at: "due", "leased" or "none"
    steps,     \* public.workflow_steps
    work,      \* the records each step has started, oldest first
    consent,   \* the user has approved this plan
    request,   \* where each submission stands
    asked,     \* the plan it made
    skipping,  \* a Cancel has yet to skip the pending steps
    pc,        \* where each worker stands
    snap,      \* the step rows its pass works on
    doing,     \* the step it is carrying out, with the record it follows
    deaths     \* passes that died so far

workflow == <<status, plan, run>>
users    == <<consent, request, asked, skipping>>
passes   == <<pc, snap, doing>>
vars     == <<workflow, steps, work, users, passes, deaths>>

WorkflowStatuses ==
    {"draft", "awaiting_clarification", "awaiting_approval", "approved", "running",
     "completed", "failed", "cancelled"}
IsTerminal(st) == st \in {"completed", "failed", "cancelled"}

StepRow == [status : {"pending", "running", "completed", "failed", "skipped", "absent"},
            ref : Nat]
NoStep  == [status |-> "absent", ref |-> 0]
Pending == [status |-> "pending", ref |-> 0]

Labels == {"idle", "load", "start", "reload", "pass", "ran", "fail"}

\* The rows stay in the domains of their columns, and a step names the record it
\* follows exactly while it has one.
TypeOK ==
    /\ status \in WorkflowStatuses \cup {"absent"}
    /\ plan \in Plans \cup {NoPlan}
    /\ run \in {"none", "due", "leased"}
    /\ steps \in [Steps -> StepRow]
    /\ work \in [Steps -> Seq({"working", "done", "failed"})]
    /\ \A s \in Steps : /\ steps[s].ref <= Len(work[s])
                        /\ steps[s].ref # 0 <=> steps[s].status \in {"running", "completed"}
    /\ consent \in BOOLEAN /\ skipping \in BOOLEAN
    /\ request \in [Requests -> {"idle", "route", "done"}]
    /\ asked \in [Requests -> Plans \cup {NoPlan}]
    /\ pc \in [Workers -> Labels]
    /\ snap \in [Workers -> [Steps -> StepRow]]
    /\ doing \in [Workers -> [step : 0 .. StepCount, ref : Nat]]
    /\ deaths \in 0 .. MaxDeaths

NoSteps == [s \in Steps |-> NoStep]
Nothing == [step |-> 0, ref |-> 0]

Init ==
    /\ status = "absent" /\ plan = NoPlan /\ run = "none"
    /\ steps = NoSteps
    /\ work = [s \in Steps |-> <<>>]
    /\ consent = FALSE /\ skipping = FALSE
    /\ request = [r \in Requests |-> "idle"]
    /\ asked = [r \in Requests |-> NoPlan]
    /\ pc = [w \in Workers |-> "idle"]
    /\ snap = [w \in Workers |-> NoSteps]
    /\ doing = [w \in Workers |-> Nothing]
    /\ deaths = 0

-----------------------------------------------------------------------------
(* The store.                                                              *)

\* Mutation of Moves: the status is set wherever the workflow stands.
Moves_Anyway(from, to) ==
    /\ status' = to
    /\ run' = IF IsTerminal(to) THEN "none" ELSE "due"
    /\ UNCHANGED plan

\* WorkflowStore.Transition, when the row is in one of the states expected: a
\* state that is not final makes the workflow due at once, whoever leases it.
Moves(from, to) ==
    /\ status \in from
    /\ status' = to
    /\ run' = IF IsTerminal(to) THEN "none" ELSE "due"
    /\ UNCHANGED plan

\* Transition, when the answer is that there is no such row.
Transition(from, to) ==
    \/ Moves(from, to)
    \/ status \notin from /\ UNCHANGED workflow

SkipPending ==
    steps' = [s \in Steps |-> IF steps[s].status = "pending"
                              THEN [steps[s] EXCEPT !.status = "skipped"] ELSE steps[s]]

\* Mutation of After: a step that fails keeps the output it had.
After_Keeps(s, to, ref) == [status |-> to, ref |-> ref]

\* What UpdateStep writes; failing a step clears its output, and with it the ref.
After(s, to, ref) == [status |-> to, ref |-> IF to = "failed" THEN 0 ELSE ref]

-----------------------------------------------------------------------------
(* The requests and the user.                                              *)

\* Submit: the plan is stored, unless the key has a workflow already.
Create(r, p) ==
    /\ request[r] = "idle"
    /\ IF status = "absent"
       THEN /\ status' = IF PlanSteps[p] = {} THEN "awaiting_clarification" ELSE "draft"
            /\ plan' = p
            /\ run' = "due"
            /\ steps' = [s \in Steps |-> IF s \in PlanSteps[p] THEN Pending ELSE NoStep]
       ELSE UNCHANGED <<workflow, steps>>
    /\ request' = [request EXCEPT ![r] = IF PlanSteps[p] = {} THEN "done" ELSE "route"]
    /\ asked' = [asked EXCEPT ![r] = p]
    /\ UNCHANGED <<work, consent, skipping, passes, deaths>>

RequiresApproval(p) == PlanSteps[p] \cap Gated # {}

\* The draft is sent where the plan made by this request belongs.
Route(r) ==
    /\ request[r] = "route"
    /\ Transition({"draft"},
           IF RequiresApproval(asked[r]) THEN "awaiting_approval" ELSE "approved")
    /\ request' = [request EXCEPT ![r] = "done"]
    /\ UNCHANGED <<steps, work, consent, asked, skipping, passes, deaths>>

\* The hash the user sends is the stored plan's: no plan is ever replaced.
Approve ==
    /\ Moves({"awaiting_approval"}, "approved")
    /\ consent' = TRUE
    /\ UNCHANGED <<steps, work, request, asked, skipping, passes, deaths>>

Start ==
    /\ Moves({"approved"}, "running")
    /\ UNCHANGED <<steps, work, users, passes, deaths>>

Cancel ==
    /\ Moves({"draft", "awaiting_clarification", "awaiting_approval", "approved", "running"},
             "cancelled")
    /\ skipping' = TRUE
    /\ UNCHANGED <<steps, work, consent, request, asked, passes, deaths>>

CancelSkips ==
    /\ skipping
    /\ SkipPending
    /\ skipping' = FALSE
    /\ UNCHANGED <<workflow, work, consent, request, asked, passes, deaths>>

-----------------------------------------------------------------------------
(* The engine: one pass of a worker.                                       *)

Idle(w) ==
    /\ pc' = [pc EXCEPT ![w] = "idle"]
    /\ snap' = [snap EXCEPT ![w] = NoSteps]
    /\ doing' = [doing EXCEPT ![w] = Nothing]

Goto(w, label) == pc' = [pc EXCEPT ![w] = label] /\ UNCHANGED <<snap, doing>>

Claimable == status \in {"approved", "running"} /\ run = "due"

Claim(w) ==
    /\ pc[w] = "idle"
    /\ Claimable
    /\ run' = "leased"
    /\ Goto(w, "load")
    /\ UNCHANGED <<status, plan, steps, work, users, deaths>>

\* The workflow and its steps are read after the statement that leased it, and
\* again after the transition that started it.
Load(w) ==
    /\ pc[w] \in {"load", "reload"}
    /\ snap' = [snap EXCEPT ![w] = steps]
    /\ pc' = [pc EXCEPT ![w] = IF pc[w] = "load" /\ status = "approved" THEN "start" ELSE "pass"]
    /\ UNCHANGED <<workflow, steps, work, users, doing, deaths>>

Begin(w) ==
    /\ pc[w] = "start"
    /\ Transition({"approved"}, "running")
    /\ IF status = "approved" THEN Goto(w, "reload") ELSE Idle(w)
    /\ UNCHANGED <<steps, work, users, deaths>>

\* The steps the snapshot has running whose record is over.
Over(w) == {s \in Steps : /\ snap[w][s].status = "running"
                          /\ snap[w][s].ref # 0
                          /\ work[s][snap[w][s].ref] # "working"}

\* Mutation of Ready: a step is ready when nothing it needs is still waiting.
Ready_NotPending(w) ==
    {s \in Steps : /\ snap[w][s].status = "pending"
                   /\ \A n \in Needs[s] : snap[w][n].status # "pending"}

\* The pending steps all of whose needs the snapshot has completed.
Ready(w) == {s \in Steps : /\ snap[w][s].status = "pending"
                           /\ \A n \in Needs[s] : snap[w][n].status = "completed"}

Settle(w, s, to, ref) ==
    /\ steps' = [steps EXCEPT ![s] = After(s, to, ref)]
    /\ snap' = [snap EXCEPT ![w][s] = After(s, to, ref)]

\* The first running step whose record is over mirrors it.
Reconcile(w) ==
    /\ pc[w] = "pass"
    /\ Over(w) # {}
    /\ LET s == Min(Over(w))
           ref == snap[w][s].ref
       IN  Settle(w, s, IF work[s][ref] = "done" THEN "completed" ELSE "failed", ref)
    /\ UNCHANGED <<workflow, work, users, pc, doing, deaths>>

\* The next step is refused for good: a tool out of use, an argument an earlier
\* step did not make, a cap that is reached, credits.
Refuse(w) ==
    /\ pc[w] = "pass"
    /\ Over(w) = {} /\ Ready(w) # {}
    /\ Settle(w, Min(Ready(w)), "failed", 0)
    /\ UNCHANGED <<workflow, work, users, pc, doing, deaths>>

\* Mutation of Replays: the key is new in every pass.
Replays_Never(s) == FALSE

\* Whether a submit finds the record an earlier one made under the step's key.
Replays(s) == Kind[s] # "unkeyed" /\ work[s] # <<>>

\* The next step is carried out, or its work started.
Execute(w) ==
    /\ pc[w] = "pass"
    /\ Over(w) = {} /\ Ready(w) # {}
    /\ LET s == Min(Ready(w))
           new == IF Kind[s] = "inline" THEN "done" ELSE "working"
       IN  /\ work' = IF Replays(s) THEN work ELSE [work EXCEPT ![s] = Append(@, new)]
           /\ doing' = [doing EXCEPT ![w] = [step |-> s, ref |-> Len(work'[s])]]
    /\ pc' = [pc EXCEPT ![w] = "ran"]
    /\ UNCHANGED <<workflow, steps, users, snap, deaths>>

\* An inline step is finished and the pass goes on; a submitted one is running
\* and the pass ends.  Neither update looks at the row it writes.
Record(w) ==
    /\ pc[w] = "ran"
    /\ LET s == doing[w].step
       IN  IF Kind[s] = "inline"
           THEN /\ Settle(w, s, "completed", doing[w].ref)
                /\ pc' = [pc EXCEPT ![w] = "pass"]
                /\ doing' = [doing EXCEPT ![w] = Nothing]
           ELSE /\ steps' = [steps EXCEPT ![s] = After(s, "running", doing[w].ref)]
                /\ Idle(w)
    /\ UNCHANGED <<workflow, work, users, deaths>>

Stuck(w) == Over(w) = {} /\ Ready(w) = {}
Has(w, statuses) == \E s \in Steps : snap[w][s].status \in statuses

\* Mutation of SettleFailure: the workflow is failed with its steps as they are.
SettleFailure_NoSkip(w) ==
    /\ pc[w] = "pass"
    /\ Stuck(w) /\ Has(w, {"failed"})
    /\ Goto(w, "fail")
    /\ UNCHANGED <<workflow, steps, work, users, deaths>>

\* A step failed and nothing else can start: what is pending never will.
SettleFailure(w) ==
    /\ pc[w] = "pass"
    /\ Stuck(w) /\ Has(w, {"failed"})
    /\ SkipPending
    /\ Goto(w, "fail")
    /\ UNCHANGED <<workflow, work, users, deaths>>

Fail(w) ==
    /\ pc[w] = "fail"
    /\ Transition({"running"}, "failed")
    /\ Idle(w)
    /\ UNCHANGED <<steps, work, users, deaths>>

\* Every step is over, or the pass waits for one that is running.
Complete(w) ==
    /\ pc[w] = "pass"
    /\ Stuck(w) /\ ~ Has(w, {"failed"})
    /\ IF Has(w, {"pending", "running"})
       THEN UNCHANGED workflow
       ELSE Transition({"running"}, "completed")
    /\ Idle(w)
    /\ UNCHANGED <<steps, work, users, deaths>>

\* The process dies, its time runs out, or a call fails for now.
Die(w) ==
    /\ pc[w] # "idle"
    /\ deaths < MaxDeaths
    /\ deaths' = deaths + 1
    /\ Idle(w)
    /\ UNCHANGED <<workflow, steps, work, users>>

-----------------------------------------------------------------------------
(* The work and the clock.                                                 *)

WorkEnds(s) ==
    /\ \E k \in 1 .. Len(work[s]), to \in {"done", "failed"} :
           work[s][k] = "working" /\ work' = [work EXCEPT ![s][k] = to]
    /\ UNCHANGED <<workflow, steps, users, passes, deaths>>

\* Mutation of LeaseExpires: an expired lease is not looked for.
LeaseExpires_Never == FALSE /\ UNCHANGED vars

\* A lease outlasts the pass it was taken for: EngineTimeout is shorter.
LeaseExpires ==
    /\ run = "leased"
    /\ \A w \in Workers : pc[w] = "idle"
    /\ run' = "due"
    /\ UNCHANGED <<status, plan, steps, work, users, passes, deaths>>

-----------------------------------------------------------------------------
PassStep(w) ==
    \/ Load(w) \/ Begin(w) \/ Reconcile(w) \/ Refuse(w) \/ Execute(w) \/ Record(w)
    \/ SettleFailure(w) \/ Fail(w) \/ Complete(w)

Next ==
    \/ \E r \in Requests : Route(r) \/ \E p \in Plans : Create(r, p)
    \/ Approve \/ Start \/ Cancel \/ CancelSkips
    \/ \E w \in Workers : Claim(w) \/ PassStep(w) \/ Die(w)
    \/ \E s \in Steps : WorkEnds(s)
    \/ LeaseExpires

Spec == Init /\ [][Next]_vars

\* The pool ticks and a pass runs on; a lease runs out; the work a step started
\* ends, as EveryJobEnds of JobPipeline says it does.  The user owes nothing.
Fairness ==
    /\ \A w \in Workers : WF_vars(PassStep(w))
    /\ SF_vars(\E w \in Workers : Claim(w))
    /\ WF_vars(LeaseExpires)
    /\ \A s \in Steps : WF_vars(WorkEnds(s))

FairSpec == Spec /\ Fairness

-----------------------------------------------------------------------------
(* Safety.                                                                 *)

Started(s) == work[s] # <<>>
Made(s)    == \E k \in 1 .. Len(work[s]) : work[s][k] = "done"

\* A step that sends a key starts its work once, whatever passes overlap, die or
\* are repeated: submitOrReconcile relies on it for every job it pays for.
KeyedStartsOnce == \A s \in Steps : Kind[s] # "unkeyed" => Len(work[s]) <= 1

\* Nothing is started before what it needs has been made, though the row of the
\* need may be overwritten by a late worker.
NeedsComeFirst == \A s \in Steps : Started(s) => \A n \in Needs[s] : Made(n)

\* Work is started only for a workflow that has been approved and begun.
OnlyApprovedRuns ==
    (\E s \in Steps : Started(s)) => status \in {"running", "completed", "failed", "cancelled"}

\* Both: work is started in its order, and only for who said yes.
StartsInOrder == NeedsComeFirst /\ OnlyApprovedRuns

\* A workflow the user was told is over has no step left waiting: a failure
\* skips what it cuts off, and nothing completes around a step.
NothingLeftPending ==
    status \in {"completed", "failed"} => \A s \in Steps : steps[s].status # "pending"

\* A workflow reported as completed has done every step of its plan, however its
\* passes overlap, as long as none of them dies.
CompletedIsMade ==
    deaths = 0 /\ status = "completed" => \A s \in PlanSteps[plan] : Made(s)

\* Both: what the user is told of the end is so, step by step.
EndIsWhole == NothingLeftPending /\ CompletedIsMade

-----------------------------------------------------------------------------
(* Why: the strengthening of the above that every step preserves.          *)

Begun  == {"running", "completed", "failed", "cancelled"}
Inside == {"pass", "ran", "fail"}
Busy(w) == pc[w] # "idle"

\* A step's row, in the table or in a snapshot, names a record there is, and says
\* the step is done only if it is.
RowTrue(s, row) ==
    /\ row.ref <= Len(work[s])
    /\ row.ref # 0 <=> row.status \in {"running", "completed"}
    /\ row.status = "completed" => Made(s)

\* What a step has started, for whoever looks at it.
WorkInv ==
    \A s \in Steps :
        /\ RowTrue(s, steps[s])
        /\ \A w \in Workers : RowTrue(s, snap[w][s])
        /\ Kind[s] # "unkeyed" => Len(work[s]) <= 1
        /\ Kind[s] = "inline" => \A k \in 1 .. Len(work[s]) : work[s][k] = "done"
        /\ Started(s) => \A n \in Needs[s] : Made(n)

\* Where a workflow stands and what its steps may be then.
FlowInv ==
    /\ IsTerminal(status) => run = "none"
    /\ skipping => status = "cancelled"
    /\ status # "absent" =>
           plan \in Plans /\ \A s \in PlanSteps[plan] : steps[s].status # "absent"
    /\ status \notin Begun => \A s \in Steps : /\ steps[s].status \in {"pending", "absent"}
                                               /\ ~ Started(s)
    /\ status \in {"completed", "failed"} => \A s \in Steps : steps[s].status # "pending"

\* The lease keeps passes apart but for one: a workflow that starts to run is due
\* again, so a second pass may join the one that started it, and no third.
LeaseInv ==
    /\ \A w \in Workers : Busy(w) => status \in {"approved"} \cup Begun
    /\ status = "approved" => /\ \A w \in Workers : pc[w] \in {"idle", "load", "start"}
                              /\ run = "due" => \A w \in Workers : ~ Busy(w)
    /\ status = "approved" \/ run = "due" =>
           \A v, w \in Workers : Busy(v) /\ Busy(w) => v = w
    /\ \A u, v, w \in Workers : Busy(u) /\ Busy(v) /\ Busy(w) => u = v \/ v = w \/ u = w

\* Nobody but w may have written a step since w read them: no other pass is past
\* its reading.
Fresh(w) == run = "due" \/ \E v \in Workers \ {w} : pc[v] \in {"load", "start", "reload"}

\* What a pass knows of the steps from the snapshot it works on.
PassInv(w) ==
    /\ pc[w] = "ran" => LET s == doing[w].step
                        IN  /\ s \in Steps
                            /\ snap[w][s].status = "pending"
                            /\ doing[w].ref \in 1 .. Len(work[s])
    /\ pc[w] \in Inside =>
           /\ \A s \in Steps : steps[s].status = "pending" => snap[w][s].status = "pending"
           /\ \A s \in PlanSteps[plan] : snap[w][s].status # "absent"
    /\ pc[w] = "fail" => /\ Has(w, {"failed"})
                         /\ \A s \in Steps : steps[s].status # "pending"
    /\ pc[w] \in Inside /\ Fresh(w) =>
           \A s \in Steps : snap[w][s].status = "failed" => steps[s].status = "failed"

\* While no pass dies, a step is skipped in a running workflow only by a pass that
\* is about to fail it, and whoever reads that row reads of the failure too.
SkipInv ==
    deaths = 0 /\ status = "running" =>
        /\ (\E s \in Steps : steps[s].status = "skipped") => \E w \in Workers : pc[w] = "fail"
        /\ \A w \in Workers : pc[w] \in Inside /\ Has(w, {"skipped"}) => Has(w, {"failed"})

\* The inductive invariant, from which the properties above follow.
WorkflowInv ==
    /\ TypeOK
    /\ WorkInv /\ FlowInv /\ LeaseInv /\ SkipInv
    /\ \A w \in Workers : PassInv(w)
    /\ CompletedIsMade

-----------------------------------------------------------------------------
(* Action properties.                                                      *)

\* A workflow that ended never moves again, and no late pass makes it due.
EndIsFinal == [][IsTerminal(status) => UNCHANGED workflow]_vars

-----------------------------------------------------------------------------
(* Liveness, under FairSpec.                                               *)

\* An approved workflow ends, whatever its steps come to and wherever a pass dies.
ApprovedEnds == status = "approved" ~> IsTerminal(status)

-----------------------------------------------------------------------------
(* What the comments say and the code does not do.                         *)

\* orchestrator/service.go, on Submit: "approval-gated plans wait for approval".
GatedWaitsForConsent == \A s \in Gated : Started(s) => consent

\* orchestrator/workflow.go, on StepSkipped: "skipped marks steps abandoned when
\* a dependency failed or the workflow was cancelled."
SkippedWasAbandoned ==
    status = "completed" => \A s \in Steps : steps[s].status # "skipped"

\* orchestrator/runner.go, on SubmitFunc: "The key is stable per step, so a
\* retry that repeats the call can never spend twice."
RetryNeverSpendsTwice == \A s \in Steps : Len(work[s]) <= 1
=============================================================================
