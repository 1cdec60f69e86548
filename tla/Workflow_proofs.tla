--------------------------- MODULE Workflow_proofs ---------------------------
(***************************************************************************)
(* What holds of Workflow for every plan, every set of requests and        *)
(* workers and every bound: WorkflowInv is inductive.                      *)
(*                                                                         *)
(* The argument.  Rows only ever name records that there are, and records  *)
(* only grow (Grows), so whoever has read that a step is completed may     *)
(* rely on it for ever: that orders the work.  The rest is about rows that *)
(* two passes overwrite.  The lease keeps passes apart but for the pair    *)
(* that Begin lets in (LeaseInv); of that pair, whoever reads later reads  *)
(* every failure the other one wrote (PassInv, Fresh).  So a step that is  *)
(* skipped while the workflow still runs belongs to a pass that is about   *)
(* to fail it (SkipInv), and the pass that completes a workflow has seen   *)
(* every step of the plan completed, never one that was cut off.           *)
(***************************************************************************)
EXTENDS Workflow, SequenceTheorems, WellFoundedInduction, TLAPS

-----------------------------------------------------------------------------
(* The step an engine pass takes next is one of those it may take.         *)

LEMMA LeastOf ==
    ASSUME NEW S \in SUBSET Nat, S # {}
    PROVE  \E x \in S : \A y \in S : x <= y
<1> DEFINE R == OpToRel(<, Nat)
<1>1. PICK x \in S : \A y \in S : ~ (<<y, x>> \in R)
  BY NatLessThanWellFounded, WFMin, Zenon
<1>2. R = {ss \in Nat \X Nat : ss[1] < ss[2]}
  BY SMT DEF OpToRel
<1> HIDE DEF R
<1>3. \A a, b \in Nat : b < a => <<b, a>> \in R
  BY <1>2, SMT
<1>4. \A y \in S : ~ (y < x)
  BY <1>1, <1>3
<1>5. \A y \in S : x <= y
  BY <1>4
<1> QED
  BY <1>5

LEMMA MinIn ==
    ASSUME NEW S \in SUBSET Steps, S # {}
    PROVE  Min(S) \in S
<1>1. S \in SUBSET Nat
  BY StepsAssumption DEF Steps
<1>2. \E x \in S : \A y \in S : x <= y
  BY <1>1, LeastOf
<1> QED
  BY <1>2 DEF Min

LEMMA NextStep ==
    ASSUME NEW w \in Workers
    PROVE  /\ Over(w) # {} => Min(Over(w)) \in Over(w) /\ Min(Over(w)) \in Steps
           /\ Ready(w) # {} => Min(Ready(w)) \in Ready(w) /\ Min(Ready(w)) \in Steps
<1>1. Over(w) \in SUBSET Steps /\ Ready(w) \in SUBSET Steps
  BY DEF Over, Ready
<1> QED
  BY <1>1, MinIn

-----------------------------------------------------------------------------
(* The records.                                                            *)

\* What is done stays done, and no record is lost.
Grows ==
    /\ work' \in [Steps -> Seq({"working", "done", "failed"})]
    /\ \A s \in Steps :
          /\ Len(work[s]) <= Len(work'[s])
          /\ \A k \in 1 .. Len(work[s]) : work[s][k] = "done" => work'[s][k] = "done"

LEMMA WorkLen ==
    ASSUME TypeOK, NEW s \in Steps
    PROVE  /\ work[s] \in Seq({"working", "done", "failed"})
           /\ Len(work[s]) \in Nat
           /\ work[s] = <<>> <=> Len(work[s]) = 0
BY DEF TypeOK

LEMMA ExecuteGrows ==
    ASSUME TypeOK, NEW w \in Workers, Execute(w)
    PROVE  \E s \in Steps :
              /\ s = Min(Ready(w)) /\ s \in Ready(w)
              /\ \A t \in Steps \ {s} : work'[t] = work[t]
              /\ \/ work'[s] = work[s] /\ work[s] # <<>> /\ Kind[s] # "unkeyed"
                 \/ /\ Kind[s] # "unkeyed" => work[s] = <<>>
                    /\ work'[s] = Append(work[s], IF Kind[s] = "inline" THEN "done" ELSE "working")
              /\ work' \in [Steps -> Seq({"working", "done", "failed"})]
              /\ doing' = [doing EXCEPT ![w] = [step |-> s, ref |-> Len(work'[s])]]
<1> DEFINE s == Min(Ready(w))
           new == IF Kind[s] = "inline" THEN "done" ELSE "working"
<1>1. s \in Ready(w) /\ s \in Steps
  BY NextStep DEF Execute
<1> HIDE DEF s
<1>2. /\ work' = IF Replays(s) THEN work ELSE [work EXCEPT ![s] = Append(@, new)]
      /\ doing' = [doing EXCEPT ![w] = [step |-> s, ref |-> Len(work'[s])]]
  BY DEF Execute, s
<1>3. /\ work \in [Steps -> Seq({"working", "done", "failed"})]
      /\ Append(work[s], new) \in Seq({"working", "done", "failed"})
  BY <1>1 DEF TypeOK
<1>4. CASE Replays(s)
  BY <1>1, <1>2, <1>3, <1>4 DEF Replays, s
<1>5. CASE ~ Replays(s)
  BY <1>1, <1>2, <1>3, <1>5 DEF Replays, s
<1> QED
  BY <1>4, <1>5

LEMMA WorkEndsGrows ==
    ASSUME TypeOK, NEW s \in Steps, WorkEnds(s)
    PROVE  /\ work' \in [Steps -> Seq({"working", "done", "failed"})]
           /\ \A t \in Steps \ {s} : work'[t] = work[t]
           /\ Len(work'[s]) = Len(work[s])
           /\ \A k \in 1 .. Len(work[s]) : \/ work[s][k] = "working"
                                          \/ work'[s][k] = work[s][k]
<1>1. PICK k \in 1 .. Len(work[s]), to \in {"done", "failed"} :
           work[s][k] = "working" /\ work' = [work EXCEPT ![s][k] = to]
  BY DEF WorkEnds
<1>2. work \in [Steps -> Seq({"working", "done", "failed"})]
  BY DEF TypeOK
<1>3. work' = [work EXCEPT ![s] = [work[s] EXCEPT ![k] = to]]
  BY <1>1
<1>4. /\ [work[s] EXCEPT ![k] = to] \in Seq({"working", "done", "failed"})
      /\ Len([work[s] EXCEPT ![k] = to]) = Len(work[s])
      /\ \A j \in 1 .. Len(work[s]) : j # k => [work[s] EXCEPT ![k] = to][j] = work[s][j]
  BY <1>2, ExceptSeq
<1>5. work'[s] = [work[s] EXCEPT ![k] = to]
  BY <1>2, <1>3
<1>6. work' \in [Steps -> Seq({"working", "done", "failed"})]
  BY <1>2, <1>3, <1>4
<1>7. \A t \in Steps \ {s} : work'[t] = work[t]
  BY <1>2, <1>3
<1> QED
  BY <1>1, <1>4, <1>5, <1>6, <1>7

LEMMA NextGrows ==
    ASSUME TypeOK, [Next]_vars
    PROVE  Grows
<1>1. CASE UNCHANGED work
  BY <1>1, WorkLen DEF Grows, TypeOK
<1>2. ASSUME NEW w \in Workers, Execute(w)
      PROVE  Grows
  <2>1. PICK s \in Steps :
             /\ \A t \in Steps \ {s} : work'[t] = work[t]
             /\ \/ work'[s] = work[s]
                \/ work'[s] = Append(work[s], IF Kind[s] = "inline" THEN "done" ELSE "working")
             /\ work' \in [Steps -> Seq({"working", "done", "failed"})]
    BY <1>2, ExecuteGrows
  <2>2. ASSUME NEW t \in Steps
        PROVE  /\ Len(work[t]) <= Len(work'[t])
               /\ \A k \in 1 .. Len(work[t]) : work[t][k] = "done" => work'[t][k] = "done"
    <3>1. CASE work'[t] = work[t]
      BY <3>1, WorkLen
    <3>2. CASE work'[t] # work[t]
      <4>1. work'[t] = Append(work[t], IF Kind[t] = "inline" THEN "done" ELSE "working")
        BY <2>1, <3>2
      <4> QED
        BY <4>1, WorkLen, AppendProperties
    <3> QED
      BY <3>1, <3>2
  <2> QED
    BY <2>1, <2>2 DEF Grows
<1>3. ASSUME NEW s \in Steps, WorkEnds(s)
      PROVE  Grows
  <2>1. /\ work' \in [Steps -> Seq({"working", "done", "failed"})]
        /\ \A t \in Steps \ {s} : work'[t] = work[t]
        /\ Len(work'[s]) = Len(work[s])
        /\ \A k \in 1 .. Len(work[s]) : \/ work[s][k] = "working"
                                       \/ work'[s][k] = work[s][k]
    BY <1>3, WorkEndsGrows
  <2>2. ASSUME NEW t \in Steps
        PROVE  /\ Len(work[t]) <= Len(work'[t])
               /\ \A k \in 1 .. Len(work[t]) : work[t][k] = "done" => work'[t][k] = "done"
    <3>1. CASE t = s
      BY <2>1, <3>1, WorkLen
    <3>2. CASE t # s
      BY <2>1, <3>2, WorkLen
    <3> QED
      BY <3>1, <3>2
  <2> QED
    BY <2>1, <2>2 DEF Grows
<1> QED
  BY <1>1, <1>2, <1>3
     DEF Next, vars, Route, Create, Approve, Start, Cancel, CancelSkips, Claim, PassStep, Load,
         Begin, Reconcile, Refuse, Record, SettleFailure, Fail, Complete, Die, LeaseExpires

LEMMA MadeStays ==
    ASSUME TypeOK, Grows, NEW s \in Steps, Made(s)
    PROVE  Made(s)'
BY WorkLen DEF Grows, Made

LEMMA RowStaysTrue ==
    ASSUME TypeOK, Grows, NEW s \in Steps, NEW row \in StepRow, RowTrue(s, row)
    PROVE  RowTrue(s, row)'
BY WorkLen, MadeStays DEF RowTrue, Grows, StepRow

-----------------------------------------------------------------------------
(* What a pass writes.                                                     *)

\* The pass of w ends a step, in the table and in its snapshot.
Settles(w) ==
    \E s \in Steps, row \in StepRow :
        /\ pc[w] \in {"pass", "ran"}
        /\ snap[w][s].status \in {"pending", "running"}
        /\ row.status \in {"completed", "failed"}
        /\ RowTrue(s, row)
        /\ steps' = [steps EXCEPT ![s] = row]
        /\ snap' = [snap EXCEPT ![w] = [snap[w] EXCEPT ![s] = row]]
        /\ pc' = [pc EXCEPT ![w] = "pass"]
        /\ doing' \in [Workers -> [step : 0 .. StepCount, ref : Nat]]
        /\ \A v \in Workers \ {w} : doing'[v] = doing[v]
        /\ UNCHANGED <<workflow, work, users, deaths>>

\* The pass of w ends with a step whose work it has submitted.
Submits(w) ==
    \E s \in Steps, row \in StepRow :
        /\ pc[w] = "ran"
        /\ row.status = "running"
        /\ RowTrue(s, row)
        /\ steps' = [steps EXCEPT ![s] = row]
        /\ Idle(w)
        /\ UNCHANGED <<workflow, work, users, deaths>>

LEMMA ReconcileSettles ==
    ASSUME TypeOK, WorkInv, NEW w \in Workers, Reconcile(w)
    PROVE  Settles(w)
<1> DEFINE s == Min(Over(w))
           ref == snap[w][s].ref
           row == After(s, IF work[s][ref] = "done" THEN "completed" ELSE "failed", ref)
<1>1. s \in Over(w) /\ s \in Steps
  BY NextStep DEF Reconcile
<1> HIDE DEF s
<1>2. /\ snap[w][s] \in StepRow /\ snap[w][s].status = "running" /\ ref # 0
      /\ ref \in Nat /\ ref <= Len(work[s]) /\ ref \in 1 .. Len(work[s])
  BY <1>1, WorkLen DEF Over, TypeOK, StepRow, WorkInv, RowTrue
<1>3. row \in StepRow /\ row.status \in {"completed", "failed"}
  BY <1>2 DEF After, StepRow
<1>4. RowTrue(s, row)
  BY <1>2, WorkLen DEF After, RowTrue, Made
<1>5. steps' = [steps EXCEPT ![s] = row] /\ snap' = [snap EXCEPT ![w] = [snap[w] EXCEPT ![s] = row]]
  BY DEF Reconcile, Settle, s
<1>6. pc' = [pc EXCEPT ![w] = "pass"] /\ pc[w] = "pass" /\ UNCHANGED <<workflow, work, users, doing, deaths>>
  BY DEF Reconcile, TypeOK
<1> HIDE DEF row
<1> QED
  BY <1>1, <1>2, <1>3, <1>4, <1>5, <1>6 DEF Settles, TypeOK

LEMMA RefuseSettles ==
    ASSUME TypeOK, WorkInv, NEW w \in Workers, Refuse(w)
    PROVE  Settles(w)
<1> DEFINE s == Min(Ready(w))
           row == After(s, "failed", 0)
<1>1. s \in Ready(w) /\ s \in Steps
  BY NextStep DEF Refuse
<1> HIDE DEF s
<1>2. snap[w][s].status = "pending"
  BY <1>1 DEF Ready
<1>3. row \in StepRow /\ row.status = "failed" /\ RowTrue(s, row)
  BY <1>1, WorkLen DEF After, StepRow, RowTrue
<1>5. steps' = [steps EXCEPT ![s] = row] /\ snap' = [snap EXCEPT ![w] = [snap[w] EXCEPT ![s] = row]]
  BY DEF Refuse, Settle, s
<1>6. pc' = [pc EXCEPT ![w] = "pass"] /\ pc[w] = "pass" /\ UNCHANGED <<workflow, work, users, doing, deaths>>
  BY DEF Refuse, TypeOK
<1> HIDE DEF row
<1> QED
  BY <1>1, <1>2, <1>3, <1>5, <1>6 DEF Settles, TypeOK

LEMMA RecordWrites ==
    ASSUME TypeOK, WorkInv, NEW w \in Workers, PassInv(w), Record(w)
    PROVE  Settles(w) \/ Submits(w)
<1> DEFINE s == doing[w].step
           ref == doing[w].ref
<1>1. s \in Steps /\ snap[w][s].status = "pending" /\ ref \in 1 .. Len(work[s]) /\ pc[w] = "ran"
  BY DEF Record, PassInv
<1>2. CASE Kind[s] = "inline"
  <2> DEFINE row == After(s, "completed", ref)
  <2>1. row \in StepRow /\ row.status = "completed"
    BY <1>1 DEF After, StepRow
  <2>2. work[s][ref] = "done"
    BY <1>1, <1>2 DEF WorkInv
  <2>3. RowTrue(s, row)
    BY <1>1, <2>2, WorkLen DEF After, RowTrue, Made
  <2>4. steps' = [steps EXCEPT ![s] = row] /\ snap' = [snap EXCEPT ![w] = [snap[w] EXCEPT ![s] = row]]
    BY <1>2 DEF Record, Settle
  <2>5. /\ pc' = [pc EXCEPT ![w] = "pass"] /\ UNCHANGED <<workflow, work, users, deaths>>
        /\ doing' = [doing EXCEPT ![w] = Nothing]
    BY <1>2 DEF Record
  <2>6. /\ doing' \in [Workers -> [step : 0 .. StepCount, ref : Nat]]
        /\ \A v \in Workers \ {w} : doing'[v] = doing[v]
    BY <2>5, StepsAssumption DEF TypeOK, Nothing
  <2> HIDE DEF row
  <2> QED
    BY <1>1, <2>1, <2>3, <2>4, <2>5, <2>6 DEF Settles
<1>3. CASE Kind[s] # "inline"
  <2> DEFINE row == After(s, "running", ref)
  <2>1. row \in StepRow /\ row.status = "running"
    BY <1>1 DEF After, StepRow
  <2>2. RowTrue(s, row)
    BY <1>1, WorkLen DEF After, RowTrue
  <2>3. steps' = [steps EXCEPT ![s] = row] /\ Idle(w) /\ UNCHANGED <<workflow, work, users, deaths>>
    BY <1>3 DEF Record
  <2> HIDE DEF row
  <2> QED
    BY <1>1, <2>1, <2>2, <2>3 DEF Submits
<1> QED
  BY <1>2, <1>3

\* Every step, said through what it writes.
WorkerStep(w) ==
    \/ Claim(w) \/ Load(w) \/ Begin(w) \/ Execute(w) \/ SettleFailure(w) \/ Fail(w)
    \/ Complete(w) \/ Die(w) \/ Settles(w) \/ Submits(w)

LEMMA StepForms ==
    ASSUME TypeOK, WorkInv, \A w \in Workers : PassInv(w), Next
    PROVE  \/ \E r \in Requests : Route(r) \/ \E p \in Plans : Create(r, p)
           \/ Approve \/ Start \/ Cancel \/ CancelSkips
           \/ \E w \in Workers : WorkerStep(w)
           \/ \E s \in Steps : WorkEnds(s)
           \/ LeaseExpires
BY ReconcileSettles, RefuseSettles, RecordWrites DEF Next, PassStep, WorkerStep

-----------------------------------------------------------------------------
(* The rows and the records.                                               *)

RowsOf(ss) == ss \in [Steps -> StepRow] /\ \A s \in Steps : RowTrue(s, ss[s])

LEMMA RowsOfAll ==
    ASSUME TypeOK, WorkInv
    PROVE  /\ RowsOf(steps) /\ \A w \in Workers : RowsOf(snap[w])
           /\ RowsOf(NoSteps)
<1>1. NoStep \in StepRow /\ \A s \in Steps : RowTrue(s, NoStep)
  BY WorkLen DEF NoStep, StepRow, RowTrue
<1> QED
  BY <1>1 DEF TypeOK, WorkInv, RowsOf, NoSteps

LEMMA PendingIsTrue ==
    ASSUME TypeOK
    PROVE  Pending \in StepRow /\ \A s \in Steps : RowTrue(s, Pending)
BY WorkLen DEF Pending, StepRow, RowTrue

LEMMA SkipWrites ==
    ASSUME TypeOK, WorkInv, SkipPending
    PROVE  /\ RowsOf(steps')
           /\ \A s \in Steps : IF steps[s].status = "pending" THEN steps'[s].status = "skipped"
                                                             ELSE steps'[s] = steps[s]
<1>1. \A s \in Steps : steps'[s] = IF steps[s].status = "pending"
                                   THEN [steps[s] EXCEPT !.status = "skipped"] ELSE steps[s]
  BY DEF SkipPending
<1>2. ASSUME NEW s \in Steps
      PROVE  /\ steps'[s] \in StepRow /\ RowTrue(s, steps'[s])
             /\ IF steps[s].status = "pending" THEN steps'[s].status = "skipped"
                                               ELSE steps'[s] = steps[s]
  <2>1. steps[s] \in StepRow /\ RowTrue(s, steps[s])
    BY DEF TypeOK, WorkInv
  <2>2. CASE steps[s].status = "pending"
    BY <1>1, <2>1, <2>2, WorkLen DEF StepRow, RowTrue
  <2>3. CASE steps[s].status # "pending"
    BY <1>1, <2>1, <2>3
  <2> QED
    BY <2>2, <2>3
<1>3. steps' \in [Steps -> StepRow]
  BY <1>1, <1>2 DEF SkipPending
<1> QED
  BY <1>2, <1>3 DEF RowsOf

LEMMA IdleWrites ==
    ASSUME TypeOK, WorkInv, NEW w \in Workers, Idle(w)
    PROVE  /\ \A v \in Workers : RowsOf(snap'[v])
           /\ snap' \in [Workers -> [Steps -> StepRow]]
<1>1. snap' = [snap EXCEPT ![w] = NoSteps] /\ snap \in [Workers -> [Steps -> StepRow]]
  BY DEF Idle, TypeOK
<1> QED
  BY <1>1, RowsOfAll DEF RowsOf

LEMMA WorkerWrites ==
    ASSUME TypeOK, WorkInv, NEW w \in Workers, WorkerStep(w)
    PROVE  /\ RowsOf(steps') /\ \A v \in Workers : RowsOf(snap'[v])
           /\ snap' \in [Workers -> [Steps -> StepRow]]
<1>0. /\ RowsOf(steps) /\ \A v \in Workers : RowsOf(snap[v])
      /\ snap \in [Workers -> [Steps -> StepRow]]
  BY RowsOfAll DEF TypeOK
<1>1. CASE Claim(w) \/ Execute(w)
  BY <1>0, <1>1 DEF Claim, Execute, Goto
<1>2. CASE Load(w)
  BY <1>0, <1>2 DEF Load, RowsOf
<1>3. CASE Begin(w)
  BY <1>0, <1>3, IdleWrites DEF Begin, Goto
<1>4. CASE Fail(w) \/ Complete(w) \/ Die(w)
  BY <1>0, <1>4, IdleWrites DEF Fail, Complete, Die
<1>5. CASE SettleFailure(w)
  BY <1>0, <1>5, SkipWrites DEF SettleFailure, Goto
<1>6. CASE Settles(w)
  BY <1>0, <1>6 DEF Settles, RowsOf
<1>7. CASE Submits(w)
  <2>1. RowsOf(steps')
    BY <1>0, <1>7 DEF Submits, RowsOf
  <2> QED
    BY <1>7, <2>1, IdleWrites DEF Submits
<1> QED
  BY <1>1, <1>2, <1>3, <1>4, <1>5, <1>6, <1>7 DEF WorkerStep

LEMMA RowsWritten ==
    ASSUME TypeOK, WorkInv, \A w \in Workers : PassInv(w), [Next]_vars
    PROVE  /\ RowsOf(steps') /\ \A v \in Workers : RowsOf(snap'[v])
           /\ snap' \in [Workers -> [Steps -> StepRow]]
<1>0. /\ RowsOf(steps) /\ \A v \in Workers : RowsOf(snap[v])
      /\ snap \in [Workers -> [Steps -> StepRow]]
  BY RowsOfAll DEF TypeOK
<1>1. CASE UNCHANGED <<steps, snap>>
  BY <1>0, <1>1
<1>2. ASSUME NEW r \in Requests, NEW p \in Plans, Create(r, p)
      PROVE  RowsOf(steps') /\ UNCHANGED snap
  <2>1. CASE status = "absent"
    BY <1>0, <1>2, <2>1, RowsOfAll, PendingIsTrue DEF Create, RowsOf, passes, NoSteps
  <2>2. CASE status # "absent"
    BY <1>0, <1>2, <2>2 DEF Create, passes
  <2> QED
    BY <2>1, <2>2
<1>3. CASE CancelSkips
  BY <1>0, <1>3, SkipWrites DEF CancelSkips, passes
<1> QED
  BY <1>0, <1>1, <1>2, <1>3, StepForms, WorkerWrites
     DEF vars, passes, Route, Approve, Start, Cancel, WorkEnds, LeaseExpires

LEMMA NextWork ==
    ASSUME TypeOK, WorkInv, \A w \in Workers : PassInv(w), [Next]_vars
    PROVE  WorkInv'
<1>0. Grows
  BY NextGrows
<1>1. \A s \in Steps : RowTrue(s, steps[s])' /\ \A w \in Workers : RowTrue(s, snap[w][s])'
  BY <1>0, RowsWritten, RowStaysTrue DEF RowsOf
<1>2. ASSUME NEW s \in Steps
      PROVE  /\ Kind[s] # "unkeyed" => Len(work'[s]) <= 1
             /\ Kind[s] = "inline" => \A k \in 1 .. Len(work'[s]) : work'[s][k] = "done"
             /\ Started(s)' => \A n \in Needs[s] : Made(n)'
  <2>0. /\ Kind[s] # "unkeyed" => Len(work[s]) <= 1
        /\ Kind[s] = "inline" => \A k \in 1 .. Len(work[s]) : work[s][k] = "done"
        /\ Started(s) => \A n \in Needs[s] : Made(n)
        /\ Needs[s] \subseteq Steps
    BY StepsAssumption DEF WorkInv
  <2>1. CASE work'[s] = work[s]
    BY <1>0, <2>0, <2>1, MadeStays DEF Started
  <2>2. ASSUME NEW w \in Workers, Execute(w), work'[s] # work[s]
        PROVE  /\ Kind[s] # "unkeyed" => Len(work'[s]) <= 1
               /\ Kind[s] = "inline" => \A k \in 1 .. Len(work'[s]) : work'[s][k] = "done"
               /\ Started(s)' => \A n \in Needs[s] : Made(n)'
    <3>1. /\ s \in Ready(w)
          /\ Kind[s] # "unkeyed" => work[s] = <<>>
          /\ work'[s] = Append(work[s], IF Kind[s] = "inline" THEN "done" ELSE "working")
      BY <2>2, ExecuteGrows
    <3>2. \A n \in Needs[s] : Made(n)
      BY <2>0, <3>1 DEF Ready, WorkInv, RowTrue
    <3> DEFINE new == IF Kind[s] = "inline" THEN "done" ELSE "working"
    <3>3. /\ work[s] \in Seq({"working", "done", "failed"})
          /\ new \in {"working", "done", "failed"}
      BY WorkLen
    <3>4. Len(work'[s]) = Len(work[s]) + 1 /\ work'[s][Len(work[s]) + 1] = new
      BY <3>1, <3>3, AppendProperties
    <3>5. Kind[s] # "unkeyed" => Len(work'[s]) = 1 /\ work'[s][1] = new
      BY <3>1, <3>4, WorkLen
    <3> HIDE DEF new
    <3>6. Kind[s] = "inline" => Kind[s] # "unkeyed"
      OBVIOUS
    <3>7. Kind[s] = "inline" => \A k \in 1 .. Len(work'[s]) : work'[s][k] = "done"
      BY <3>5, <3>6 DEF new
    <3>8. \A n \in Needs[s] : Made(n)'
      BY <1>0, <2>0, <3>2, MadeStays
    <3>9. Kind[s] # "unkeyed" => Len(work'[s]) <= 1
      <4> SUFFICES ASSUME Kind[s] # "unkeyed" PROVE Len(work'[s]) <= 1
        OBVIOUS
      <4>1. Len(work'[s]) = 1
        BY <3>5
      <4> QED
        BY <4>1
    <3> QED
      BY <3>7, <3>8, <3>9
  <2>3. ASSUME NEW t \in Steps, WorkEnds(t), work'[s] # work[s]
        PROVE  /\ Kind[s] # "unkeyed" => Len(work'[s]) <= 1
               /\ Kind[s] = "inline" => \A k \in 1 .. Len(work'[s]) : work'[s][k] = "done"
               /\ Started(s)' => \A n \in Needs[s] : Made(n)'
    <3>1. /\ t = s /\ Len(work'[s]) = Len(work[s])
          /\ \A k \in 1 .. Len(work[s]) : work[s][k] = "working" \/ work'[s][k] = work[s][k]
      BY <2>3, WorkEndsGrows
    <3>2. Started(s)' => Started(s)
      BY <3>1, <1>0, WorkLen DEF Started, Grows
    <3> QED
      BY <1>0, <2>0, <3>1, <3>2, MadeStays
  <2> QED
    BY <2>1, <2>2, <2>3
       DEF Next, vars, Route, Create, Approve, Start, Cancel, CancelSkips, Claim, PassStep, Load,
           Begin, Reconcile, Refuse, Record, SettleFailure, Fail, Complete, Die, LeaseExpires
<1> QED
  BY <1>1, <1>2 DEF WorkInv

LEMMA NextType ==
    ASSUME TypeOK, WorkInv, \A w \in Workers : PassInv(w), [Next]_vars
    PROVE  TypeOK'
<1>1. /\ work' \in [Steps -> Seq({"working", "done", "failed"})]
      /\ steps' \in [Steps -> StepRow] /\ snap' \in [Workers -> [Steps -> StepRow]]
      /\ \A s \in Steps :
            /\ steps'[s].ref <= Len(work'[s])
            /\ steps'[s].ref # 0 <=> steps'[s].status \in {"running", "completed"}
  BY NextGrows, RowsWritten, NextWork DEF Grows, RowsOf, WorkInv, RowTrue
<1>2. /\ status' \in WorkflowStatuses \cup {"absent"}
      /\ plan' \in Plans \cup {NoPlan}
      /\ run' \in {"none", "due", "leased"}
      /\ consent' \in BOOLEAN /\ skipping' \in BOOLEAN
      /\ deaths' \in 0 .. MaxDeaths
  <2>1. ASSUME NEW w \in Workers, WorkerStep(w)
        PROVE  /\ UNCHANGED <<plan, consent, skipping>>
               /\ status' \in WorkflowStatuses \cup {"absent"}
               /\ run' \in {"none", "due", "leased"}
               /\ deaths' \in 0 .. MaxDeaths
    BY <2>1, DeathsAssumption
       DEF TypeOK, WorkerStep, Claim, Load, Begin, Execute, SettleFailure, Fail, Complete, Die,
           Settles, Submits, Transition, Moves, WorkflowStatuses, workflow, users
  <2>2. ASSUME NEW r \in Requests, Route(r) \/ \E p \in Plans : Create(r, p)
        PROVE  /\ status' \in WorkflowStatuses \cup {"absent"}
               /\ plan' \in Plans \cup {NoPlan}
               /\ run' \in {"none", "due", "leased"}
               /\ UNCHANGED <<deaths, consent, skipping>>
    BY <2>2 DEF TypeOK, Route, Create, Transition, Moves, WorkflowStatuses, workflow, users
  <2>4. ASSUME Approve \/ Start \/ Cancel
        PROVE  /\ status' \in WorkflowStatuses \cup {"absent"}
               /\ run' \in {"none", "due", "leased"}
               /\ consent' \in BOOLEAN /\ skipping' \in BOOLEAN
               /\ UNCHANGED <<deaths, plan>>
    BY <2>4 DEF TypeOK, Approve, Start, Cancel, Moves, WorkflowStatuses, workflow, users
  <2>3. CASE CancelSkips \/ LeaseExpires \/ (\E s \in Steps : WorkEnds(s)) \/ UNCHANGED vars
    BY <2>3 DEF TypeOK, CancelSkips, LeaseExpires, WorkEnds, vars, workflow, users
  <2> QED
    BY <2>1, <2>2, <2>3, <2>4, StepForms DEF TypeOK
<1>3. /\ request' \in [Requests -> {"idle", "route", "done"}]
      /\ asked' \in [Requests -> Plans \cup {NoPlan}]
  <2>1. ASSUME NEW r \in Requests, Route(r) \/ \E p \in Plans : Create(r, p)
        PROVE  /\ request' \in [Requests -> {"idle", "route", "done"}]
               /\ asked' \in [Requests -> Plans \cup {NoPlan}]
    <3>1. /\ request \in [Requests -> {"idle", "route", "done"}]
          /\ asked \in [Requests -> Plans \cup {NoPlan}]
      BY DEF TypeOK
    <3>2. CASE Route(r)
      BY <3>1, <3>2 DEF Route
    <3>3. ASSUME NEW p \in Plans, Create(r, p)
          PROVE  /\ request' \in [Requests -> {"idle", "route", "done"}]
                 /\ asked' \in [Requests -> Plans \cup {NoPlan}]
      <4>1. /\ asked' = [asked EXCEPT ![r] = p]
            /\ \E to \in {"done", "route"} : request' = [request EXCEPT ![r] = to]
        BY <3>3 DEF Create
      <4> QED
        BY <3>1, <4>1
    <3> QED
      BY <2>1, <3>2, <3>3
  <2>2. ASSUME NEW w \in Workers, WorkerStep(w)
        PROVE  UNCHANGED <<request, asked>>
    BY <2>2 DEF WorkerStep, Claim, Load, Begin, Execute, SettleFailure, Fail, Complete, Die,
                Settles, Submits, users
  <2>3. CASE \/ Approve \/ Start \/ Cancel \/ CancelSkips \/ LeaseExpires
             \/ (\E s \in Steps : WorkEnds(s)) \/ UNCHANGED vars
    BY <2>3 DEF TypeOK, Approve, Start, Cancel, CancelSkips, LeaseExpires, WorkEnds, vars, users
  <2> QED
    BY <2>1, <2>2, <2>3, StepForms DEF TypeOK
<1>4. /\ pc' \in [Workers -> Labels]
      /\ doing' \in [Workers -> [step : 0 .. StepCount, ref : Nat]]
  <2>0. /\ pc \in [Workers -> Labels]
        /\ doing \in [Workers -> [step : 0 .. StepCount, ref : Nat]]
        /\ Nothing \in [step : 0 .. StepCount, ref : Nat]
    BY StepsAssumption DEF TypeOK, Nothing
  <2>1. ASSUME NEW w \in Workers, Execute(w)
        PROVE  doing' \in [Workers -> [step : 0 .. StepCount, ref : Nat]]
    <3>1. PICK s \in Steps : doing' = [doing EXCEPT ![w] = [step |-> s, ref |-> Len(work'[s])]]
      BY <2>1, ExecuteGrows
    <3>2. [step |-> s, ref |-> Len(work'[s])] \in [step : 0 .. StepCount, ref : Nat]
      BY <1>1, StepsAssumption DEF Steps
    <3> QED
      BY <2>0, <3>1, <3>2
  <2>2. ASSUME NEW w \in Workers, WorkerStep(w), ~ Execute(w)
        PROVE  doing' \in [Workers -> [step : 0 .. StepCount, ref : Nat]]
    BY <2>0, <2>2 DEF WorkerStep, Claim, Load, Begin, SettleFailure, Fail, Complete, Die, Settles,
                      Submits, Goto, Idle
  <2>3. ASSUME NEW w \in Workers, WorkerStep(w)
        PROVE  pc' \in [Workers -> Labels]
    BY <2>0, <2>3 DEF WorkerStep, Claim, Load, Begin, Execute, SettleFailure, Fail, Complete, Die,
                      Settles, Submits, Goto, Idle, Labels
  <2> QED
    BY <2>0, <2>1, <2>2, <2>3, StepForms
       DEF vars, passes, Route, Create, Approve, Start, Cancel, CancelSkips, WorkEnds, LeaseExpires
<1> QED
  BY <1>1, <1>2, <1>3, <1>4 DEF TypeOK

-----------------------------------------------------------------------------
(* The lease.                                                              *)

\* Where a step of worker v may leave it, and that it leaves the others alone.
LEMMA WorkerMoves ==
    ASSUME TypeOK, NEW v \in Workers, WorkerStep(v)
    PROVE  /\ \A w \in Workers \ {v} : pc'[w] = pc[w] /\ doing'[w] = doing[w] /\ snap'[w] = snap[w]
           /\ Claim(v) \/ Busy(v)
BY DEF WorkerStep, Claim, Load, Begin, Execute, SettleFailure, Fail, Complete, Die, Settles,
       Submits, Goto, Idle, Busy, TypeOK

LEMMA NextLease ==
    ASSUME TypeOK, WorkInv, LeaseInv, FlowInv, \A w \in Workers : PassInv(w), [Next]_vars
    PROVE  LeaseInv'
<1>1. CASE UNCHANGED <<status, run, pc>>
  BY <1>1 DEF LeaseInv, Busy
<1>2. ASSUME NEW r \in Requests, Route(r) \/ \E p \in Plans : Create(r, p)
      PROVE  LeaseInv'
  <2>1. UNCHANGED pc
    BY <1>2 DEF Route, Create, passes
  <2>2. UNCHANGED <<status, run>> \/ (status \in {"absent", "draft"} /\ status' \notin {"absent"})
    BY <1>2 DEF Route, Create, Transition, Moves, workflow
  <2>3. status \in {"absent", "draft"} => \A w \in Workers : ~ Busy(w)
    BY DEF LeaseInv, Begun
  <2> QED
    BY <1>1, <2>1, <2>2, <2>3 DEF LeaseInv, Busy
<1>3. CASE Approve
  <2>1. UNCHANGED pc /\ \A w \in Workers : ~ Busy(w)
    BY <1>3 DEF Approve, Moves, LeaseInv, Begun, passes
  <2> QED
    BY <2>1 DEF LeaseInv, Busy
<1>4. CASE Start
  <2>1. UNCHANGED pc /\ status = "approved" /\ status' = "running"
    BY <1>4 DEF Start, Moves, passes
  <2> QED
    BY <2>1 DEF LeaseInv, Busy, Begun
<1>5. CASE Cancel
  <2>1. UNCHANGED pc /\ status' = "cancelled" /\ run' = "none"
    BY <1>5 DEF Cancel, Moves, passes, IsTerminal
  <2> QED
    BY <2>1 DEF LeaseInv, Busy, Begun
<1>6. CASE LeaseExpires
  <2>1. UNCHANGED <<status, pc>> /\ \A w \in Workers : ~ Busy(w)
    BY <1>6 DEF LeaseExpires, passes, Busy
  <2> QED
    BY <2>1 DEF LeaseInv, Busy
<1>7. ASSUME NEW v \in Workers, Claim(v)
      PROVE  LeaseInv'
  <2>1. /\ ~ Busy(v) /\ run = "due" /\ status \in {"approved", "running"}
        /\ status' = status /\ run' = "leased" /\ pc'[v] = "load"
        /\ \A w \in Workers \ {v} : pc'[w] = pc[w]
    BY <1>7 DEF Claim, Claimable, Goto, TypeOK, Busy
  <2> QED
    BY <2>1 DEF LeaseInv, Busy, Begun
<1>8. ASSUME NEW v \in Workers, WorkerStep(v), ~ Claim(v)
      PROVE  LeaseInv'
  <2>0. Busy(v) /\ \A w \in Workers \ {v} : pc'[w] = pc[w]
    BY <1>8, WorkerMoves
  <2>1. CASE UNCHANGED <<status, run>> /\ (status = "approved" => pc'[v] \in {"idle", "load", "start"})
    BY <2>0, <2>1 DEF LeaseInv, Busy
  <2>2. CASE status = "approved" /\ status' = "running"
    BY <2>0, <2>2 DEF LeaseInv, Busy, Begun
  <2>3. CASE status = "running" /\ status' \in {"completed", "failed"} /\ run' = "none"
    BY <2>0, <2>3 DEF LeaseInv, Busy, Begun
  <2>4. status = "approved" => pc[v] \in {"load", "start"}
    BY <2>0 DEF LeaseInv, Busy
  <2> QED
    BY <1>8, <2>1, <2>2, <2>3, <2>4
       DEF WorkerStep, Load, Begin, Execute, SettleFailure, Fail, Complete, Die, Settles, Submits,
           Goto, Idle, Transition, Moves, IsTerminal, workflow, TypeOK
<1> QED
  BY <1>1, <1>2, <1>3, <1>4, <1>5, <1>6, <1>7, <1>8, StepForms
     DEF vars, workflow, passes, CancelSkips, WorkEnds

-----------------------------------------------------------------------------
(* The workflow and its steps.                                             *)

LEMMA WorkerStatus ==
    ASSUME TypeOK, LeaseInv, NEW v \in Workers, WorkerStep(v)
    PROVE  /\ status \in {"approved"} \cup Begun
           /\ \/ UNCHANGED <<status, run>>
              \/ Claim(v) /\ status' = status /\ status \in {"approved", "running"}
              \/ status = "approved" /\ status' = "running" /\ run' = "due" /\ UNCHANGED steps
              \/ status = "running" /\ run' = "none" /\ UNCHANGED steps
                 /\ \/ status' = "failed" /\ pc[v] = "fail"
                    \/ status' = "completed" /\ Complete(v)
           /\ status = "approved" => UNCHANGED <<steps, work>>
           /\ UNCHANGED plan
<1>1. Claim(v) => status \in {"approved", "running"}
  BY DEF Claim, Claimable
<1>2. status \in {"approved"} \cup Begun
  BY <1>1, WorkerMoves DEF LeaseInv, Begun
<1>3. status = "approved" => Claim(v) \/ pc[v] \in {"load", "start"}
  BY WorkerMoves DEF LeaseInv, Busy
<1>4. status = "approved" => UNCHANGED <<steps, work>>
  BY <1>3 DEF WorkerStep, Claim, Load, Begin, Execute, SettleFailure, Fail, Complete, Die, Settles,
              Submits
<1>5. UNCHANGED plan
  BY DEF WorkerStep, Claim, Load, Begin, Execute, SettleFailure, Fail, Complete, Die, Settles,
         Submits, Transition, Moves, workflow
<1>6. CASE Claim(v)
  BY <1>1, <1>2, <1>4, <1>5, <1>6 DEF Claim
<1>7. CASE Begin(v)
  BY <1>2, <1>4, <1>5, <1>7 DEF Begin, Transition, Moves, IsTerminal, workflow
<1>8. CASE Fail(v) \/ Complete(v)
  BY <1>2, <1>4, <1>5, <1>8 DEF Fail, Complete, Transition, Moves, IsTerminal, workflow
<1>9. CASE ~ (Claim(v) \/ Begin(v) \/ Fail(v) \/ Complete(v))
  <2>1. UNCHANGED <<status, run>>
    BY <1>9 DEF WorkerStep, Load, Execute, SettleFailure, Die, Settles, Submits, workflow
  <2> QED
    BY <1>2, <1>4, <1>5, <2>1
<1> QED
  BY <1>6, <1>7, <1>8, <1>9

LEMMA WorkerRows ==
    ASSUME TypeOK, WorkInv, NEW v \in Workers, WorkerStep(v), NEW s \in Steps
    PROVE  steps'[s] = steps[s] \/ steps'[s].status \notin {"pending", "absent"}
<1>1. CASE UNCHANGED steps
  BY <1>1
<1>2. CASE SettleFailure(v)
  BY <1>2, SkipWrites DEF SettleFailure
<1>3. CASE Settles(v) \/ Submits(v)
  <2>1. PICK t \in Steps, row \in StepRow : /\ steps' = [steps EXCEPT ![t] = row]
                                            /\ row.status \in {"completed", "failed", "running"}
    BY <1>3 DEF Settles, Submits
  <2> QED
    BY <2>1 DEF TypeOK
<1> QED
  BY <1>1, <1>2, <1>3 DEF WorkerStep, Claim, Load, Begin, Execute, Fail, Complete, Die

\* A step of a stored plan neither comes back to "pending" nor goes away.
LEMMA RowsMove ==
    ASSUME TypeOK, WorkInv, \A w \in Workers : PassInv(w), [Next]_vars, status # "absent",
           NEW s \in Steps
    PROVE  steps'[s] = steps[s] \/ steps'[s].status \notin {"pending", "absent"}
<1>1. CASE UNCHANGED steps
  BY <1>1
<1>2. CASE CancelSkips
  BY <1>2, SkipWrites DEF CancelSkips
<1> QED
  BY <1>1, <1>2, StepForms, WorkerRows
     DEF vars, Route, Create, Approve, Start, Cancel, WorkEnds, LeaseExpires

\* Before it has begun, nothing happens to the steps but that they are stored.
LEMMA BeforeBegun ==
    ASSUME TypeOK, WorkInv, FlowInv, LeaseInv, \A w \in Workers : PassInv(w), [Next]_vars,
           status \notin Begun
    PROVE  /\ UNCHANGED work
           /\ UNCHANGED steps \/ \E r \in Requests, p \in Plans : Create(r, p)
<1>1. ASSUME NEW s \in Steps, WorkEnds(s)
      PROVE  FALSE
  <2>1. work[s] = <<>> /\ \E k \in 1 .. Len(work[s]) : TRUE
    BY <1>1 DEF WorkEnds, FlowInv, Started
  <2> QED
    BY <2>1, WorkLen
<1>2. ASSUME NEW w \in Workers, WorkerStep(w)
      PROVE  UNCHANGED <<steps, work>>
  BY <1>2, WorkerStatus
<1>3. ~ CancelSkips
  BY DEF CancelSkips, FlowInv, Begun
<1> QED
  BY <1>1, <1>2, <1>3, StepForms
     DEF vars, Route, Create, Approve, Start, Cancel, LeaseExpires

LEMMA NextFlow ==
    ASSUME TypeOK, WorkInv, FlowInv, LeaseInv, \A w \in Workers : PassInv(w), [Next]_vars
    PROVE  FlowInv'
<1>1. (IsTerminal(status) => run = "none")'
  <2>1. ASSUME NEW v \in Workers, WorkerStep(v)
        PROVE  (IsTerminal(status) => run = "none")'
    BY <2>1, WorkerStatus DEF FlowInv, IsTerminal
  <2> QED
    BY <2>1, StepForms
       DEF FlowInv, IsTerminal, vars, workflow, Route, Create, Approve, Start, Cancel, CancelSkips,
           WorkEnds, LeaseExpires, Transition, Moves
<1>2. (skipping => status = "cancelled")'
  <2>1. ASSUME NEW v \in Workers, WorkerStep(v)
        PROVE  /\ UNCHANGED skipping
               /\ status = "cancelled" => status' = "cancelled"
    <3>1. UNCHANGED skipping
      BY <2>1 DEF WorkerStep, Claim, Load, Begin, Execute, SettleFailure, Fail, Complete, Die,
                  Settles, Submits, users
    <3> QED
      BY <2>1, <3>1, WorkerStatus
  <2> QED
    BY <2>1, StepForms
       DEF FlowInv, vars, workflow, users, Route, Create, Approve, Start, Cancel, CancelSkips,
           WorkEnds, LeaseExpires, Transition, Moves
<1>3. ASSUME status' # "absent"
      PROVE  plan' \in Plans /\ \A s \in PlanSteps[plan'] : steps'[s].status # "absent"
  <2>1. CASE status # "absent"
    <3>1. UNCHANGED plan
      BY <2>1, StepForms, WorkerStatus
         DEF vars, workflow, Route, Create, Approve, Start, Cancel, CancelSkips, WorkEnds,
             LeaseExpires, Transition, Moves
    <3>2. PlanSteps[plan] \subseteq Steps
      BY <2>1, PlansAssumption DEF FlowInv
    <3> QED
      BY <2>1, <3>1, <3>2, RowsMove DEF FlowInv
  <2>2. CASE status = "absent"
    <3>1. PICK r \in Requests, p \in Plans : Create(r, p)
      BY <1>3, <2>2, StepForms, WorkerStatus
         DEF vars, workflow, Route, Approve, Start, Cancel, CancelSkips, WorkEnds, LeaseExpires,
             Transition, Moves, Begun
    <3>2. plan' = p /\ steps' = [s \in Steps |-> IF s \in PlanSteps[p] THEN Pending ELSE NoStep]
      BY <2>2, <3>1 DEF Create
    <3>3. PlanSteps[p] \subseteq Steps
      BY PlansAssumption
    <3> QED
      BY <3>2, <3>3 DEF Pending
  <2> QED
    BY <2>1, <2>2
<1>4. ASSUME status' \notin Begun, NEW s \in Steps
      PROVE  steps'[s].status \in {"pending", "absent"} /\ ~ Started(s)'
  <2>1. status \notin Begun
    BY <1>4, StepForms, WorkerStatus
       DEF vars, workflow, Route, Create, Approve, Start, Cancel, CancelSkips, WorkEnds,
           LeaseExpires, Transition, Moves, Begun
  <2>2. UNCHANGED work /\ (UNCHANGED steps \/ \E r \in Requests, p \in Plans : Create(r, p))
    BY <2>1, BeforeBegun
  <2>3. steps[s].status \in {"pending", "absent"} /\ ~ Started(s)
    BY <2>1 DEF FlowInv
  <2> QED
    BY <2>2, <2>3 DEF Create, Pending, NoStep, Started
<1>5. ASSUME status' \in {"completed", "failed"}, NEW s \in Steps
      PROVE  steps'[s].status # "pending"
  <2>1. status # "absent"
    BY <1>5, StepForms, WorkerStatus
       DEF vars, workflow, Route, Create, Approve, Start, Cancel, CancelSkips, WorkEnds,
           LeaseExpires, Transition, Moves, Begun
  <2>2. CASE status \in {"completed", "failed"}
    BY <2>1, <2>2, RowsMove DEF FlowInv
  <2>3. CASE status \notin {"completed", "failed"}
    <3>1. PICK v \in Workers : /\ UNCHANGED steps
                               /\ pc[v] = "fail" \/ (Complete(v) /\ status' = "completed")
      BY <1>5, <2>3, StepForms, WorkerStatus
         DEF vars, workflow, Route, Create, Approve, Start, Cancel, CancelSkips, WorkEnds,
             LeaseExpires, Transition, Moves
    <3>2. CASE pc[v] = "fail"
      BY <3>1, <3>2 DEF PassInv
    <3>3. CASE Complete(v)
      <4>1. pc[v] \in Inside /\ snap[v][s].status # "pending"
        BY <1>5, <2>3, <3>3 DEF Complete, Has, Inside, workflow
      <4> QED
        BY <3>1, <4>1 DEF PassInv
    <3> QED
      BY <3>1, <3>2, <3>3
  <2> QED
    BY <2>2, <2>3
<1> QED
  BY <1>1, <1>2, <1>3, <1>4, <1>5 DEF FlowInv

-----------------------------------------------------------------------------
(* The passes.                                                             *)

\* How a worker comes to be, or stays, inside a pass.
LEMMA InsideMoves ==
    ASSUME TypeOK, WorkInv, \A w \in Workers : PassInv(w), [Next]_vars,
           NEW w \in Workers, pc'[w] \in Inside
    PROVE  \/ Load(w) \/ Execute(w) \/ SettleFailure(w) \/ Settles(w)
           \/ pc'[w] = pc[w] /\ snap'[w] = snap[w] /\ doing'[w] = doing[w]
<1>1. CASE UNCHANGED passes
  BY <1>1 DEF passes
<1>2. ASSUME NEW v \in Workers, WorkerStep(v)
      PROVE  \/ Load(w) \/ Execute(w) \/ SettleFailure(w) \/ Settles(w)
             \/ pc'[w] = pc[w] /\ snap'[w] = snap[w] /\ doing'[w] = doing[w]
  <2>1. CASE v # w
    BY <1>2, <2>1, WorkerMoves
  <2>2. CASE v = w
    BY <1>2, <2>2 DEF WorkerStep, Claim, Begin, Fail, Complete, Die, Submits, Goto, Idle, Inside,
                      TypeOK
  <2> QED
    BY <2>1, <2>2
<1> QED
  BY <1>1, <1>2, StepForms
     DEF vars, Route, Create, Approve, Start, Cancel, CancelSkips, WorkEnds, LeaseExpires

LEMMA InsideBegun ==
    ASSUME LeaseInv, NEW w \in Workers, pc[w] \in Inside \cup {"reload"}
    PROVE  status \in Begun /\ status # "absent" /\ Busy(w)
BY DEF LeaseInv, Busy, Inside, Begun

LEMMA NextRan ==
    ASSUME TypeOK, WorkInv, \A w \in Workers : PassInv(w), [Next]_vars,
           NEW w \in Workers, pc'[w] = "ran"
    PROVE  /\ doing'[w].step \in Steps
           /\ snap'[w][doing'[w].step].status = "pending"
           /\ doing'[w].ref \in 1 .. Len(work'[doing'[w].step])
<1>1. CASE Execute(w)
  <2>1. PICK s \in Steps :
             /\ s \in Ready(w)
             /\ \/ work'[s] = work[s] /\ work[s] # <<>>
                \/ work'[s] = Append(work[s], IF Kind[s] = "inline" THEN "done" ELSE "working")
             /\ work' \in [Steps -> Seq({"working", "done", "failed"})]
             /\ doing' = [doing EXCEPT ![w] = [step |-> s, ref |-> Len(work'[s])]]
    BY <1>1, ExecuteGrows
  <2>2. Len(work'[s]) \in Nat /\ Len(work'[s]) # 0
    BY <2>1, WorkLen, AppendProperties
  <2>3. doing'[w] = [step |-> s, ref |-> Len(work'[s])] /\ snap' = snap
    BY <1>1, <2>1 DEF TypeOK, Execute
  <2> QED
    BY <2>1, <2>2, <2>3 DEF Ready
<1>2. CASE pc'[w] = pc[w] /\ snap'[w] = snap[w] /\ doing'[w] = doing[w]
  <2>1. Grows
    BY NextGrows
  <2> QED
    BY <1>2, <2>1, WorkLen DEF PassInv, Grows
<1> QED
  BY <1>1, <1>2, InsideMoves DEF Inside, Load, SettleFailure, Goto, Settles, TypeOK

LEMMA NextInside ==
    ASSUME TypeOK, WorkInv, FlowInv, LeaseInv, \A w \in Workers : PassInv(w), [Next]_vars,
           NEW w \in Workers, pc'[w] \in Inside
    PROVE  /\ \A s \in Steps : steps'[s].status = "pending" => snap'[w][s].status = "pending"
           /\ \A s \in PlanSteps[plan'] : snap'[w][s].status # "absent"
<1>1. status # "absent" /\ UNCHANGED plan
  <2>1. Load(w) => Busy(w)
    BY DEF Load, Busy
  <2>2. status # "absent"
    BY <2>1, InsideMoves, InsideBegun
       DEF LeaseInv, Begun, Load, Execute, SettleFailure, Settles, Inside
  <2> QED
    BY <2>2, StepForms, WorkerStatus
       DEF vars, workflow, Route, Create, Approve, Start, Cancel, CancelSkips, WorkEnds,
           LeaseExpires, Transition, Moves
<1>2. PlanSteps[plan] \subseteq Steps /\ \A s \in PlanSteps[plan] : steps[s].status # "absent"
  BY <1>1, PlansAssumption DEF FlowInv
<1>3. CASE Load(w)
  BY <1>1, <1>2, <1>3 DEF Load, TypeOK
<1>4. ASSUME pc[w] \in Inside
      PROVE  /\ \A s \in Steps : steps[s].status = "pending" => snap[w][s].status = "pending"
             /\ \A s \in PlanSteps[plan] : snap[w][s].status # "absent"
  BY <1>4 DEF PassInv
<1>5. CASE Settles(w)
  <2>1. PICK t \in Steps, row \in StepRow :
             /\ row.status \in {"completed", "failed"}
             /\ steps' = [steps EXCEPT ![t] = row]
             /\ snap' = [snap EXCEPT ![w] = [snap[w] EXCEPT ![t] = row]]
    BY <1>5 DEF Settles
  <2>2. pc[w] \in Inside
    BY <1>5 DEF Settles, Inside
  <2>3. snap'[w] = [snap[w] EXCEPT ![t] = row] /\ snap[w] \in [Steps -> StepRow]
    BY <2>1 DEF TypeOK
  <2> QED
    BY <1>1, <1>2, <1>4, <2>1, <2>2, <2>3 DEF TypeOK
<1>6. CASE pc[w] \in Inside /\ snap'[w] = snap[w]
  BY <1>1, <1>4, <1>6, RowsMove
<1> QED
  BY <1>3, <1>5, <1>6, InsideMoves DEF Execute, SettleFailure, Goto, Inside

LEMMA NextFail ==
    ASSUME TypeOK, WorkInv, FlowInv, LeaseInv, \A w \in Workers : PassInv(w), [Next]_vars,
           NEW w \in Workers, pc'[w] = "fail"
    PROVE  Has(w, {"failed"})' /\ \A s \in Steps : steps'[s].status # "pending"
<1>1. CASE SettleFailure(w)
  BY <1>1, SkipWrites DEF SettleFailure, Goto, Has
<1>2. CASE pc'[w] = pc[w] /\ snap'[w] = snap[w]
  <2>1. status # "absent"
    BY <1>2, InsideBegun DEF Inside
  <2> QED
    BY <1>2, <2>1, RowsMove DEF PassInv, Has
<1> QED
  BY <1>1, <1>2, InsideMoves DEF Inside, Load, Execute, Settles, TypeOK

\* Whoever has been alone since it read the steps was alone before this one too.
LEMMA FreshBefore ==
    ASSUME TypeOK, WorkInv, FlowInv, LeaseInv, \A v \in Workers : PassInv(v), [Next]_vars,
           NEW w \in Workers, pc[w] \in Inside, Fresh(w)'
    PROVE  Fresh(w)
<1>1. Busy(w) /\ status \in Begun /\ status # "approved"
  BY InsideBegun DEF LeaseInv, Inside
<1>2. CASE UNCHANGED <<run, pc>>
  BY <1>2 DEF Fresh
<1>3. ASSUME NEW v \in Workers, WorkerStep(v)
      PROVE  Fresh(w)
  <2>1. CASE Claim(v)
    BY <2>1 DEF Claim, Claimable, Fresh
  <2>2. CASE ~ Claim(v)
    <3>1. run' = "due" => run = "due"
      BY <1>1, <1>3, <2>2, WorkerStatus
    <3>2. pc'[v] \in {"load", "start", "reload"} => pc[v] = "load"
      BY <1>1, <1>3, <2>2 DEF WorkerStep, Load, Begin, Execute, SettleFailure, Fail, Complete, Die,
                              Settles, Submits, Goto, Idle, TypeOK
    <3>3. \A u \in Workers \ {v} : pc'[u] = pc[u]
      BY <1>3, WorkerMoves
    <3> QED
      BY <3>1, <3>2, <3>3 DEF Fresh
  <2> QED
    BY <2>1, <2>2
<1>4. (run' = "due" => run = "due") \/ \E v \in Workers : WorkerStep(v)
  BY <1>1, StepForms
     DEF vars, workflow, Route, Create, Approve, Start, Cancel, CancelSkips, WorkEnds, Begun, Busy,
         LeaseExpires, Transition, Moves, IsTerminal
<1> QED
  BY <1>2, <1>3, <1>4, StepForms
     DEF vars, passes, Route, Create, Approve, Start, Cancel, CancelSkips, WorkEnds, LeaseExpires,
         Fresh

\* Nobody else writes a step while w is fresh.
LEMMA FreshAlone ==
    ASSUME TypeOK, LeaseInv, NEW w \in Workers, pc[w] \in Inside, Fresh(w),
           NEW v \in Workers \ {w}
    PROVE  pc[v] \notin Inside
<1>1. Busy(w)
  BY DEF Busy, Inside
<1>2. CASE run = "due"
  BY <1>1, <1>2 DEF LeaseInv, Busy, Inside
<1>3. CASE \E u \in Workers \ {w} : pc[u] \in {"load", "start", "reload"}
  BY <1>1, <1>3 DEF LeaseInv, Busy, Inside
<1> QED
  BY <1>2, <1>3 DEF Fresh

LEMMA NextFresh ==
    ASSUME TypeOK, WorkInv, FlowInv, LeaseInv, \A v \in Workers : PassInv(v), [Next]_vars,
           NEW w \in Workers, pc'[w] \in Inside, Fresh(w)'
    PROVE  \A s \in Steps : snap'[w][s].status = "failed" => steps'[s].status = "failed"
<1>1. CASE Load(w)
  BY <1>1 DEF Load, TypeOK
<1>2. CASE pc[w] \in Inside
  <2>0. \A s \in Steps : snap[w][s].status = "failed" => steps[s].status = "failed"
    BY <1>2, FreshBefore DEF PassInv
  <2>1. CASE Settles(w)
    <3>1. PICK t \in Steps, row \in StepRow :
               /\ steps' = [steps EXCEPT ![t] = row]
               /\ snap' = [snap EXCEPT ![w] = [snap[w] EXCEPT ![t] = row]]
      BY <2>1 DEF Settles
    <3>2. snap'[w] = [snap[w] EXCEPT ![t] = row] /\ snap[w] \in [Steps -> StepRow]
      BY <3>1 DEF TypeOK
    <3> QED
      BY <2>0, <3>1, <3>2 DEF TypeOK
  <2>2. CASE ~ Settles(w)
    <3>1. snap'[w] = snap[w]
      BY <1>2, <2>2, InsideMoves DEF Load, Execute, SettleFailure, Goto, Inside
    <3>2. ASSUME NEW s \in Steps, steps[s].status = "failed"
          PROVE  steps'[s].status = "failed"
      <4>1. status # "absent"
        BY <1>2, InsideBegun
      <4>2. ASSUME NEW v \in Workers, WorkerStep(v)
            PROVE  steps'[s].status = "failed"
        <5>1. Settles(v) \/ Submits(v) => v # w /\ pc[v] \in Inside
          BY <2>2 DEF Settles, Submits, Idle, TypeOK, Inside
        <5>2. ~ Settles(v) /\ ~ Submits(v)
          BY <1>2, <5>1, FreshBefore, FreshAlone
        <5>3. CASE SettleFailure(v)
          BY <3>2, <5>3, SkipWrites DEF SettleFailure
        <5> QED
          BY <3>2, <4>2, <5>2, <5>3
             DEF WorkerStep, Claim, Load, Begin, Execute, Fail, Complete, Die
      <4>3. CASE CancelSkips
        BY <3>2, <4>3, SkipWrites DEF CancelSkips
      <4> QED
        BY <3>2, <4>1, <4>2, <4>3, StepForms
           DEF vars, Route, Create, Approve, Start, Cancel, WorkEnds, LeaseExpires
    <3> QED
      BY <2>0, <3>1, <3>2
  <2> QED
    BY <2>1, <2>2
<1> QED
  BY <1>1, <1>2, InsideMoves DEF Execute, SettleFailure, Settles, Inside

LEMMA NextPass ==
    ASSUME TypeOK, WorkInv, FlowInv, LeaseInv, \A v \in Workers : PassInv(v), [Next]_vars,
           NEW w \in Workers
    PROVE  PassInv(w)'
BY NextRan, NextInside, NextFail, NextFresh DEF PassInv, Inside

-----------------------------------------------------------------------------
(* What is skipped, and what is made in the end.                           *)

LEMMA DeathsGrow ==
    ASSUME TypeOK, WorkInv, \A w \in Workers : PassInv(w), [Next]_vars, deaths' = 0
    PROVE  deaths = 0 /\ \A w \in Workers : ~ Die(w)
<1>1. deaths \in Nat
  BY DeathsAssumption DEF TypeOK
<1>2. \A w \in Workers : ~ Die(w)
  BY <1>1 DEF Die
<1>3. ASSUME NEW v \in Workers, WorkerStep(v)
      PROVE  deaths' = deaths
  BY <1>2, <1>3
     DEF WorkerStep, Claim, Load, Begin, Reconcile, Refuse, Execute, Record, SettleFailure, Fail,
         Complete, Settles, Submits
<1>4. deaths' = deaths
  BY <1>3, StepForms
     DEF vars, Route, Create, Approve, Start, Cancel, CancelSkips, WorkEnds, LeaseExpires
<1> QED
  BY <1>2, <1>4

\* A pass that is about to fail a running workflow does so, or stays.
LEMMA FailsOrStays ==
    ASSUME TypeOK, WorkInv, FlowInv, LeaseInv, \A w \in Workers : PassInv(w), [Next]_vars,
           deaths' = 0, status' = "running", status = "running",
           NEW w \in Workers, pc[w] = "fail"
    PROVE  pc'[w] = "fail"
<1>1. ~ Die(w)
  BY DeathsGrow
<1>2. ASSUME NEW v \in Workers, WorkerStep(v)
      PROVE  pc'[w] = "fail"
  <2>1. CASE v # w
    BY <1>2, <2>1, WorkerMoves
  <2>2. CASE v = w
    BY <1>1, <1>2, <2>2 DEF WorkerStep, Claim, Load, Begin, Execute, SettleFailure, Fail, Complete,
                            Settles, Submits, Transition, Moves
  <2> QED
    BY <2>1, <2>2
<1> QED
  BY <1>2, StepForms
     DEF vars, passes, Route, Create, Approve, Start, Cancel, CancelSkips, WorkEnds, LeaseExpires

LEMMA NextSkip ==
    ASSUME TypeOK, WorkInv, FlowInv, LeaseInv, SkipInv, \A w \in Workers : PassInv(w),
           [Next]_vars
    PROVE  SkipInv'
<1> SUFFICES ASSUME deaths' = 0, status' = "running"
             PROVE  /\ (\E s \in Steps : steps'[s].status = "skipped")
                            => \E w \in Workers : pc'[w] = "fail"
                    /\ \A w \in Workers :
                          pc'[w] \in Inside /\ Has(w, {"skipped"})' => Has(w, {"failed"})'
  BY DEF SkipInv
<1>1. deaths = 0
  BY DeathsGrow
<1>2. CASE status # "running"
  <2>1. status = "approved" /\ UNCHANGED steps
    <3>1. status = "approved"
      BY <1>2, StepForms, WorkerStatus
         DEF vars, workflow, Route, Create, Approve, Start, Cancel, CancelSkips, WorkEnds,
             LeaseExpires, Transition, Moves
    <3>2. \A r \in Requests, p \in Plans : Create(r, p) => UNCHANGED steps
      BY <3>1 DEF Create
    <3> QED
      BY <3>1, <3>2, BeforeBegun DEF Begun
  <2>2. \A s \in Steps : steps'[s].status # "skipped"
    BY <2>1 DEF FlowInv, Begun
  <2>3. ASSUME NEW w \in Workers
        PROVE  pc'[w] \notin Inside
    <3>1. pc[w] \in {"idle", "load", "start"}
      BY <2>1 DEF LeaseInv
    <3>2. ~ Load(w)
      BY <2>1, <3>1, <1>2 DEF Load, workflow
    <3> QED
      BY <3>1, <3>2, InsideMoves DEF Inside, Execute, SettleFailure, Settles
  <2> QED
    BY <2>2, <2>3
<1>3. CASE status = "running"
  <2>1. ASSUME NEW s \in Steps, steps'[s].status = "skipped"
        PROVE  \E w \in Workers : pc'[w] = "fail"
    <3>1. CASE steps[s].status = "skipped"
      BY <1>1, <1>3, <3>1, FailsOrStays DEF SkipInv
    <3>2. CASE \E w \in Workers : SettleFailure(w)
      BY <3>2 DEF SettleFailure, Goto, TypeOK
    <3>3. CASE steps[s].status # "skipped"
      <4>1. ~ CancelSkips
        BY <1>3 DEF CancelSkips, FlowInv
      <4>2. ASSUME NEW w \in Workers, Settles(w) \/ Submits(w)
            PROVE  steps'[s].status # "skipped"
        <5>1. PICK t \in Steps, row \in StepRow : /\ steps' = [steps EXCEPT ![t] = row]
                                                  /\ row.status \in {"completed", "failed", "running"}
          BY <4>2 DEF Settles, Submits
        <5> QED
          BY <3>3, <5>1 DEF TypeOK
      <4> QED
        BY <1>3, <2>1, <3>2, <3>3, <4>1, <4>2, StepForms
           DEF vars, Route, Create, Approve, Start, Cancel, WorkEnds, LeaseExpires, WorkerStep,
               Claim, Load, Begin, Execute, Fail, Complete, Die
    <3> QED
      BY <3>1, <3>3
  <2>2. ASSUME NEW w \in Workers, pc'[w] \in Inside, Has(w, {"skipped"})'
        PROVE  Has(w, {"failed"})'
    <3>1. CASE Load(w)
      <4>1. snap'[w] = steps /\ pc[w] \in {"load", "reload"}
        BY <3>1 DEF Load, TypeOK
      <4>2. PICK v \in Workers : pc[v] = "fail"
        BY <1>1, <1>3, <2>2, <4>1 DEF SkipInv, Has
      <4>3. v # w /\ Fresh(v) /\ Has(v, {"failed"}) /\ pc[v] \in Inside
        BY <4>1, <4>2 DEF Fresh, PassInv, Inside
      <4> QED
        BY <4>1, <4>3 DEF PassInv, Has
    <3>2. CASE pc[w] \in Inside /\ snap'[w] = snap[w]
      BY <1>1, <1>3, <2>2, <3>2 DEF SkipInv, Has
    <3>3. CASE Settles(w)
      <4>1. PICK t \in Steps, row \in StepRow :
                 /\ pc[w] \in Inside
                 /\ snap[w][t].status \in {"pending", "running"}
                 /\ row.status \in {"completed", "failed"}
                 /\ snap' = [snap EXCEPT ![w] = [snap[w] EXCEPT ![t] = row]]
        BY <3>3 DEF Settles, Inside
      <4>2. snap'[w] = [snap[w] EXCEPT ![t] = row] /\ snap[w] \in [Steps -> StepRow]
        BY <4>1 DEF TypeOK
      <4>3. PICK s \in Steps : snap'[w][s].status = "skipped"
        BY <2>2 DEF Has
      <4>4. s # t /\ snap[w][s].status = "skipped"
        BY <4>1, <4>2, <4>3
      <4>5. PICK u \in Steps : snap[w][u].status = "failed"
        BY <1>1, <1>3, <4>1, <4>4 DEF SkipInv, Has
      <4>6. snap'[w][u].status = "failed"
        BY <4>1, <4>2, <4>5
      <4> QED
        BY <4>6 DEF Has
    <3> QED
      BY <2>2, <3>1, <3>2, <3>3, InsideMoves DEF Execute, SettleFailure, Goto, Inside
  <2> QED
    BY <2>1, <2>2
<1> QED
  BY <1>2, <1>3

LEMMA NextMade ==
    ASSUME TypeOK, WorkflowInv, [Next]_vars
    PROVE  CompletedIsMade'
<1> SUFFICES ASSUME deaths' = 0, status' = "completed"
             PROVE  \A s \in PlanSteps[plan'] : Made(s)'
  BY DEF CompletedIsMade
<1>0. /\ WorkInv /\ FlowInv /\ LeaseInv /\ SkipInv /\ CompletedIsMade
      /\ \A w \in Workers : PassInv(w)
      /\ deaths = 0 /\ Grows
  BY DeathsGrow, NextGrows DEF WorkflowInv
<1>1. status # "absent" /\ UNCHANGED plan
  BY <1>0, StepForms, WorkerStatus
     DEF vars, workflow, Route, Create, Approve, Start, Cancel, CancelSkips, WorkEnds,
         LeaseExpires, Transition, Moves, Begun
<1>2. plan \in Plans /\ PlanSteps[plan] \subseteq Steps
  BY <1>0, <1>1, PlansAssumption DEF FlowInv
<1>3. \A s \in PlanSteps[plan] : Made(s)
  <2>1. CASE status = "completed"
    BY <1>0, <2>1 DEF CompletedIsMade
  <2>2. CASE status # "completed"
    <3>1. PICK w \in Workers : Complete(w) /\ status = "running"
      BY <1>0, <2>2, StepForms, WorkerStatus
         DEF vars, workflow, Route, Create, Approve, Start, Cancel, CancelSkips, WorkEnds,
             LeaseExpires, Transition, Moves
    <3>2. pc[w] \in Inside /\ ~ Has(w, {"failed"}) /\ ~ Has(w, {"pending", "running"})
      BY <2>2, <3>1 DEF Complete, Inside, workflow
    <3>3. ~ Has(w, {"skipped"})
      BY <1>0, <3>1, <3>2 DEF SkipInv
    <3>4. ASSUME NEW s \in PlanSteps[plan]
          PROVE  Made(s)
      <4>1. s \in Steps /\ snap[w][s].status # "absent" /\ snap[w][s] \in StepRow
        BY <1>0, <1>2, <3>2 DEF PassInv, TypeOK
      <4>2. snap[w][s].status = "completed"
        BY <3>2, <3>3, <4>1 DEF Has, StepRow
      <4> QED
        BY <1>0, <4>1, <4>2 DEF WorkInv, RowTrue
    <3> QED
      BY <3>4
  <2> QED
    BY <2>1, <2>2
<1> QED
  BY <1>0, <1>1, <1>2, <1>3, MadeStays

-----------------------------------------------------------------------------
(* The theorems.                                                           *)

LEMMA InitType == Init => TypeOK
<1> SUFFICES ASSUME Init PROVE TypeOK
  OBVIOUS
<1>1. NoSteps \in [Steps -> StepRow] /\ \A s \in Steps : NoSteps[s] = NoStep
  BY DEF NoSteps, NoStep, StepRow
<1>2. \A s \in Steps : work[s] = <<>> /\ steps[s] = NoStep
  BY <1>1 DEF Init
<1>3. work \in [Steps -> Seq({"working", "done", "failed"})]
  BY DEF Init
<1>4. \A s \in Steps : /\ steps[s].ref <= Len(work[s])
                       /\ steps[s].ref # 0 <=> steps[s].status \in {"running", "completed"}
  BY <1>2 DEF NoStep
<1>5. /\ steps \in [Steps -> StepRow]
      /\ snap \in [Workers -> [Steps -> StepRow]]
  BY <1>1 DEF Init
<1>6. doing \in [Workers -> [step : 0 .. StepCount, ref : Nat]]
  BY StepsAssumption DEF Init, Nothing
<1>7. /\ request \in [Requests -> {"idle", "route", "done"}]
      /\ asked \in [Requests -> Plans \cup {NoPlan}]
      /\ pc \in [Workers -> Labels]
  BY DEF Init, Labels
<1>8. deaths \in 0 .. MaxDeaths
  BY DeathsAssumption DEF Init
<1>9. /\ status \in WorkflowStatuses \cup {"absent"}
      /\ plan \in Plans \cup {NoPlan}
      /\ run \in {"none", "due", "leased"}
      /\ consent \in BOOLEAN /\ skipping \in BOOLEAN
  BY DEF Init
<1> QED
  BY <1>3, <1>4, <1>5, <1>6, <1>7, <1>8, <1>9 DEF TypeOK

LEMMA InitInv == Init => WorkflowInv
<1> SUFFICES ASSUME Init PROVE WorkflowInv
  OBVIOUS
<1>1. TypeOK
  BY InitType
<1>2. WorkInv
  <2> SUFFICES ASSUME NEW s \in Steps
               PROVE  /\ RowTrue(s, steps[s])
                      /\ \A w \in Workers : RowTrue(s, snap[w][s])
                      /\ Kind[s] # "unkeyed" => Len(work[s]) <= 1
                      /\ Kind[s] = "inline" => \A k \in 1 .. Len(work[s]) : work[s][k] = "done"
                      /\ Started(s) => \A n \in Needs[s] : Made(n)
    BY DEF WorkInv
  <2>1. work[s] = <<>> /\ Len(work[s]) = 0
    BY <1>1, WorkLen DEF Init
  <2>2. steps[s] = NoStep /\ \A w \in Workers : snap[w][s] = NoStep
    BY DEF Init, NoSteps
  <2>3. RowTrue(s, NoStep)
    BY <2>1 DEF RowTrue, NoStep
  <2> QED
    BY <2>1, <2>2, <2>3 DEF Started
<1>3. FlowInv
  BY DEF FlowInv, Init, NoSteps, NoStep, Started, IsTerminal
<1>4. LeaseInv /\ SkipInv /\ CompletedIsMade
  BY DEF LeaseInv, SkipInv, CompletedIsMade, Init, Busy
<1>5. \A w \in Workers : PassInv(w)
  BY DEF PassInv, Init, Inside
<1> QED
  BY <1>1, <1>2, <1>3, <1>4, <1>5 DEF WorkflowInv

LEMMA NextInv ==
    WorkflowInv /\ [Next]_vars => WorkflowInv'
<1> SUFFICES ASSUME WorkflowInv, [Next]_vars PROVE WorkflowInv'
  OBVIOUS
<1>1. /\ TypeOK /\ WorkInv /\ FlowInv /\ LeaseInv /\ SkipInv
      /\ \A w \in Workers : PassInv(w)
  BY DEF WorkflowInv
<1>2. TypeOK' /\ WorkInv'
  BY <1>1, NextType, NextWork
<1>3. FlowInv' /\ LeaseInv' /\ SkipInv'
  BY <1>1, NextFlow, NextLease, NextSkip
<1>4. \A w \in Workers : PassInv(w)'
  BY <1>1, NextPass
<1>5. CompletedIsMade'
  BY <1>1, NextMade
<1> QED
  BY <1>2, <1>3, <1>4, <1>5 DEF WorkflowInv

\* The rows stay in the domains of their columns, for every plan and every set of
\* requests and workers, and each row names a record that there is.
THEOREM TypeCorrect == Spec => []TypeOK
<1>1. WorkflowInv => TypeOK
  BY DEF WorkflowInv
<1> QED
  BY <1>1, InitInv, NextInv, PTL DEF Spec

\* The inductive invariant: what passes, leases and snapshots know of each other.
THEOREM WorkflowInvariant == Spec => []WorkflowInv
BY InitInv, NextInv, PTL DEF Spec

\* No step that sends its key starts its work twice, whatever passes of however
\* many workers overlap, die or are repeated.
THEOREM KeyedStartOnce == Spec => []KeyedStartsOnce
<1>1. WorkflowInv => KeyedStartsOnce
  BY DEF WorkflowInv, WorkInv, KeyedStartsOnce
<1> QED
  BY <1>1, WorkflowInvariant, PTL

\* No work is started before what it needs has been made, nor for a workflow that
\* was not approved and begun.
THEOREM WorkStartsInOrder == Spec => []StartsInOrder
<1>1. WorkflowInv => StartsInOrder
  BY DEF WorkflowInv, WorkInv, FlowInv, Begun, StartsInOrder, NeedsComeFirst, OnlyApprovedRuns
<1> QED
  BY <1>1, WorkflowInvariant, PTL

\* A workflow that is over leaves no step waiting, and one reported as completed
\* without a pass having died has made every step of its plan, although two passes
\* may have overlapped and overwritten each other's rows.
THEOREM EndsWhole == Spec => []EndIsWhole
<1>1. WorkflowInv => EndIsWhole
  BY DEF WorkflowInv, FlowInv, EndIsWhole, NothingLeftPending
<1> QED
  BY <1>1, WorkflowInvariant, PTL

\* A workflow that ended never moves again, and no late pass makes it due.
THEOREM EndsAreFinal == Spec => EndIsFinal
<1>1. WorkflowInv /\ [Next]_vars => [IsTerminal(status) => UNCHANGED workflow]_vars
  <2> SUFFICES ASSUME WorkflowInv, Next, IsTerminal(status)
               PROVE  UNCHANGED workflow
    OBVIOUS
  <2>1. TypeOK /\ run = "none" /\ LeaseInv /\ WorkInv /\ \A w \in Workers : PassInv(w)
    BY DEF WorkflowInv, FlowInv
  <2>2. ASSUME NEW v \in Workers, WorkerStep(v)
        PROVE  UNCHANGED workflow
    BY <2>1, <2>2, WorkerStatus DEF Claim, Claimable, workflow, IsTerminal
  <2> QED
    BY <2>1, <2>2, StepForms
       DEF Route, Create, Approve, Start, Cancel, CancelSkips, WorkEnds, LeaseExpires, Transition,
           Moves, IsTerminal, workflow
<1> QED
  BY <1>1, WorkflowInvariant, PTL DEF Spec, EndIsFinal
=============================================================================
