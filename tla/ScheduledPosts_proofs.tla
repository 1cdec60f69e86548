------------------------ MODULE ScheduledPosts_proofs ------------------------
(***************************************************************************)
(* What holds of ScheduledPosts for every set of posts and workers and     *)
(* every bound: the type invariant, PostsInv, and the safety and action    *)
(* properties that follow from it.                                         *)
(*                                                                         *)
(* The argument.  The mark a worker leaves before it calls the platform is *)
(* never taken back, and a post that carries it can be neither cancelled   *)
(* nor moved; so a cancelled post never had one, and one that may be out   *)
(* always does.  While the user moves nothing, a row that may be claimed   *)
(* has no worker, so the mark a worker has read is the mark there is, and  *)
(* the post is sent by whoever found none.                                 *)
(***************************************************************************)
EXTENDS ScheduledPosts, TLAPS

-----------------------------------------------------------------------------
(* Type correctness.                                                       *)

LEMMA RowValues ==
    /\ NoRow \in Row
    /\ \A t \in Times : t \in Nat
BY PostBounds DEF NoRow, Row, Statuses, Times

LEMMA InitType == Init => TypeOK
BY PostBounds, RowValues DEF Init, TypeOK, Labels, Times

LEMMA IdleType ==
    ASSUME TypeOK, NEW w \in Workers, Idle(w), UNCHANGED <<now, rows, sent, moves>>,
           deaths' \in 0 .. MaxDeaths
    PROVE  TypeOK'
BY RowValues DEF TypeOK, Idle, Labels

LEMMA GotoType ==
    ASSUME TypeOK, NEW w \in Workers, pc[w] # "idle", NEW label \in Labels, Goto(w, label),
           UNCHANGED <<now, rows, moves, deaths>>, sent' \in [Posts -> Nat]
    PROVE  TypeOK'
BY DEF TypeOK, Goto

LEMMA AdvanceToType ==
    ASSUME TypeOK, NEW w \in Workers, pc[w] # "idle", NEW new \in Row, NEW label \in Labels,
           AdvanceTo(w, new, label), UNCHANGED <<now, sent, moves, deaths>>
    PROVE  TypeOK'
<1>1. rows' \in [Posts -> Row]
  BY DEF AdvanceTo, TypeOK
<1>2. CASE Idle(w)
  BY <1>1, <1>2, RowValues DEF TypeOK, Idle, Labels
<1>3. CASE Goto(w, label)
  BY <1>1, <1>3 DEF TypeOK, Goto
<1> QED
  BY <1>2, <1>3 DEF AdvanceTo

LEMMA UserType ==
    ASSUME TypeOK, NEW p \in Posts, NEW t \in Times,
           Schedule(p, t) \/ Reschedule(p, t) \/ Cancel(p)
    PROVE  TypeOK'
<1>1. rows[p] \in Row /\ now \in Times
  BY DEF TypeOK
<1>2. CASE Schedule(p, t)
  <2>1. [NoRow EXCEPT !.status = "preparing", !.at = t, !.run = "timed", !.next = now] \in Row
    BY <1>1, RowValues DEF Row, Statuses
  <2> QED
    BY <1>2, <2>1 DEF Schedule, TypeOK, workers
<1>3. CASE Reschedule(p, t)
  <2>1. [rows[p] EXCEPT !.at = t, !.run = "timed", !.next = t] \in Row
    BY <1>1 DEF Row
  <2>2. rows' \in [Posts -> Row]
    BY <1>3, <2>1 DEF Reschedule, TypeOK
  <2>3. moves' \in 0 .. MaxReschedules
    BY <1>3, PostBounds DEF Reschedule, TypeOK
  <2> QED
    BY <1>3, <2>2, <2>3 DEF Reschedule, TypeOK, workers
<1>4. CASE Cancel(p)
  <2>1. [rows[p] EXCEPT !.status = "cancelled", !.run = "none"] \in Row
    BY <1>1 DEF Row, Statuses
  <2> QED
    BY <1>4, <2>1 DEF Cancel, TypeOK, workers
<1> QED
  BY <1>2, <1>3, <1>4

LEMMA ClaimType ==
    ASSUME TypeOK, NEW w \in Workers, NEW p \in Posts, Claim(w, p)
    PROVE  TypeOK'
<1>1. rows[p] \in Row
  BY DEF TypeOK
<1>2. [rows[p] EXCEPT !.run = "leased"] \in Row
  BY <1>1 DEF Row
<1>3. rows' \in [Posts -> Row]
  BY <1>2 DEF Claim, TypeOK
<1> QED
  BY <1>1, <1>3 DEF Claim, TypeOK, Labels

LEMMA RowEdits ==
    ASSUME NEW row \in Row, NEW t \in Times, NEW status \in Statuses
    PROVE  /\ [row EXCEPT !.status = status, !.run = "timed", !.next = t] \in Row
           /\ [row EXCEPT !.run = "timed", !.next = t] \in Row
           /\ [row EXCEPT !.status = status, !.started = TRUE] \in Row
           /\ [row EXCEPT !.status = status, !.run = "none"] \in Row
           /\ [row EXCEPT !.status = status, !.run = "timed", !.next = t,
                          !.attempts = @ + 1] \in Row
<1>1. [row EXCEPT !.status = status, !.run = "timed", !.next = t] \in Row
  BY DEF Row
<1>2. [row EXCEPT !.run = "timed", !.next = t] \in Row
  BY DEF Row
<1>3. [row EXCEPT !.status = status, !.started = TRUE] \in Row
  BY DEF Row
<1>4. [row EXCEPT !.status = status, !.run = "none"] \in Row
  BY DEF Row
<1>5. [row EXCEPT !.status = status, !.run = "timed", !.next = t, !.attempts = @ + 1] \in Row
  <2>1. row.attempts + 1 \in Nat
    BY DEF Row
  <2> QED
    BY <2>1 DEF Row
<1> QED
  BY <1>1, <1>2, <1>3, <1>4, <1>5

\* The rows the processor writes.
LEMMA HandlerRows ==
    ASSUME TypeOK, NEW w \in Workers, pc[w] # "idle"
    PROVE  LET row == rows[at[w]]
               s == seen[w]
           IN  /\ [row EXCEPT !.status = "scheduled", !.run = "timed", !.next = Later(s.at)] \in Row
               /\ [row EXCEPT !.run = "timed", !.next = s.at] \in Row
               /\ [row EXCEPT !.status = "publishing", !.started = TRUE] \in Row
               /\ [row EXCEPT !.status = "published", !.run = "none"] \in Row
               /\ [row EXCEPT !.status = "failed", !.run = "none"] \in Row
               /\ s.status # "absent" =>
                    [row EXCEPT !.status = s.status, !.run = "timed",
                                !.next = now, !.attempts = @ + 1] \in Row
<1>1. rows[at[w]] \in Row /\ seen[w] \in Row /\ now \in Times
  BY DEF TypeOK
<1>2. Later(seen[w].at) \in Times /\ seen[w].at \in Times
  BY <1>1 DEF Later, Row
<1>3. /\ {"scheduled", "publishing", "published", "failed"} \subseteq Statuses
      /\ seen[w].status # "absent" => seen[w].status \in Statuses
  BY <1>1 DEF Row, Statuses
<1> QED
  BY <1>1, <1>2, <1>3, RowEdits

LEMMA HandlerType ==
    ASSUME TypeOK, NEW w \in Workers, pc[w] # "idle" => seen[w].status # "absent", HandlerStep(w)
    PROVE  TypeOK'
<1>0. at[w] \in Posts \/ pc[w] = "idle"
  BY DEF TypeOK
<1>1. CASE Handle(w) \/ NotSent(w) \/ RetryExhausted(w)
  <2>1. PICK label \in Labels : Goto(w, label)
    BY <1>1 DEF Handle, Branch, NotSent, RetryExhausted, Labels
  <2> QED
    BY <1>1, <2>1, GotoType DEF Handle, NotSent, RetryExhausted, TypeOK
<1>2. CASE Send(w) \/ SendFailed(w)
  <2>1. sent' \in [Posts -> Nat]
    BY <1>0, <1>2 DEF Send, SendFailed, TypeOK
  <2>2. PICK label \in Labels : Goto(w, label)
    BY <1>2 DEF Send, SendFailed, Labels
  <2> QED
    BY <1>2, <2>1, <2>2, GotoType DEF Send, SendFailed
<1>3. CASE Prepared(w)
  BY <1>3, HandlerRows, AdvanceToType DEF Prepared, Labels
<1>4. CASE Delay(w)
  BY <1>4, HandlerRows, AdvanceToType DEF Delay, Labels
<1>5. CASE MarkStarted(w)
  BY <1>5, HandlerRows, AdvanceToType DEF MarkStarted, Labels
<1>6. CASE Published(w)
  BY <1>6, HandlerRows, AdvanceToType DEF Published, Labels
<1>7. CASE Fail(w)
  BY <1>7, HandlerRows, AdvanceToType DEF Fail, Labels
<1>8. CASE Retry(w)
  BY <1>8, HandlerRows, AdvanceToType DEF Retry, Labels
<1> QED
  BY <1>1, <1>2, <1>3, <1>4, <1>5, <1>6, <1>7, <1>8 DEF HandlerStep

LEMMA ClockType ==
    ASSUME TypeOK, Tick \/ \E p \in Posts : LeaseExpires(p)
    PROVE  TypeOK'
<1>1. CASE Tick
  BY <1>1, PostBounds DEF Tick, TypeOK, workers, Times
<1>2. ASSUME NEW p \in Posts, LeaseExpires(p)
      PROVE  TypeOK'
  <2>1. rows[p] \in Row /\ now \in Times
    BY DEF TypeOK
  <2>2. [rows[p] EXCEPT !.run = "timed", !.next = now] \in Row
    BY <2>1 DEF Row
  <2> QED
    BY <1>2, <2>2 DEF LeaseExpires, TypeOK, workers
<1> QED
  BY <1>1, <1>2

LEMMA DieType ==
    ASSUME TypeOK, NEW w \in Workers, Die(w)
    PROVE  TypeOK'
<1>1. deaths' \in 0 .. MaxDeaths
  BY PostBounds DEF Die, TypeOK
<1> QED
  BY <1>1, IdleType DEF Die

LEMMA NextType == TypeOK /\ PostsInv /\ [Next]_vars => TypeOK'
<1> SUFFICES ASSUME TypeOK, PostsInv, [Next]_vars
             PROVE  TypeOK'
  OBVIOUS
<1>1. ASSUME NEW w \in Workers, HandlerStep(w)
      PROVE  TypeOK'
  <2>1. pc[w] # "idle" => seen[w].status # "absent"
    BY DEF PostsInv, WorkerInv, Open
  <2> QED
    BY <1>1, <2>1, HandlerType
<1>2. CASE UNCHANGED vars
  BY <1>2 DEF vars, workers, TypeOK
<1>3. 0 \in Times
  BY PostBounds DEF Times
<1>4. ASSUME NEW p \in Posts, Cancel(p)
      PROVE  TypeOK'
  BY <1>3, <1>4, UserType
<1>5. ASSUME NEW p \in Posts, NEW t \in Times, Schedule(p, t) \/ Reschedule(p, t)
      PROVE  TypeOK'
  BY <1>5, UserType
<1> QED
  BY <1>1, <1>2, <1>4, <1>5, ClaimType, ClockType, DieType DEF Next

-----------------------------------------------------------------------------
(* PostsInv is inductive.                                                  *)

LEMMA InitInv == Init => PostsInv
BY DEF Init, PostsInv, RowInv, RowUnmoved, NoRow

\* A worker that stops disturbs nobody.
LEMMA IdleKeeps ==
    ASSUME TypeOK, PostsInv, NEW w \in Workers, Idle(w), UNCHANGED <<now, rows, sent, moves>>
    PROVE  PostsInv'
<1>1. ASSUME NEW v \in Workers, pc'[v] # "idle"
      PROVE  v # w /\ pc'[v] = pc[v] /\ at'[v] = at[v] /\ seen'[v] = seen[v]
  BY <1>1 DEF Idle, TypeOK
<1>2. ASSUME NEW v \in Workers, pc'[v] # "idle"
      PROVE  WorkerInv(v)' /\ (moves = 0 => WorkerUnmoved(v)')
  BY <1>1, <1>2 DEF PostsInv, WorkerInv, WorkerUnmoved
<1>3. ASSUME NEW p \in Posts
      PROVE  RowInv(p)' /\ (moves = 0 => RowUnmoved(p)')
  BY <1>3 DEF PostsInv, RowInv, RowUnmoved
<1> QED
  BY <1>2, <1>3 DEF PostsInv

\* A worker that goes on or stops after a step on its own post.  Another worker
\* on the post needs only that the row stays, keeps its mark, and that what was
\* sent stays sent; and while nothing is moved there is no other worker.
LEMMA WorkerKeeps ==
    ASSUME TypeOK, PostsInv, NEW w \in Workers, NEW p \in Posts, pc[w] # "idle", at[w] = p,
           UNCHANGED <<now, moves>>,
           \A v \in Workers \ {w} : /\ pc'[v] = pc[v]
                                    /\ at'[v] = at[v]
                                    /\ seen'[v] = seen[v],
           \A q \in Posts \ {p} : rows'[q] = rows[q] /\ sent'[q] = sent[q],
           rows'[p].status # "absent",
           rows[p].started => rows'[p].started,
           sent[p] > 0 => sent'[p] > 0,
           RowInv(p)',
           moves = 0 => RowUnmoved(p)',
           pc'[w] # "idle" => at'[w] = p /\ WorkerInv(w)',
           pc'[w] # "idle" /\ moves = 0 =>
               /\ Ended(rows'[p]) \/ rows'[p].run = "leased"
               /\ pc'[w] = "handle" => /\ rows'[p].started => seen'[w].started
                                       /\ seen'[w].status = "preparing" => ~ seen'[w].started
               /\ pc'[w] \in {"prepare", "load", "retry"} => ~ rows'[p].started
               /\ pc'[w] = "send" => sent'[p] = 0
    PROVE  PostsInv'
<1>1. ASSUME NEW q \in Posts
      PROVE  RowInv(q)' /\ (moves = 0 => RowUnmoved(q)')
  <2>1. CASE q = p
    BY <2>1
  <2>2. CASE q # p
    BY <2>2 DEF PostsInv, RowInv, RowUnmoved
  <2> QED
    BY <2>1, <2>2
<1>2. ASSUME NEW v \in Workers \ {w}, pc'[v] # "idle"
      PROVE  WorkerInv(v)' /\ (moves = 0 => WorkerUnmoved(v)')
  <2>1. WorkerInv(v) /\ at[v] \in Posts /\ (moves = 0 => WorkerUnmoved(v))
    BY <1>2 DEF PostsInv, TypeOK
  <2>2. CASE at[v] = p
    <3>1. moves # 0
      BY <2>1, <2>2 DEF WorkerUnmoved
    <3> QED
      BY <1>2, <2>1, <2>2, <3>1 DEF WorkerInv
  <2>3. CASE at[v] # p
    <3>1. rows'[at[v]] = rows[at[v]] /\ sent'[at[v]] = sent[at[v]]
      BY <2>1, <2>3
    <3>2. WorkerInv(v)'
      BY <1>2, <2>1, <3>1 DEF WorkerInv
    <3>3. ASSUME moves = 0
          PROVE  WorkerUnmoved(v)'
      <4>1. ASSUME NEW u \in Workers \ {v}, pc'[u] # "idle"
            PROVE  at'[u] # at[v]
        BY <1>2, <2>1, <2>3, <3>3, <4>1 DEF WorkerUnmoved
      <4> QED
        BY <1>2, <2>1, <3>1, <3>3, <4>1 DEF WorkerUnmoved
    <3> QED
      BY <3>2, <3>3
  <2> QED
    BY <2>2, <2>3
<1>3. ASSUME pc'[w] # "idle"
      PROVE  WorkerInv(w)' /\ (moves = 0 => WorkerUnmoved(w)')
  <2>1. ASSUME moves = 0, NEW v \in Workers \ {w}, pc'[v] # "idle"
        PROVE  at'[v] # p
    BY <2>1 DEF PostsInv, WorkerUnmoved
  <2> QED
    BY <1>3, <2>1 DEF WorkerUnmoved
<1> QED
  BY <1>1, <1>2, <1>3 DEF PostsInv
\* The user: a post is moved or cancelled only while it carries no mark.
LEMMA UserKeeps ==
    ASSUME TypeOK, PostsInv, NEW p \in Posts, NEW t \in Times,
           Schedule(p, t) \/ Reschedule(p, t) \/ Cancel(p)
    PROVE  PostsInv'
<1>1. /\ UNCHANGED <<now, pc, at, seen, sent>>
      /\ moves' = 0 => moves = 0 /\ ~ Reschedule(p, t)
  BY PostBounds DEF Schedule, Reschedule, Cancel, workers, TypeOK
<1>2. /\ \A q \in Posts \ {p} : rows'[q] = rows[q]
      /\ rows'[p].status # "absent"
      /\ ~ rows[p].started /\ ~ rows'[p].started
      /\ ~ Ended(rows[p])
      /\ rows[p].status = "absent" \/ rows'[p].status = "cancelled" \/ Reschedule(p, t)
      /\ rows'[p].status \notin {"publishing", "published"}
      /\ Ended(rows'[p]) => rows'[p].run = "none"
  <2>1. rows[p] \in Row /\ RowInv(p)
    BY DEF TypeOK, PostsInv
  <2>2. CASE Schedule(p, t)
    BY <2>1, <2>2 DEF Schedule, NoRow, TypeOK, Row, Ended, RowInv
  <2>3. CASE Reschedule(p, t)
    BY <2>1, <2>3 DEF Reschedule, NotStarted, TypeOK, Row, Ended
  <2>4. CASE Cancel(p)
    BY <2>1, <2>4 DEF Cancel, NotStarted, TypeOK, Row, Ended
  <2> QED
    BY <2>2, <2>3, <2>4
<1>3. ASSUME NEW q \in Posts
      PROVE  RowInv(q)' /\ (moves' = 0 => RowUnmoved(q)')
  <2>1. RowInv(q) /\ (moves = 0 => RowUnmoved(q))
    BY DEF PostsInv
  <2>2. CASE q = p
    BY <1>1, <1>2, <2>1, <2>2 DEF RowInv, RowUnmoved
  <2>3. CASE q # p
    BY <1>1, <1>2, <2>1, <2>3 DEF RowInv, RowUnmoved
  <2> QED
    BY <2>2, <2>3
<1>4. ASSUME NEW w \in Workers, pc[w] # "idle"
      PROVE  WorkerInv(w)' /\ (moves' = 0 => WorkerUnmoved(w)')
  <2>1. at[w] \in Posts /\ WorkerInv(w) /\ (moves = 0 => WorkerUnmoved(w))
    BY <1>4 DEF PostsInv, TypeOK
  <2>2. CASE at[w] = p
    <3>1. WorkerInv(w)'
      BY <1>1, <1>2, <2>1, <2>2 DEF WorkerInv
    <3>2. ASSUME moves' = 0
          PROVE  Ended(rows'[p])
      BY <1>1, <1>2, <2>1, <2>2, <3>2 DEF WorkerInv, Ended
    <3> QED
      BY <1>1, <1>2, <2>1, <2>2, <3>1, <3>2 DEF WorkerUnmoved
  <2>3. CASE at[w] # p
    BY <1>1, <1>2, <2>1, <2>3 DEF WorkerInv, WorkerUnmoved
  <2> QED
    BY <2>2, <2>3
<1> QED
  BY <1>1, <1>3, <1>4 DEF PostsInv

\* A claimed row has no worker as long as nothing is moved.
LEMMA ClaimKeeps ==
    ASSUME TypeOK, PostsInv, NEW w \in Workers, NEW p \in Posts, Claim(w, p)
    PROVE  PostsInv'
<1>1. /\ UNCHANGED <<now, sent, moves>>
      /\ \A q \in Posts \ {p} : rows'[q] = rows[q]
      /\ rows'[p] = [rows[p] EXCEPT !.run = "leased"]
      /\ \A v \in Workers \ {w} : pc'[v] = pc[v] /\ at'[v] = at[v] /\ seen'[v] = seen[v]
      /\ pc'[w] = "handle" /\ at'[w] = p /\ seen'[w] = rows[p]
      /\ rows[p].status \in Open /\ rows[p].run = "timed"
  BY DEF Claim, TypeOK
<1>2. /\ rows'[p].status = rows[p].status
      /\ rows'[p].started = rows[p].started
      /\ rows'[p].run = "leased"
  BY <1>1 DEF TypeOK, Row
<1>3. ASSUME NEW q \in Posts
      PROVE  RowInv(q)' /\ (moves = 0 => RowUnmoved(q)')
  <2>1. /\ rows'[q].status = rows[q].status /\ rows'[q].started = rows[q].started
        /\ Ended(rows[q]) => rows'[q].run = rows[q].run
    BY <1>1, <1>2, <1>3 DEF Ended, Open
  <2> QED
    BY <1>1, <1>3, <2>1 DEF PostsInv, RowInv, RowUnmoved, Ended
<1>4. ASSUME NEW v \in Workers \ {w}, pc[v] # "idle"
      PROVE  /\ at[v] \in Posts /\ WorkerInv(v)
             /\ moves = 0 => WorkerUnmoved(v) /\ at[v] # p
  <2>1. at[v] \in Posts /\ WorkerInv(v) /\ (moves = 0 => WorkerUnmoved(v))
    BY <1>4 DEF PostsInv, TypeOK
  <2> QED
    BY <1>1, <2>1 DEF WorkerUnmoved, Ended, Open
<1>5. ASSUME NEW v \in Workers \ {w}, pc'[v] # "idle"
      PROVE  WorkerInv(v)' /\ (moves = 0 => WorkerUnmoved(v)')
  <2>0. /\ rows'[at[v]].status = rows[at[v]].status
        /\ rows'[at[v]].started = rows[at[v]].started
    BY <1>1, <1>2, <1>4, <1>5
  <2>1. WorkerInv(v)'
    BY <1>1, <1>4, <1>5, <2>0 DEF WorkerInv
  <2>2. ASSUME moves = 0
        PROVE  WorkerUnmoved(v)'
    BY <1>1, <1>4, <1>5, <2>2 DEF WorkerUnmoved
  <2> QED
    BY <2>1, <2>2
<1>6. WorkerInv(w)' /\ (moves = 0 => WorkerUnmoved(w)')
  <2>1. RowInv(p) /\ (moves = 0 => RowUnmoved(p))
    BY DEF PostsInv
  <2>2. WorkerInv(w)'
    BY <1>1, <1>2, <2>1 DEF WorkerInv, RowInv, Open
  <2>3. ASSUME moves = 0
        PROVE  WorkerUnmoved(w)'
    <3>1. \A v \in Workers \ {w} : pc'[v] # "idle" => at'[v] # p
      BY <1>1, <1>4, <2>3
    <3>2. rows[p].status = "preparing" => ~ rows[p].started
      BY <2>1, <2>3 DEF RowUnmoved
    <3> QED
      BY <1>1, <1>2, <3>1, <3>2 DEF WorkerUnmoved
  <2> QED
    BY <2>2, <2>3
<1> QED
  BY <1>1, <1>3, <1>5, <1>6 DEF PostsInv

LEMMA ClockKeeps ==
    ASSUME TypeOK, PostsInv, Tick \/ \E p \in Posts : LeaseExpires(p)
    PROVE  PostsInv'
<1>1. CASE Tick
  <2>1. now \in Nat /\ now' = now + 1 /\ UNCHANGED <<rows, pc, at, seen, sent, moves>>
    BY <1>1, RowValues DEF Tick, workers, TypeOK
  <2>2. ASSUME NEW w \in Workers
        PROVE  seen[w].at <= now => seen[w].at <= now'
    <3>1. seen[w].at \in Nat
      BY RowValues DEF TypeOK, Row
    <3> QED
      BY <2>1, <3>1
  <2>3. ASSUME NEW w \in Workers, pc[w] # "idle"
        PROVE  WorkerInv(w)' /\ (moves = 0 => WorkerUnmoved(w)')
    BY <2>1, <2>2, <2>3 DEF PostsInv, WorkerInv, WorkerUnmoved
  <2> QED
    BY <2>1, <2>3 DEF PostsInv, RowInv, RowUnmoved
<1>2. ASSUME NEW p \in Posts, LeaseExpires(p)
      PROVE  PostsInv'
  <2>1. /\ UNCHANGED <<now, pc, at, seen, sent, moves>>
        /\ \A q \in Posts \ {p} : rows'[q] = rows[q]
        /\ \A w \in Workers : at[w] # p
    BY <1>2 DEF LeaseExpires, workers, TypeOK
  <2>2. /\ rows'[p].status = rows[p].status /\ rows'[p].started = rows[p].started
        /\ rows[p].run = "leased"
    BY <1>2 DEF LeaseExpires, TypeOK, Row
  <2>3. ASSUME NEW q \in Posts
        PROVE  RowInv(q)' /\ (moves = 0 => RowUnmoved(q)')
    BY <2>1, <2>2, <2>3 DEF PostsInv, RowInv, RowUnmoved, Ended
  <2>4. ASSUME NEW w \in Workers, pc[w] # "idle"
        PROVE  WorkerInv(w)' /\ (moves = 0 => WorkerUnmoved(w)')
    <3>1. at[w] \in Posts /\ rows'[at[w]] = rows[at[w]]
      BY <2>1, <2>4 DEF TypeOK
    <3> QED
      BY <2>1, <2>4, <3>1 DEF PostsInv, WorkerInv, WorkerUnmoved
  <2> QED
    BY <2>1, <2>3, <2>4 DEF PostsInv
<1> QED
  BY <1>1, <1>2
-----------------------------------------------------------------------------
(* The processor.                                                          *)

\* A worker that goes on without an update of the row; only what its post has
\* sent may grow.
LEMMA GotoKeeps ==
    ASSUME TypeOK, PostsInv, NEW w \in Workers, pc[w] # "idle", NEW label \in Labels,
           Goto(w, label), UNCHANGED <<now, rows, moves>>,
           \A q \in Posts \ {at[w]} : sent'[q] = sent[q],
           sent[at[w]] > 0 => sent'[at[w]] > 0,
           sent'[at[w]] > 0 => rows[at[w]].started,
           moves = 0 => sent'[at[w]] <= 1,
           label \in {"send", "publish"} => rows[at[w]].started,
           label = "publish" => sent'[at[w]] > 0,
           label \in {"load", "send"} => seen[w].at <= now,
           label \notin {"handle", "send"},
           moves = 0 /\ label \in {"prepare", "load", "retry"} => ~ rows[at[w]].started
    PROVE  PostsInv'
<1>1. at[w] \in Posts
  BY DEF TypeOK
<1>2. /\ pc'[w] = label /\ at'[w] = at[w] /\ seen'[w] = seen[w]
      /\ \A v \in Workers \ {w} : pc'[v] = pc[v] /\ at'[v] = at[v] /\ seen'[v] = seen[v]
  BY DEF Goto, TypeOK
<1>3. WorkerInv(w) /\ RowInv(at[w]) /\ (moves = 0 => WorkerUnmoved(w) /\ RowUnmoved(at[w]))
  BY <1>1 DEF PostsInv
<1>4. RowInv(at[w])' /\ (moves = 0 => RowUnmoved(at[w])')
  BY <1>2, <1>3 DEF RowInv, RowUnmoved
<1>5. WorkerInv(w)'
  BY <1>2, <1>3 DEF WorkerInv
<1>6. moves = 0 => Ended(rows'[at[w]]) \/ rows'[at[w]].run = "leased"
  BY <1>3 DEF WorkerUnmoved
<1>7. rows'[at[w]].status # "absent"
  BY <1>3 DEF WorkerInv
<1> QED
  BY <1>1, <1>2, <1>4, <1>5, <1>6, <1>7, WorkerKeeps

\* A worker that updates its row and stops, or goes on to the platform.
LEMMA AdvanceToKeeps ==
    ASSUME TypeOK, PostsInv, NEW w \in Workers, pc[w] # "idle", NEW new \in Row,
           NEW label \in {"idle", "send"}, AdvanceTo(w, new, label),
           UNCHANGED <<now, sent, moves>>,
           new.status \notin {"absent", "cancelled"},
           rows[at[w]].started => new.started,
           new.status = "publishing" => new.started,
           new.status = "published" => sent[at[w]] > 0,
           Ended(new) => new.run = "none",
           moves = 0 /\ new.status = "preparing" => ~ new.started,
           label = "send" => /\ new.started
                             /\ seen[w].at <= now
                             /\ moves = 0 => sent[at[w]] = 0
                             /\ moves = 0 => Ended(rows[at[w]]) \/ new.run = "leased"
    PROVE  PostsInv'
<1>1. CASE ~ Accepts(rows[at[w]])
  BY <1>1, IdleKeeps DEF AdvanceTo
<1>2. CASE Accepts(rows[at[w]])
  <2>1. PICK p \in Posts : p = at[w]
    BY DEF TypeOK
  <2>2. /\ rows'[p] = new
        /\ \A q \in Posts \ {p} : rows'[q] = rows[q]
        /\ ~ Ended(rows[p])
    BY <1>2, <2>1 DEF AdvanceTo, TypeOK, Accepts, Open, Ended
  <2>3. \A v \in Workers \ {w} : pc'[v] = pc[v] /\ at'[v] = at[v] /\ seen'[v] = seen[v]
    BY <1>2 DEF AdvanceTo, Idle, Goto, TypeOK
  <2>4. pc'[w] = label /\ (label = "send" => at'[w] = p /\ seen'[w] = seen[w])
    BY <1>2, <2>1 DEF AdvanceTo, Idle, Goto, TypeOK
  <2>5. WorkerInv(w) /\ RowInv(p) /\ (moves = 0 => WorkerUnmoved(w) /\ RowUnmoved(p))
    BY <2>1 DEF PostsInv
  <2>6. RowInv(p)' /\ (moves = 0 => RowUnmoved(p)')
    BY <2>1, <2>2, <2>5 DEF RowInv, RowUnmoved
  <2>7. label = "send" => WorkerInv(w)'
    BY <2>1, <2>2, <2>4, <2>5 DEF WorkerInv
  <2> QED
    BY <2>1, <2>2, <2>3, <2>4, <2>6, <2>7, WorkerKeeps
<1> QED
  BY <1>1, <1>2

LEMMA HandlerKeeps ==
    ASSUME TypeOK, PostsInv, NEW w \in Workers, HandlerStep(w)
    PROVE  PostsInv'
<1> DEFINE p == at[w]
<1>1. pc[w] # "idle"
  BY DEF HandlerStep, Handle, Prepared, NotSent, Delay, MarkStarted, Send, SendFailed,
         Published, Retry, RetryExhausted, Fail
<1>2. /\ p \in Posts /\ rows[p] \in Row /\ seen[w] \in Row
      /\ now \in Nat /\ seen[w].at \in Nat /\ sent[p] \in Nat
  BY <1>1, RowValues DEF TypeOK, Row
<1>3. WorkerInv(w) /\ RowInv(p) /\ (moves = 0 => WorkerUnmoved(w) /\ RowUnmoved(p))
  BY <1>1, <1>2 DEF PostsInv
<1>4. seen[w].status \notin {"absent", "cancelled", "published"}
  BY <1>3 DEF WorkerInv, Open
<1>5. CASE Handle(w)
  <2>1. Branch(w) \in {"prepare", "delay", "load", "fail"}
    BY DEF Branch
  <2>2. Branch(w) = "load" => seen[w].at <= now
    BY <1>2, <1>3 DEF Branch, WorkerInv, Open
  <2>3. moves = 0 /\ Branch(w) \in {"prepare", "load"} => ~ rows[p].started
    BY <1>3, <1>5 DEF Handle, Branch, WorkerUnmoved
  <2> QED
    BY <1>1, <1>2, <1>3, <1>5, <2>1, <2>2, <2>3, GotoKeeps
       DEF Handle, Labels, RowInv, RowUnmoved
<1>6. CASE NotSent(w)
  <2>1. PICK label \in {"fail", "retry"} : Goto(w, label)
    BY <1>6 DEF NotSent
  <2>2. moves = 0 => ~ rows[p].started
    BY <1>3, <1>6 DEF NotSent, WorkerUnmoved
  <2> QED
    BY <1>1, <1>2, <1>3, <1>6, <2>1, <2>2, GotoKeeps DEF NotSent, Labels, RowInv, RowUnmoved
<1>7. CASE RetryExhausted(w)
  BY <1>1, <1>2, <1>3, <1>7, GotoKeeps DEF RetryExhausted, Labels, RowInv, RowUnmoved
<1>8. CASE Send(w) \/ SendFailed(w)
  <2>1. /\ \A q \in Posts \ {p} : sent'[q] = sent[q]
        /\ sent'[p] \in {sent[p], sent[p] + 1}
        /\ Send(w) => sent'[p] = sent[p] + 1
    BY <1>2, <1>8 DEF Send, SendFailed, TypeOK
  <2>2. PICK label \in {"publish", "fail"} : Goto(w, label) /\ (label = "publish" => Send(w))
    BY <1>8 DEF Send, SendFailed
  <2>3. rows[p].started /\ (moves = 0 => sent[p] = 0)
    BY <1>3, <1>8 DEF Send, SendFailed, WorkerInv, WorkerUnmoved
  <2>4. /\ sent[p] > 0 => sent'[p] > 0
        /\ label = "publish" => sent'[p] > 0
        /\ moves = 0 => sent'[p] <= 1
    BY <1>2, <2>1, <2>2, <2>3
  <2>5. UNCHANGED <<now, rows, moves>>
    BY <1>8 DEF Send, SendFailed
  <2> QED
    BY <1>1, <2>1, <2>2, <2>3, <2>4, <2>5, GotoKeeps DEF Labels
<1>9. CASE Prepared(w)
  <2> DEFINE new == [rows[p] EXCEPT !.status = "scheduled", !.run = "timed",
                                    !.next = Later(seen[w].at)]
  <2>1. new \in Row /\ new.status = "scheduled" /\ new.started = rows[p].started
    <3>1. new \in Row
      BY <1>1, <1>2, HandlerRows
    <3> QED
      BY <1>2, <3>1 DEF Row
  <2>2. AdvanceTo(w, new, "idle") /\ UNCHANGED <<now, sent, moves>>
    BY <1>9 DEF Prepared
  <2> HIDE DEF new
  <2> QED
    BY <1>1, <2>1, <2>2, AdvanceToKeeps DEF Ended
<1>10. CASE Delay(w)
  <2> DEFINE new == [rows[p] EXCEPT !.run = "timed", !.next = seen[w].at]
  <2>1. new \in Row /\ new.status = rows[p].status /\ new.started = rows[p].started
    <3>1. new \in Row
      BY <1>1, <1>2, HandlerRows
    <3> QED
      BY <1>2, <3>1 DEF Row
  <2>2. AdvanceTo(w, new, "idle") /\ UNCHANGED <<now, sent, moves>>
    BY <1>10 DEF Delay
  <2>3. CASE Accepts(rows[p])
    <3>1. new.status \notin {"absent", "cancelled"}
      BY <2>1, <2>3 DEF Accepts, Open
    <3>2. ~ Ended(new)
      BY <2>1, <2>3 DEF Accepts, Open, Ended
    <3>3. /\ new.status = "publishing" => new.started
          /\ new.status = "published" => sent[p] > 0
          /\ moves = 0 /\ new.status = "preparing" => ~ new.started
      BY <1>3, <2>1 DEF RowInv, RowUnmoved
    <3> HIDE DEF new
    <3> QED
      BY <1>1, <2>1, <2>2, <3>1, <3>2, <3>3, AdvanceToKeeps
  <2>4. CASE ~ Accepts(rows[p])
    BY <1>1, <2>2, <2>4, IdleKeeps DEF AdvanceTo
  <2> QED
    BY <2>3, <2>4
<1>11. CASE MarkStarted(w)
  <2> DEFINE new == [rows[p] EXCEPT !.status = "publishing", !.started = TRUE]
  <2>1. new \in Row /\ new.status = "publishing" /\ new.started /\ new.run = rows[p].run
    <3>1. new \in Row
      BY <1>1, <1>2, HandlerRows
    <3> QED
      BY <1>2, <3>1 DEF Row
  <2>2. AdvanceTo(w, new, "send") /\ UNCHANGED <<now, sent, moves>>
    BY <1>11 DEF MarkStarted
  <2>3. seen[w].at <= now /\ (moves = 0 => ~ rows[p].started)
    BY <1>3, <1>11 DEF MarkStarted, WorkerInv, WorkerUnmoved
  <2>4. moves = 0 => sent[p] = 0 /\ (Ended(rows[p]) \/ new.run = "leased")
    BY <1>2, <1>3, <2>1, <2>3 DEF RowInv, WorkerUnmoved
  <2> HIDE DEF new
  <2> QED
    BY <1>1, <2>1, <2>2, <2>3, <2>4, AdvanceToKeeps DEF Ended
<1>12. CASE Published(w) \/ Fail(w)
  <2>1. PICK status \in {"published", "failed"} :
            /\ AdvanceTo(w, [rows[p] EXCEPT !.status = status, !.run = "none"], "idle")
            /\ status = "published" => sent[p] > 0
    BY <1>3, <1>12 DEF Published, Fail, WorkerInv
  <2> DEFINE new == [rows[p] EXCEPT !.status = status, !.run = "none"]
  <2>2. /\ new \in Row /\ new.status = status /\ new.started = rows[p].started
        /\ new.run = "none"
    <3>1. new \in Row
      BY <1>1, <1>2, HandlerRows
    <3> QED
      BY <1>2, <3>1 DEF Row
  <2>3. UNCHANGED <<now, sent, moves>>
    BY <1>12 DEF Published, Fail
  <2>4. AdvanceTo(w, new, "idle")
    BY <2>1
  <2> HIDE DEF new
  <2> QED
    BY <1>1, <2>1, <2>2, <2>3, <2>4, AdvanceToKeeps DEF Ended
<1>13. CASE Retry(w)
  <2> DEFINE new == [rows[p] EXCEPT !.status = seen[w].status, !.run = "timed", !.next = now,
                                    !.attempts = @ + 1]
  <2>1. new \in Row /\ new.status = seen[w].status /\ new.started = rows[p].started
    <3>1. new \in Row
      BY <1>1, <1>2, <1>4, HandlerRows
    <3> QED
      BY <1>2, <3>1 DEF Row
  <2>2. AdvanceTo(w, new, "idle") /\ UNCHANGED <<now, sent, moves>>
    BY <1>13 DEF Retry
  <2>3. /\ new.status = "publishing" => new.started
        /\ moves = 0 => ~ new.started
        /\ ~ Ended(new)
    BY <1>3, <1>13, <2>1 DEF Retry, WorkerInv, WorkerUnmoved, Open, Ended
  <2> HIDE DEF new
  <2> QED
    BY <1>1, <1>4, <2>1, <2>2, <2>3, AdvanceToKeeps
<1> QED
  BY <1>5, <1>6, <1>7, <1>8, <1>9, <1>10, <1>11, <1>12, <1>13 DEF HandlerStep

LEMMA NextInv == TypeOK /\ PostsInv /\ [Next]_vars => PostsInv'
<1> SUFFICES ASSUME TypeOK, PostsInv, [Next]_vars
             PROVE  PostsInv'
  OBVIOUS
<1>1. CASE UNCHANGED vars
  BY <1>1 DEF vars, workers, PostsInv, RowInv, RowUnmoved, WorkerInv, WorkerUnmoved
<1>2. ASSUME NEW w \in Workers, Die(w)
      PROVE  PostsInv'
  BY <1>2, IdleKeeps DEF Die
<1>3. 0 \in Times
  BY PostBounds DEF Times
<1>4. ASSUME NEW p \in Posts, Cancel(p)
      PROVE  PostsInv'
  BY <1>3, <1>4, UserKeeps
<1>5. ASSUME NEW p \in Posts, NEW t \in Times, Schedule(p, t) \/ Reschedule(p, t)
      PROVE  PostsInv'
  BY <1>5, UserKeeps
<1> QED
  BY <1>1, <1>2, <1>4, <1>5, ClaimKeeps, ClockKeeps, HandlerKeeps DEF Next

-----------------------------------------------------------------------------
(* The theorems.                                                           *)

\* The rows stay in the domains of their columns, and what PostsInv says of the
\* rows, the mark and the workers holds whatever the user, the platform, the
\* clock and crashes do: the type invariant of the processor's updates needs to
\* know that a worker was handed an open post.
THEOREM PostsInvariant == Spec => [](TypeOK /\ PostsInv)
<1>1. Init => TypeOK /\ PostsInv
  BY InitType, InitInv
<1>2. TypeOK /\ PostsInv /\ [Next]_vars => (TypeOK /\ PostsInv)'
  BY NextType, NextInv
<1> QED
  BY <1>1, <1>2, PTL DEF Spec

\* Rows, snapshots and the clock stay in their domains.
THEOREM PostsTypeCorrect == Spec => []TypeOK
<1>1. TypeOK /\ PostsInv => TypeOK
  OBVIOUS
<1> QED
  BY <1>1, PostsInvariant, PTL

\* A post the user cancelled is not out and no worker is about to send it,
\* however many workers hold it on an old snapshot.
THEOREM CancelledStaysUnsent == Spec => []CancelledIsNotSent
<1>1. TypeOK /\ PostsInv => CancelledIsNotSent
  <2> SUFFICES ASSUME TypeOK, PostsInv, NEW p \in Posts, rows[p].status = "cancelled"
               PROVE  sent[p] = 0 /\ \A w \in Workers : at[w] = p => pc[w] \notin {"send", "publish"}
    BY DEF CancelledIsNotSent
  <2>1. ~ rows[p].started /\ ~ (sent[p] > 0) /\ sent[p] \in Nat
    BY DEF PostsInv, RowInv, TypeOK
  <2>2. sent[p] = 0
    BY <2>1
  <2> QED
    BY <2>1, <2>2 DEF PostsInv, WorkerInv
<1> QED
  BY <1>1, PostsInvariant, PTL

\* A post that may be out carries the mark, and one reported as published is out.
THEOREM MarkComesFirst == Spec => []MarkedBeforeSent
<1>1. PostsInv => MarkedBeforeSent
  BY DEF PostsInv, RowInv, MarkedBeforeSent
<1> QED
  BY <1>1, PostsInvariant, PTL

\* As long as nobody moves a post, the platform is given every post at most
\* once: leases, crashes, retries and lost answers never send it again.
THEOREM SentAtMostOnce == Spec => []SentOnceUnmoved
<1>1. PostsInv => SentOnceUnmoved
  BY DEF PostsInv, RowUnmoved, SentOnceUnmoved
<1> QED
  BY <1>1, PostsInvariant, PTL

\* No worker sends a post before the time it was handed with it.
THEOREM TimesAreKept == Spec => WaitsForItsTime
<1>1. TypeOK /\ PostsInv /\ [Next]_vars =>
          [\A w \in Workers : pc[w] = "send" /\ pc'[w] # "send" /\ sent' # sent
                                   => seen[w].at <= now]_vars
  BY DEF PostsInv, WorkerInv
<1> QED
  BY <1>1, PostsInvariant, PTL DEF Spec, WaitsForItsTime

\* A post that was published, failed or cancelled stays so: no late worker and
\* no late request changes anything of its row.
THEOREM EndsAreFinal == Spec => EndIsFinal
<1>1. TypeOK /\ PostsInv /\ [Next]_vars =>
          [\A p \in Posts : Ended(rows[p]) => rows'[p] = rows[p]]_vars
  <2> SUFFICES ASSUME TypeOK, PostsInv, Next, NEW p \in Posts, Ended(rows[p])
               PROVE  rows'[p] = rows[p]
    BY DEF vars
  <2>1. ASSUME NEW q \in Posts, NEW t \in Times, Schedule(q, t) \/ Reschedule(q, t)
        PROVE  rows'[p] = rows[p]
    BY <2>1 DEF Schedule, Reschedule, NotStarted, Ended, TypeOK
  <2>2. ASSUME NEW q \in Posts, Cancel(q)
        PROVE  rows'[p] = rows[p]
    BY <2>2 DEF Cancel, NotStarted, Ended, TypeOK
  <2>3. ASSUME NEW q \in Posts, LeaseExpires(q)
        PROVE  rows'[p] = rows[p]
    BY <2>3 DEF LeaseExpires, TypeOK, PostsInv, RowInv
  <2>4. ASSUME NEW w \in Workers, NEW q \in Posts, Claim(w, q)
        PROVE  rows'[p] = rows[p]
    BY <2>4 DEF Claim, Open, Ended, TypeOK
  <2>5. ASSUME NEW w \in Workers, HandlerStep(w)
        PROVE  rows'[p] = rows[p]
    <3>1. ASSUME NEW new, NEW label, AdvanceTo(w, new, label)
          PROVE  rows'[p] = rows[p]
      BY <3>1 DEF AdvanceTo, Accepts, Open, Ended, TypeOK
    <3>2. CASE UNCHANGED rows
      BY <3>2
    <3>3. CASE \E new, label : AdvanceTo(w, new, label)
      BY <3>1, <3>3
    <3>4. Handle(w) \/ NotSent(w) \/ Send(w) \/ SendFailed(w) \/ RetryExhausted(w)
              => UNCHANGED rows
      BY DEF Handle, NotSent, Send, SendFailed, RetryExhausted
    <3>5. Prepared(w) \/ Delay(w) \/ MarkStarted(w) \/ Published(w) \/ Retry(w) \/ Fail(w)
              => \E new, label : AdvanceTo(w, new, label)
      BY Zenon DEF Prepared, Delay, MarkStarted, Published, Retry, Fail
    <3> QED
      BY <2>5, <3>2, <3>3, <3>4, <3>5 DEF HandlerStep
  <2>6. CASE Tick \/ \E w \in Workers : Die(w)
    BY <2>6 DEF Tick, Die
  <2> QED
    BY <2>1, <2>2, <2>3, <2>4, <2>5, <2>6 DEF Next
<1> QED
  BY <1>1, PostsInvariant, PTL DEF Spec, EndIsFinal
=============================================================================
