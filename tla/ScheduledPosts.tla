--------------------------- MODULE ScheduledPosts ---------------------------
(***************************************************************************)
(* Posting a finished video to a social account at a chosen time: the rows *)
(* of public.scheduled_posts, the user's Schedule, Cancel and Reschedule,  *)
(* and the worker pool running publish.Processor.                          *)
(*                                                                         *)
(* Every step is one statement on the row, or one call of the platform.    *)
(* The clock ticks in units longer than a retry's delay, so a retry is due *)
(* in the tick that asks for it; a lease is as long as no worker holds the *)
(* post (HandleTimeout is shorter than Lease).                             *)
(***************************************************************************)
EXTENDS Naturals

CONSTANTS
    Posts,           \* the posts that can be asked for: a (user, idempotency key)
    Workers,         \* slots of the posts pool, over every instance of the API
    NoPost,          \* no post: what an idle worker works on
    Horizon,         \* bound: the last instant
    MaxAttempts,     \* maxAttempts of the processor
    MaxReschedules,  \* bound: how often the user moves a post
    MaxDeaths        \* bound: how many workers may die in a behaviour

ASSUME PostsAssumption == NoPost \notin Posts
ASSUME PostBounds == /\ Horizon \in Nat /\ MaxAttempts \in Nat \ {0}
                     /\ MaxReschedules \in Nat /\ MaxDeaths \in Nat

Times == 0 .. Horizon

VARIABLES
    now,     \* the clock
    rows,    \* public.scheduled_posts
    pc,      \* where each worker stands
    at,      \* the post it works on
    seen,    \* the row it was handed when it claimed the post
    sent,    \* how often the platform took the post
    moves,   \* how often the user moved a post
    deaths   \* workers that died so far

workers == <<pc, at, seen>>
vars == <<now, rows, workers, sent, moves, deaths>>

Statuses == {"preparing", "scheduled", "publishing", "published", "failed", "cancelled"}
Open == {"preparing", "scheduled", "publishing"}

\* next_run_at is a time ("timed"), pushed out by a claim ("leased") or null.
Row == [status : Statuses \cup {"absent"}, at : Times, run : {"none", "timed", "leased"},
        next : Times, started : BOOLEAN, attempts : Nat]

NoRow == [status |-> "absent", at |-> 0, run |-> "none", next |-> 0,
          started |-> FALSE, attempts |-> 0]

Labels == {"idle", "handle", "prepare", "delay", "load", "retry", "send", "publish", "fail"}

\* The rows stay in the domains of their columns, and a worker that works has a post.
TypeOK ==
    /\ now \in Times
    /\ rows \in [Posts -> Row]
    /\ pc \in [Workers -> Labels]
    /\ at \in [Workers -> Posts \cup {NoPost}]
    /\ seen \in [Workers -> Row]
    /\ \A w \in Workers : pc[w] # "idle" => at[w] \in Posts
    /\ sent \in [Posts -> Nat]
    /\ moves \in 0 .. MaxReschedules
    /\ deaths \in 0 .. MaxDeaths

Init ==
    /\ now = 0
    /\ rows = [p \in Posts |-> NoRow]
    /\ pc = [w \in Workers |-> "idle"]
    /\ at = [w \in Workers |-> NoPost]
    /\ seen = [w \in Workers |-> NoRow]
    /\ sent = [p \in Posts |-> 0]
    /\ moves = 0
    /\ deaths = 0

Ended(row) == row.status \in {"published", "failed", "cancelled"}

\* Mutation of Later: one tick is added to be on the safe side.
Later_Padded(t) == IF t <= now THEN now + 1 ELSE t

Later(t) == IF t < now THEN now ELSE t

-----------------------------------------------------------------------------
(* The user.                                                               *)

\* The video is fetched at once, whenever the post is meant to go out.  A
\* repeated key changes nothing.
Schedule(p, t) ==
    /\ rows[p].status = "absent"
    /\ t >= now
    /\ rows' = [rows EXCEPT ![p] = [NoRow EXCEPT !.status = "preparing", !.at = t,
                                                 !.run = "timed", !.next = now]]
    /\ UNCHANGED <<now, workers, sent, moves, deaths>>

\* Mutation of NotStarted: the mark a worker leaves before it calls the
\* platform is not looked at, nor the status it leaves with it.
NotStarted_Open(row) == row.status \in Open

\* What Cancel and Reschedule ask of the row they update.
NotStarted(row) == row.status \in {"preparing", "scheduled"} /\ ~ row.started

Cancel(p) ==
    /\ NotStarted(rows[p])
    /\ rows' = [rows EXCEPT ![p].status = "cancelled", ![p].run = "none"]
    /\ UNCHANGED <<now, workers, sent, moves, deaths>>

\* The new time becomes next_run_at too, whoever holds the lease.
Reschedule(p, t) ==
    /\ moves < MaxReschedules
    /\ NotStarted(rows[p])
    /\ t >= now
    /\ rows' = [rows EXCEPT ![p].at = t, ![p].run = "timed", ![p].next = t]
    /\ moves' = moves + 1
    /\ UNCHANGED <<now, workers, sent, deaths>>

-----------------------------------------------------------------------------
(* The worker pool and publish.Processor.Handle.                           *)

Idle(w) ==
    /\ pc' = [pc EXCEPT ![w] = "idle"]
    /\ at' = [at EXCEPT ![w] = NoPost]
    /\ seen' = [seen EXCEPT ![w] = NoRow]

Goto(w, label) == pc' = [pc EXCEPT ![w] = label] /\ UNCHANGED <<at, seen>>

\* Mutation of Accepts: a worker's update goes in whatever the row says.
Accepts_Anything(row) == TRUE

\* PostStore.Advance refuses a post that ended, and nothing else.
Accepts(row) == row.status \in Open

\* Change the row of w's post to `new` and go on at `label`, or give up if the
\* post ended meanwhile.
AdvanceTo(w, new, label) ==
    IF Accepts(rows[at[w]])
    THEN /\ rows' = [rows EXCEPT ![at[w]] = new]
         /\ IF label = "idle" THEN Idle(w) ELSE Goto(w, label)
    ELSE Idle(w) /\ UNCHANGED rows

\* Mutation of Claim: the post is taken for good, with no lease to run out.
Claim_Forever(w, p) ==
    /\ pc[w] = "idle"
    /\ rows[p].status \in Open
    /\ rows[p].run = "timed" /\ rows[p].next <= now
    /\ rows' = [rows EXCEPT ![p].run = "none"]
    /\ pc' = [pc EXCEPT ![w] = "handle"]
    /\ at' = [at EXCEPT ![w] = p]
    /\ seen' = [seen EXCEPT ![w] = rows[p]]
    /\ UNCHANGED <<now, sent, moves, deaths>>

Claim(w, p) ==
    /\ pc[w] = "idle"
    /\ rows[p].status \in Open
    /\ rows[p].run = "timed" /\ rows[p].next <= now
    /\ rows' = [rows EXCEPT ![p].run = "leased"]
    /\ pc' = [pc EXCEPT ![w] = "handle"]
    /\ at' = [at EXCEPT ![w] = p]
    /\ seen' = [seen EXCEPT ![w] = rows[p]]
    /\ UNCHANGED <<now, sent, moves, deaths>>

\* Mutation of Branch: a post found started is sent again.
Branch_Resend(w) ==
    IF seen[w].status = "preparing"                             THEN "prepare"
    ELSE IF seen[w].status = "scheduled" /\ now < seen[w].at    THEN "delay"
    ELSE "load"

\* What Handle does with the row it was given: copy the video; report a post
\* that was started and never finished; wait for its time; or send it.
Branch(w) ==
    IF seen[w].status = "preparing"                             THEN "prepare"
    ELSE IF seen[w].started                                     THEN "fail"
    ELSE IF seen[w].status = "scheduled" /\ now < seen[w].at    THEN "delay"
    ELSE "load"

Handle(w) ==
    /\ pc[w] = "handle"
    /\ Goto(w, Branch(w))
    /\ UNCHANGED <<now, rows, sent, moves, deaths>>

Prepared(w) ==
    /\ pc[w] = "prepare"
    /\ AdvanceTo(w, [rows[at[w]] EXCEPT !.status = "scheduled", !.run = "timed",
                                        !.next = Later(seen[w].at)], "idle")
    /\ UNCHANGED <<now, sent, moves, deaths>>

\* The fetch, the upload, the sign-in or the kept copy failed: for good, or for
\* now.  Nothing has been sent.
NotSent(w) ==
    /\ pc[w] \in {"prepare", "load"}
    /\ \E label \in {"fail", "retry"} : Goto(w, label)
    /\ UNCHANGED <<now, rows, sent, moves, deaths>>

Delay(w) ==
    /\ pc[w] = "delay"
    /\ AdvanceTo(w, [rows[at[w]] EXCEPT !.run = "timed", !.next = seen[w].at], "idle")
    /\ UNCHANGED <<now, sent, moves, deaths>>

\* Mutation of MarkStarted: the mark is left to the update that follows the call.
MarkStarted_Late(w) ==
    /\ pc[w] = "load"
    /\ AdvanceTo(w, [rows[at[w]] EXCEPT !.status = "publishing"], "send")
    /\ UNCHANGED <<now, sent, moves, deaths>>

\* Recorded before the platform is called.
MarkStarted(w) ==
    /\ pc[w] = "load"
    /\ AdvanceTo(w, [rows[at[w]] EXCEPT !.status = "publishing", !.started = TRUE], "send")
    /\ UNCHANGED <<now, sent, moves, deaths>>

\* The platform takes the post and its answer arrives.
Send(w) ==
    /\ pc[w] = "send"
    /\ sent' = [sent EXCEPT ![at[w]] = @ + 1]
    /\ Goto(w, "publish")
    /\ UNCHANGED <<now, rows, moves, deaths>>

\* The platform refuses, or no answer arrives: it may have taken the post.
SendFailed(w) ==
    /\ pc[w] = "send"
    /\ \/ sent' = [sent EXCEPT ![at[w]] = @ + 1]
       \/ UNCHANGED sent
    /\ Goto(w, "fail")
    /\ UNCHANGED <<now, rows, moves, deaths>>

Published(w) ==
    /\ pc[w] = "publish"
    /\ AdvanceTo(w, [rows[at[w]] EXCEPT !.status = "published", !.run = "none"], "idle")
    /\ UNCHANGED <<now, sent, moves, deaths>>

Retry(w) ==
    /\ pc[w] = "retry"
    /\ seen[w].attempts + 1 < MaxAttempts
    /\ AdvanceTo(w, [rows[at[w]] EXCEPT !.status = seen[w].status, !.run = "timed",
                                        !.next = now, !.attempts = @ + 1], "idle")
    /\ UNCHANGED <<now, sent, moves, deaths>>

RetryExhausted(w) ==
    /\ pc[w] = "retry"
    /\ seen[w].attempts + 1 >= MaxAttempts
    /\ Goto(w, "fail")
    /\ UNCHANGED <<now, rows, sent, moves, deaths>>

Fail(w) ==
    /\ pc[w] = "fail"
    /\ AdvanceTo(w, [rows[at[w]] EXCEPT !.status = "failed", !.run = "none"], "idle")
    /\ UNCHANGED <<now, sent, moves, deaths>>

\* The process dies, its time runs out, or the database stops answering it.
Die(w) ==
    /\ pc[w] # "idle"
    /\ deaths < MaxDeaths
    /\ deaths' = deaths + 1
    /\ Idle(w)
    /\ UNCHANGED <<now, rows, sent, moves>>

-----------------------------------------------------------------------------
(* The clock.                                                              *)

Tick == now < Horizon /\ now' = now + 1 /\ UNCHANGED <<rows, workers, sent, moves, deaths>>

\* Mutation of LeaseExpires: the handler may outlive its lease.
LeaseExpires_Early(p) ==
    /\ rows[p].run = "leased"
    /\ rows' = [rows EXCEPT ![p].run = "timed", ![p].next = now]
    /\ UNCHANGED <<now, workers, sent, moves, deaths>>

LeaseExpires(p) ==
    /\ rows[p].run = "leased"
    /\ \A w \in Workers : at[w] # p
    /\ rows' = [rows EXCEPT ![p].run = "timed", ![p].next = now]
    /\ UNCHANGED <<now, workers, sent, moves, deaths>>

-----------------------------------------------------------------------------
HandlerStep(w) ==
    \/ Handle(w) \/ Prepared(w) \/ NotSent(w) \/ Delay(w) \/ MarkStarted(w) \/ Send(w)
    \/ SendFailed(w) \/ Published(w) \/ Retry(w) \/ RetryExhausted(w) \/ Fail(w)

Next ==
    \/ \E p \in Posts, t \in Times : Schedule(p, t) \/ Reschedule(p, t)
    \/ \E p \in Posts : Cancel(p) \/ LeaseExpires(p)
    \/ \E w \in Workers, p \in Posts : Claim(w, p)
    \/ \E w \in Workers : HandlerStep(w) \/ Die(w)
    \/ Tick

Spec == Init /\ [][Next]_vars

\* The pool ticks, oldest due row first; a worker runs on; the clock moves.
\* Nothing is assumed of the user or of the platform.
Fairness ==
    /\ WF_vars(Tick)
    /\ \A w \in Workers : WF_vars(HandlerStep(w))
    /\ \A p \in Posts : /\ SF_vars(\E w \in Workers : Claim(w, p))
                        /\ WF_vars(LeaseExpires(p))

FairSpec == Spec /\ Fairness

-----------------------------------------------------------------------------
(* Safety.                                                                 *)

\* Whatever a worker does after a crash, a lease, a retry or a lost answer, the
\* platform is given a post once, as long as the user moves none.
SentOnceUnmoved == moves = 0 => \A p \in Posts : sent[p] <= 1

\* A user who was told the post is cancelled never sees it appear: no worker
\* has sent it, and none is about to.
CancelledIsNotSent ==
    \A p \in Posts :
        rows[p].status = "cancelled" =>
            sent[p] = 0 /\ \A w \in Workers : at[w] = p => pc[w] \notin {"send", "publish"}

\* What the row says and what the platform has agree: a published post is out,
\* and one that may be out carries the mark the next worker looks for.
MarkedBeforeSent ==
    \A p \in Posts : /\ rows[p].status = "published" => sent[p] > 0
                     /\ sent[p] > 0 => rows[p].started

-----------------------------------------------------------------------------
(* Why: the strengthening of the invariants above that every step keeps.   *)

\* The mark is never taken back, so a cancelled post never had one; and a post
\* that ended has no next run, so no lease of it runs out.
RowInv(p) ==
    /\ rows[p].status \in {"absent", "cancelled"} => ~ rows[p].started
    /\ rows[p].status = "publishing" => rows[p].started
    /\ rows[p].status = "published" => sent[p] > 0
    /\ sent[p] > 0 => rows[p].started
    /\ Ended(rows[p]) => rows[p].run = "none"

\* What a worker knows of its post from the row it was handed and from how far
\* it has come.
WorkerInv(w) ==
    /\ rows[at[w]].status # "absent"
    /\ seen[w].status \in Open
    /\ seen[w].status = "publishing" => seen[w].started
    /\ seen[w].started => rows[at[w]].started
    /\ pc[w] \in {"send", "publish"} => rows[at[w]].started
    /\ pc[w] = "publish" => sent[at[w]] > 0
    /\ pc[w] \in {"load", "send"} => seen[w].at <= now

RowUnmoved(p) ==
    /\ rows[p].status = "preparing" => ~ rows[p].started
    /\ sent[p] <= 1

\* While the user moves nothing a worker is alone on its post, and nothing it
\* has read of the mark goes stale.
WorkerUnmoved(w) ==
    /\ Ended(rows[at[w]]) \/ rows[at[w]].run = "leased"
    /\ \A v \in Workers \ {w} : pc[v] # "idle" => at[v] # at[w]
    /\ pc[w] = "handle" => /\ rows[at[w]].started => seen[w].started
                           /\ seen[w].status = "preparing" => ~ seen[w].started
    /\ pc[w] \in {"prepare", "load", "retry"} => ~ rows[at[w]].started
    /\ pc[w] = "send" => sent[at[w]] = 0

PostsInv ==
    /\ \A p \in Posts : RowInv(p)
    /\ \A w \in Workers : pc[w] # "idle" => WorkerInv(w)
    /\ moves = 0 => /\ \A p \in Posts : RowUnmoved(p)
                    /\ \A w \in Workers : pc[w] # "idle" => WorkerUnmoved(w)

-----------------------------------------------------------------------------
(* Action properties.                                                      *)

\* A post that ended stays as it ended: a late worker undoes no cancel and
\* overwrites no result.
EndIsFinal == [][\A p \in Posts : Ended(rows[p]) => rows'[p] = rows[p]]_vars

\* A worker sends no post before the time it was handed with it, even when the
\* row came due early because a worker that prepared it did not know of a move.
WaitsForItsTime ==
    [][\A w \in Workers : pc[w] = "send" /\ pc'[w] # "send" /\ sent' # sent
                              => seen[w].at <= now]_vars

-----------------------------------------------------------------------------
(* Liveness, under FairSpec.                                               *)

\* Every post that is scheduled goes out, fails, or is cancelled, even if the
\* worker that had it died.
EveryPostEnds == \A p \in Posts : rows[p].status # "absent" ~> Ended(rows[p])

-----------------------------------------------------------------------------
(* What the comments say and the code does not do.                         *)

\* publish/publish.go, on the package: "A post is only ever sent once".  Not so
\* for a post moved while a worker holds it.
SentOnce == \A p \in Posts : sent[p] <= 1

\* publish/processor.go, in publish: "a post is never sent before its time".
NeverEarly == [][\A p \in Posts : sent'[p] > sent[p] => now >= rows[p].at]_vars
=============================================================================
