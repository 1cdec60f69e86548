----------------------------- MODULE UsageWindows -----------------------------
(* What one member is charged for work (internal/credits, database/usage.go and    *)
(* credits.go).  A free member pays credits, a Pro member points of two usage      *)
(* windows, and credits again where overage is on and a window is full.  Every     *)
(* statement and transaction of a charge and of its closing is a step of its own,  *)
(* so the charges of two jobs interleave; the plan changes under them, and time    *)
(* goes by.  The sign-up grant is the balance at the start.  Left out: the mail      *)
(* that says a window is full, which nothing reads.                                *)
EXTENDS Integers, FiniteSets, Functions

CONSTANTS
    Jobs,           \* jobs, searches, avatars: whatever is charged for
    Price,          \* [Jobs -> what a job is estimated at]
    How,            \* [Jobs -> "fixed", "measured" (an avatar video) or "flat" (a search)]
    Measured,       \* [Jobs -> what the length of a measured job comes to]
    Percent,        \* the free multiplier
    FiveLimit, WeekLimit, Cap, DayLimit, \* limits; no limit where they are 0, but for Cap
    Five, Day, Week, Month, \* how long a window, a day, a week and a month are
    Grant,          \* the credits at the start
    Start, MaxTime  \* bound: when it is at first, and at the end

VARIABLES
    now, plan, overage,
    five, week,     \* usage_state: when the window began, and the points in it
    events,         \* usage_events: what a charge took
    balance,
    taken, takenAt, \* the ledger's "reserve" entry of a job
    back, backAt,   \* and its "close" entry
    pc, way,        \* how far the charging of a job is, and how it is charged
    end,            \* how the job's own row ended
    closing,        \* the closings of its charge under way
    crowded,        \* history: two charges were between a read and its write at once
    early,          \* history: a closing began before the charge was through
    lost            \* history: the closing of a job was lost

vars == <<now, plan, overage, five, week, events, balance, taken, takenAt, back, backAt,
          pc, way, end, closing, crowded, early, lost>>
windows == <<five, week, events>>
ledger == <<balance, taken, takenAt, back, backAt>>
charging == <<pc, way, crowded>>
rows == <<end, closing, early, lost>>
world == <<now, plan, overage>>

Never == -1
NoEvent == [points |-> 0, mult |-> 0, overage |-> FALSE, five |-> Never, week |-> Never, at |-> Never]
Found(ev) == ev.at # Never
Closers == {"finish", "sweep"}
NotClosing == [step |-> "no", actual |-> 0, event |-> NoEvent]
Closing == [step |-> "due", actual |-> 0, event |-> NoEvent]
Times == 0 .. MaxTime

\* Lengths of time are positive, there are finitely many jobs, and prices, limits and
\* the grant are numbers.
UsageAssumption ==
    /\ IsFiniteSet(Jobs)
    /\ Price \in [Jobs -> Nat] /\ Measured \in [Jobs -> Nat]
    /\ How \in [Jobs -> {"fixed", "measured", "flat"}]
    /\ Percent \in Nat \ {0}
    /\ FiveLimit \in Nat /\ WeekLimit \in Nat /\ Cap \in Nat /\ DayLimit \in Nat
    /\ Five \in Nat \ {0} /\ Week \in Nat \ {0} /\ Month \in Nat \ {0} /\ Day \in Nat
    /\ Grant \in Nat /\ MaxTime \in Nat /\ Start \in Times

CeilPct(amount, pct) == (amount * pct + 99) \div 100
Least(x, y) == IF x < y THEN x ELSE y
Most(x, y) == IF x < y THEN y ELSE x

\* Monday, and the first of the month, on or before t.
WeekStart(t) == t - (t % Week)
MonthStart(t) == t - (t % Month)

\* state.current: a window that is over counts as empty.
CurrentFive == IF five.start = Never \/ now >= five.start + Five
               THEN [start |-> Never, points |-> 0] ELSE five
CurrentWeek == IF week.start # WeekStart(now)
               THEN [start |-> WeekStart(now), points |-> 0] ELSE week

FiveIsFull == FiveLimit > 0 /\ CurrentFive.points >= FiveLimit /\ CurrentFive.start # Never
WeekIsFull == WeekLimit > 0 /\ CurrentWeek.points >= WeekLimit

\* What overage took this month, and what the ledger says was spent in a day.
OverageUsed == SumFunctionOnSet(taken,
                    {j \in Jobs : events[j].overage /\ events[j].at >= MonthStart(now)})
Within(at, j) == at[j] # Never /\ at[j] >= now - Day
Spent == SumFunctionOnSet(taken, {j \in Jobs : Within(takenAt, j)})
         - SumFunctionOnSet(back, {j \in Jobs : Within(backAt, j)})

\* What a job costs the way it is charged.
Cost(j) == IF way[j] = "free" THEN CeilPct(Price[j], Percent) ELSE Price[j]
Mult(j) == IF way[j] = "free" THEN Percent ELSE 100

-----------------------------------------------------------------------------
Init ==
    /\ now = Start /\ plan \in {"free", "pro"} /\ overage = FALSE
    /\ five = [start |-> Never, points |-> 0] /\ week = [start |-> Never, points |-> 0]
    /\ events = [j \in Jobs |-> NoEvent]
    /\ balance = Grant
    /\ taken = [j \in Jobs |-> 0] /\ takenAt = [j \in Jobs |-> Never]
    /\ back = [j \in Jobs |-> 0] /\ backAt = [j \in Jobs |-> Never]
    /\ pc = [j \in Jobs |-> "new"] /\ way = [j \in Jobs |-> "none"]
    /\ end = [j \in Jobs |-> "no"]
    /\ closing = [j \in Jobs |-> [c \in Closers |-> NotClosing]]
    /\ crowded = FALSE /\ early = [j \in Jobs |-> FALSE] /\ lost = [j \in Jobs |-> FALSE]

\* A charge between the read of a sum and the entry that adds to it.
Pending == {"allowed", "checked", "charged"}
Move(j, to) ==
    /\ pc' = [pc EXCEPT ![j] = to]
    /\ crowded' = (crowded \/ (to \in Pending /\ \E k \in Jobs \ {j} : pc[k] \in Pending))

\* A charge that is refused closes the row, which is over with nobody told.
Refuse(j) ==
    /\ Move(j, "refused")
    /\ end' = [end EXCEPT ![j] = IF @ = "no" THEN "failed" ELSE @]
    /\ UNCHANGED <<closing, early, lost>>

\* Reserve reads the plan.
ReadPlan(j) ==
    /\ pc[j] = "new"
    /\ way' = [way EXCEPT ![j] = plan]
    /\ Move(j, IF plan = "free" THEN "allowed" ELSE "counting")
    /\ UNCHANGED <<world, windows, ledger, rows>>

\* UsageStore.Take, under the lock of the member's usage_state.
Take(j) ==
    /\ pc[j] = "counting" /\ ~ FiveIsFull /\ ~ WeekIsFull
    /\ LET start == IF CurrentFive.start = Never THEN now ELSE CurrentFive.start IN
       /\ five' = [start |-> start, points |-> CurrentFive.points + Price[j]]
       /\ week' = [start |-> CurrentWeek.start, points |-> CurrentWeek.points + Price[j]]
       /\ events' = [events EXCEPT ![j] = [points |-> Price[j], mult |-> 100, overage |-> FALSE,
                        five |-> start, week |-> CurrentWeek.start, at |-> now]]
    /\ Move(j, "held")
    /\ UNCHANGED <<world, ledger, way, rows>>

TakeRefused(j) ==
    /\ pc[j] = "counting" /\ (FiveIsFull \/ WeekIsFull)
    /\ Move(j, "full")
    /\ UNCHANGED <<world, windows, ledger, way, rows>>

\* reservePro reads what overage has used, and goes on under the cap.
ReadOverage(j) ==
    /\ pc[j] = "full"
    /\ IF overage /\ OverageUsed + Price[j] <= Cap
       THEN Move(j, "allowed") /\ way' = [way EXCEPT ![j] = "overage"] /\ UNCHANGED rows
       ELSE Refuse(j) /\ UNCHANGED way
    /\ UNCHANGED <<world, windows, ledger>>

\* checkDailyLimit.
CheckDay(j) ==
    /\ pc[j] = "allowed"
    /\ IF DayLimit # 0 /\ Spent + Cost(j) > DayLimit
       THEN Refuse(j) ELSE Move(j, "checked") /\ UNCHANGED rows
    /\ UNCHANGED <<world, windows, ledger, way>>

\* CreditStore.Apply of the reservation.
Charge(j) ==
    /\ pc[j] = "checked" /\ balance >= Cost(j)
    /\ balance' = balance - Cost(j)
    /\ taken' = [taken EXCEPT ![j] = Cost(j)]
    /\ takenAt' = [takenAt EXCEPT ![j] = now]
    /\ Move(j, "charged")
    /\ UNCHANGED <<world, windows, back, backAt, way, rows>>

ChargeRefused(j) ==
    /\ pc[j] = "checked" /\ balance < Cost(j)
    /\ Refuse(j)
    /\ UNCHANGED <<world, windows, ledger, way>>

\* UsageStore.Record; where it fails the entry stays in the ledger.
Record(j) ==
    /\ pc[j] = "charged"
    /\ events' = [events EXCEPT ![j] = [points |-> 0, mult |-> Mult(j),
                     overage |-> (way[j] = "overage"), five |-> Never, week |-> Never, at |-> now]]
    /\ Move(j, "held")
    /\ UNCHANGED <<world, five, week, ledger, way, rows>>

RecordFails(j) ==
    /\ pc[j] = "charged"
    /\ Refuse(j)
    /\ UNCHANGED <<world, windows, ledger, way>>

-----------------------------------------------------------------------------
Goto(j, c, to) == closing' = [closing EXCEPT ![j][c] = to]

\* The worker ends the job; it may have taken it up before it was charged.
Ends(j) ==
    /\ pc[j] # "new" /\ end[j] = "no"
    /\ \E how \in {"made", "failed"} : end' = [end EXCEPT ![j] = how]
    /\ \/ /\ Goto(j, "finish", Closing)
          /\ lost' = lost
       \/ /\ closing' = closing
          /\ lost' = [lost EXCEPT ![j] = TRUE]
    /\ early' = [early EXCEPT ![j] = pc[j] # "held"]
    /\ UNCHANGED <<world, windows, ledger, charging>>

\* OpenJobs, OpenSearches, OpenAvatars: what is over and holds credits.
SweepFinds(j) ==
    /\ end[j] # "no" /\ takenAt[j] # Never /\ backAt[j] = Never
    /\ closing[j]["sweep"].step = "no"
    /\ Goto(j, "sweep", Closing)
    /\ early' = [early EXCEPT ![j] = @ \/ pc[j] \notin {"held", "refused"}]
    /\ UNCHANGED <<world, windows, ledger, charging, end, lost>>

\* JobBiller.actual: what the ledger holds, or the length where that is less; of what
\* failed, and of what has a flat price, nothing uses it.
Actual(j) == IF How[j] = "measured" THEN Least(Measured[j], taken[j]) ELSE taken[j]

ReadActual(j, c) ==
    /\ closing[j][c].step = "due"
    /\ Goto(j, c, [step |-> "priced", actual |-> Actual(j), event |-> NoEvent])
    /\ UNCHANGED <<world, windows, ledger, charging, end, early, lost>>

ReadEvent(j, c) ==
    /\ closing[j][c].step = "priced"
    /\ Goto(j, c, [step |-> "known", actual |-> closing[j][c].actual, event |-> events[j]])
    /\ UNCHANGED <<world, windows, ledger, charging, end, early, lost>>

\* What is handed back, as Refund, Settle and Keep work it out from what they read.
PointsBack(j, k) ==
    IF end[j] = "failed" THEN k.event.points
    ELSE IF How[j] = "flat" THEN 0 ELSE k.event.points - Most(k.actual, 0)
Due(k) == IF Found(k.event) THEN CeilPct(k.actual, k.event.mult) ELSE k.actual
CreditsBack(j, k) ==
    IF end[j] = "failed" THEN taken[j]
    ELSE IF How[j] = "flat" THEN 0 ELSE Most(taken[j] - Most(Due(k), 0), 0)

\* Mutation of GivePointsBack: off whatever windows there are by now.
GivePointsBack_AnyWindow(j, asked) ==
    LET points == Least(asked, events[j].points)
        less(w) == [start |-> w.start, points |-> Most(w.points - points, 0)]
    IN  IF points <= 0 THEN UNCHANGED windows ELSE
        /\ events' = [events EXCEPT ![j].points = @ - points]
        /\ five' = less(five) /\ week' = less(week)

\* UsageStore.Release: off the windows only where they are the ones it was counted in.
GivePointsBack(j, asked) ==
    LET points == Least(asked, events[j].points)
        less(w) == [start |-> w.start, points |-> Most(w.points - points, 0)]
    IN  IF points <= 0 THEN UNCHANGED windows ELSE
        /\ events' = [events EXCEPT ![j].points = @ - points]
        /\ five' = IF five.start = events[j].five THEN less(five) ELSE five
        /\ week' = IF week.start = events[j].week THEN less(week) ELSE week

ClosePoints(j, c) ==
    /\ closing[j][c].step = "known" /\ closing[j][c].event.points > 0
    /\ GivePointsBack(j, PointsBack(j, closing[j][c]))
    /\ Goto(j, c, NotClosing)
    /\ UNCHANGED <<world, ledger, charging, end, early, lost>>

\* The entry has the key "close:" of the job, whichever closing writes it.
CloseCredits(j, c) ==
    /\ closing[j][c].step = "known" /\ closing[j][c].event.points = 0
    /\ IF takenAt[j] = Never \/ backAt[j] # Never
       THEN UNCHANGED ledger
       ELSE /\ back' = [back EXCEPT ![j] = CreditsBack(j, closing[j][c])]
            /\ balance' = balance + CreditsBack(j, closing[j][c])
            /\ backAt' = [backAt EXCEPT ![j] = now]
            /\ UNCHANGED <<taken, takenAt>>
    /\ Goto(j, c, NotClosing)
    /\ UNCHANGED <<world, windows, charging, end, early, lost>>

Tick ==
    /\ now < MaxTime /\ now' = now + 1
    /\ UNCHANGED <<plan, overage, windows, ledger, charging, rows>>

\* The member subscribes or Pro ends (module Membership), or overage is switched.
PlanChanges ==
    /\ plan' = IF plan = "free" THEN "pro" ELSE "free"
    /\ UNCHANGED <<now, overage, windows, ledger, charging, rows>>

SetOverage ==
    /\ overage' = ~ overage
    /\ UNCHANGED <<now, plan, windows, ledger, charging, rows>>

Next ==
    \/ \E j \in Jobs :
        \/ ReadPlan(j) \/ Take(j) \/ TakeRefused(j) \/ ReadOverage(j) \/ CheckDay(j)
        \/ Charge(j) \/ ChargeRefused(j) \/ Record(j) \/ RecordFails(j)
        \/ Ends(j) \/ SweepFinds(j)
        \/ \E c \in Closers :
            ReadActual(j, c) \/ ReadEvent(j, c) \/ ClosePoints(j, c) \/ CloseCredits(j, c)
    \/ Tick \/ PlanChanges \/ SetOverage

Spec == Init /\ [][Next]_vars

-----------------------------------------------------------------------------
Window == [start : Times \cup {Never}, points : Nat]
Event == [points : Nat, mult : Nat, overage : BOOLEAN, five : Times \cup {Never},
          week : Times \cup {Never}, at : Times \cup {Never}]

TypeOK ==
    /\ now \in Times /\ plan \in {"free", "pro"} /\ overage \in BOOLEAN
    /\ five \in Window /\ week \in Window /\ events \in [Jobs -> Event]
    /\ balance \in Nat /\ {taken, back} \subseteq [Jobs -> Nat]
    /\ {takenAt, backAt} \subseteq [Jobs -> Times \cup {Never}]
    /\ pc \in [Jobs -> {"new", "counting", "full", "allowed", "checked", "charged", "held", "refused"}]
    /\ way \in [Jobs -> {"none", "free", "pro", "overage"}]
    /\ end \in [Jobs -> {"no", "made", "failed"}]
    /\ closing \in [Jobs -> [Closers -> [step : {"no", "due", "priced", "known"}, actual : Nat, event : Event]]]
    /\ crowded \in BOOLEAN /\ {early, lost} \subseteq [Jobs -> BOOLEAN]

Points == [j \in Jobs |-> events[j].points]

\* The two tables agree: a window holds the points of the charges counted in it, through
\* refunds that come in a later window.
WindowsAddUp ==
    /\ five.start # Never => five.points =
        SumFunctionOnSet(Points, {j \in Jobs : events[j].five = five.start})
    /\ week.start # Never => week.points =
        SumFunctionOnSet(Points, {j \in Jobs : events[j].week = week.start})

\* What a job has cost so far.
Net == [j \in Jobs |-> taken[j] - back[j]]

\* Every credit is in the balance or held by a job, and no closing hands back more than
\* was taken.
CreditsAddUp ==
    /\ balance + SumFunctionOnSet(Net, Jobs) = Grant
    /\ \A j \in Jobs : back[j] <= taken[j]

\* A charge that was closed follows the outcome, whichever plan the member is on by then:
\* what failed is free, and what was made costs what it cost on the plan it was charged on.
\* A closing that began before the charge was through may read half of it.
Kept(j) == CASE How[j] = "measured" -> Least(taken[j], CeilPct(Least(Measured[j], taken[j]), events[j].mult))
             [] OTHER -> taken[j]
CreditsFollowOutcome ==
    \A j \in Jobs : backAt[j] # Never /\ ~ early[j] =>
        /\ end[j] = "failed" => back[j] = taken[j]
        /\ end[j] = "made" => taken[j] - back[j] = Kept(j)

Closed(j) == end[j] # "no" /\ ~ early[j] /\ ~ lost[j] /\ \A c \in Closers : closing[j][c].step = "no"
PointsFollowOutcome ==
    \A j \in Jobs : Closed(j) /\ events[j].five # Never =>
        /\ end[j] = "failed" => events[j].points = 0
        /\ end[j] = "made" /\ How[j] = "flat" => events[j].points = Price[j]

\* "An action may overshoot the end of a window; nothing more starts after it."
WindowsOvershootOnce ==
    LET dearest == CHOOSE p \in {Price[j] : j \in Jobs} : \A j \in Jobs : Price[j] <= p
    IN  /\ FiveLimit > 0 => five.points < FiveLimit + dearest
        /\ WeekLimit > 0 => week.points < WeekLimit + dearest

\* Overage stays under its cap as long as no two charges read what was used before either
\* has added to it.
OverageStaysUnderCap == ~ crowded => OverageUsed <= Cap

\* What the charges of the last day have cost, and what came back of the older ones.
DayNet == SumFunctionOnSet(Net, {j \in Jobs : Within(takenAt, j)})
OlderBack == SumFunctionOnSet(back, {j \in Jobs : takenAt[j] # Never /\ ~ Within(takenAt, j)})

\* When a charge is made the day's charges pass the limit by no more than what was handed
\* back of older ones, under the same condition: a refund counts for the day it comes in.
ChargedUnderTheDay ==
    [][DayLimit # 0 /\ ~ crowded' /\ balance' < balance => DayNet' <= DayLimit + OlderBack']_vars

\* setting-form.tsx, of daily_user_limit: "Most credits one user can spend per day (0 = no
\* limit)".  Not so once what comes back of an older charge is counted in the day.
DayLimitHolds == DayLimit # 0 /\ ~ crowded => DayNet <= DayLimit

\* credits/jobs.go: "Avatar videos are charged for the length HeyGen reports, never more
\* than was reserved; everything else keeps its reservation."  Not so where the windows
\* pay: what the ledger holds for the job is nothing, and everything is handed back.
MadeStaysCounted ==
    \A j \in Jobs : Closed(j) /\ end[j] = "made" /\ How[j] # "flat" /\ events[j].five # Never =>
        events[j].points = IF How[j] = "measured" THEN Least(Measured[j], Price[j]) ELSE Price[j]
=============================================================================
