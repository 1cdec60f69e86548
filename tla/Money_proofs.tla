------------------------------ MODULE Money_proofs ------------------------------
(* Money adds up and limits hold, for every value of the constants.  The parts     *)
(* share no variable: a step of the whole is a step of each part or leaves it as   *)
(* it is, so what is always true of a part alone is always true of the whole.      *)
(*                                                                                 *)
(* The charges of a plan.  What the sums of the tables come to cannot be shown by  *)
(* the sums alone: a step is safe because of what the tables hold for the one job  *)
(* it is about.  So the invariant has two layers.  ChargeInv and EndInv say of     *)
(* each job, whatever the others do, what its entries are at each place of its     *)
(* charge and of its end.  The rest says what the sums are, and each step adds to  *)
(* a sum, or takes from it, what it does to its job.                               *)
(*                                                                                 *)
(* A payment.  A handler acts on what it read before: it is safe because as long   *)
(* as no two refunds are under way, and none is cut off, the row and the ledger    *)
(* differ by no more than what the one handler is about to say.  Whatever overlaps *)
(* or is cut off, the row lags behind the ledger by what all handlers have still   *)
(* to add, or by more.                                                             *)
(*                                                                                 *)
(* A membership.  In order means one by one: a request under way holds the message *)
(* that counts as handled (InOrder), so once none is under way the row says what   *)
(* the last message said (RowFollows), which while no subscription was taken out   *)
(* beside another is how the only live one stands (LastTells).  Each mail is one   *)
(* that a message handled to the end was about (MailsFollow).                      *)
(*                                                                                 *)
(* A cap.  A request counts in one statement and stores its row in another: each   *)
(* request that has counted is one row the cap has room for, or one that counted   *)
(* beside another.                                                                 *)
EXTENDS Money, Sums, FunctionTheorems, SequenceTheorems

JobStep(j) ==
    \/ ReadPlan(j) \/ Take(j) \/ TakeRefused(j) \/ ReadOverage(j) \/ CheckDay(j)
    \/ Charge(j) \/ ChargeRefused(j) \/ Record(j) \/ RecordFails(j) \/ Ends(j) \/ SweepFinds(j)
ClosingStep(j, c) == ReadActual(j, c) \/ ReadEvent(j, c) \/ ClosePoints(j, c) \/ CloseCredits(j, c)
WorldStep == Tick \/ PlanChanges \/ SetOverage

LEMMA StepForms ==
    Next <=> \/ \E j \in Jobs : JobStep(j) \/ \E c \in Closers : ClosingStep(j, c)
             \/ WorldStep
BY DEF Next, JobStep, ClosingStep, WorldStep

-----------------------------------------------------------------------------
(* Numbers.                                                                *)

LEMMA DivNat ==
    ASSUME NEW a \in Nat, NEW b \in Nat \ {0}
    PROVE  a \div b \in Nat /\ a % b \in Nat /\ a % b < b
BY SMT

LEMMA CeilNat ==
    ASSUME NEW a \in Nat, NEW p \in Nat
    PROVE  CeilPct(a, p) \in Nat
<1>1. a * p \in Nat
  BY SMT
<1>2. a * p + 99 \in Nat
  BY <1>1
<1> QED
  BY <1>2, DivNat DEF CeilPct

LEMMA CeilGrows ==
    ASSUME NEW a \in Nat, NEW p \in Nat, p >= 100
    PROVE  CeilPct(a, p) >= a
<1> DEFINE t == a * p + 99
           q == t \div 100
<1>1. a * p \in Nat /\ a * p >= a * 100
  BY SMT
<1>2. t \in Nat /\ t >= 100 * a + 99
  BY <1>1
<1> HIDE DEF t
<1>3. q \in Nat /\ t < 100 * q + 100
  BY <1>2
<1>4. q >= a
  BY <1>2, <1>3
<1> QED
  BY <1>4 DEF t, CeilPct

\* The start of a week, or of a month, does not come after the time it is of, and does
\* not go back.
LEMMA StartOf ==
    ASSUME NEW t \in Nat, NEW w \in Nat \ {0}
    PROVE  /\ t - (t % w) \in 0 .. t
           /\ t - (t % w) <= (t + 1) - ((t + 1) % w)
<1> DEFINE q == t \div w
           p == (t + 1) \div w
<1>1. /\ q \in Nat /\ p \in Nat /\ t % w \in Nat /\ t % w < w
      /\ t = w * q + (t % w)
  BY SMT
<1>2. (t + 1) % w \in Nat /\ (t + 1) % w < w /\ t + 1 = w * p + ((t + 1) % w)
  BY SMT
<1> HIDE DEF q, p
<1>3. w * q \in Nat /\ w * p \in Nat
  BY <1>1, SMT
<1>4. p >= q
  <2>1. SUFFICES ASSUME p < q PROVE FALSE
    BY <1>1
  <2>2. w * (q - p) >= w
    BY <1>1, <2>1, SMT
  <2>3. w * (q - p) = w * q - w * p
    BY <1>1, SMT
  <2> QED
    BY <1>1, <1>2, <1>3, <2>2, <2>3
<1>5. w * p >= w * q
  BY <1>1, <1>4, SMT
<1> QED
  BY <1>1, <1>2, <1>3, <1>5

-----------------------------------------------------------------------------
(* Types.                                                                  *)

Places   == {"new", "counting", "full", "allowed", "checked", "charged", "held", "refused"}
Shutting == [step : {"no", "due", "priced", "known"}, actual : Nat, event : Event]

LEMMA Values ==
    ASSUME UsageAssumption
    PROVE  NoEvent \in Event /\ NotClosing \in Shutting /\ Closing \in Shutting
<1>1. NoEvent \in Event
  BY DEF NoEvent, Event, Never
<1> QED
  BY <1>1 DEF NotClosing, Closing, Shutting

LEMMA WindowType ==
    ASSUME UsageAssumption, TypeOK
    PROVE  /\ now \in Nat /\ WeekStart(now) \in Times /\ MonthStart(now) \in Times
           /\ CurrentFive \in Window /\ CurrentWeek \in Window
<1>1. now \in Nat /\ MaxTime \in Nat /\ now <= MaxTime
  BY DEF UsageAssumption, TypeOK, Times
<1>2. ASSUME NEW w \in Nat \ {0}
      PROVE  now - (now % w) \in Times
  <2>1. now - (now % w) \in 0 .. now
    BY <1>1, StartOf
  <2> QED
    BY <1>1, <2>1 DEF Times
<1>3. WeekStart(now) \in Times /\ MonthStart(now) \in Times
  BY <1>2 DEF UsageAssumption, WeekStart, MonthStart
<1> QED
  BY <1>1, <1>3 DEF CurrentFive, CurrentWeek, Window, TypeOK, Never

LEMMA CostType ==
    ASSUME UsageAssumption, NEW j \in Jobs
    PROVE  Price[j] \in Nat /\ Cost(j) \in Nat /\ Mult(j) \in Nat
BY CeilNat DEF UsageAssumption, Cost, Mult

LEMMA MoveType ==
    ASSUME TypeOK, NEW j \in Jobs, NEW to \in Places, Move(j, to)
    PROVE  /\ pc' \in [Jobs -> Places] /\ crowded' \in BOOLEAN
           /\ pc'[j] = to /\ \A k \in Jobs \ {j} : pc'[k] = pc[k]
BY DEF Move, TypeOK, Places

LEMMA RefuseType ==
    ASSUME TypeOK, NEW j \in Jobs, Refuse(j)
    PROVE  /\ pc' \in [Jobs -> Places] /\ crowded' \in BOOLEAN
           /\ pc'[j] = "refused" /\ \A k \in Jobs \ {j} : pc'[k] = pc[k] /\ end'[k] = end[k]
           /\ end' \in [Jobs -> {"no", "made", "failed"}]
           /\ end'[j] = IF end[j] = "no" THEN "failed" ELSE end[j]
           /\ UNCHANGED <<closing, early, lost>>
BY MoveType DEF Refuse, TypeOK, Places

LEMMA GotoType ==
    ASSUME TypeOK, NEW j \in Jobs, NEW c \in Closers, NEW to \in Shutting, Goto(j, c, to)
    PROVE  /\ closing' \in [Jobs -> [Closers -> Shutting]]
           /\ closing'[j][c] = to
           /\ \A d \in Closers \ {c} : closing'[j][d] = closing[j][d]
           /\ \A k \in Jobs \ {j} : closing'[k] = closing[k]
BY DEF Goto, TypeOK, Shutting

LEMMA JobType ==
    ASSUME UsageAssumption, TypeOK, NEW j \in Jobs, JobStep(j)
    PROVE  TypeOK'
<1> USE DEF world, windows, ledger, charging, rows
<1>1. CASE ReadPlan(j)
  BY <1>1, MoveType DEF ReadPlan, TypeOK, Places
<1>2. CASE Take(j)
  <2>1. CurrentFive \in Window /\ CurrentWeek \in Window /\ now \in Nat /\ Price[j] \in Nat
    BY WindowType, CostType
  <2> DEFINE start == IF CurrentFive.start = Never THEN now ELSE CurrentFive.start
             ev == [points |-> Price[j], mult |-> 100, overage |-> FALSE,
                    five |-> start, week |-> CurrentWeek.start, at |-> now]
  <2>2. start \in Times \cup {Never}
    BY <2>1 DEF Window, TypeOK
  <2>3. ev \in Event
    BY <2>1, <2>2 DEF Event, Window, TypeOK
  <2>4. five' \in Window /\ week' \in Window
    BY <1>2, <2>1, <2>2 DEF Take, Window
  <2>5. events' = [events EXCEPT ![j] = ev]
    BY <1>2 DEF Take
  <2> HIDE DEF ev
  <2>6. events' \in [Jobs -> Event]
    BY <2>3, <2>5 DEF TypeOK
  <2> QED
    BY <1>2, <2>4, <2>6, MoveType DEF Take, TypeOK, Places
<1>3. CASE TakeRefused(j)
  BY <1>3, MoveType DEF TakeRefused, TypeOK, Places
<1>4. CASE ReadOverage(j)
  <2>1. CASE UNCHANGED rows /\ Move(j, "allowed") /\ way' = [way EXCEPT ![j] = "overage"]
    BY <1>4, <2>1, MoveType DEF ReadOverage, TypeOK, Places
  <2>2. CASE Refuse(j) /\ UNCHANGED way
    BY <1>4, <2>2, RefuseType DEF ReadOverage, TypeOK, Places
  <2> QED
    BY <1>4, <2>1, <2>2 DEF ReadOverage
<1>5. CASE CheckDay(j)
  BY <1>5, MoveType, RefuseType DEF CheckDay, TypeOK, Places
<1>6. CASE Charge(j)
  <2>1. Cost(j) \in Nat /\ balance \in Nat /\ now \in Times
    BY CostType DEF TypeOK
  <2>2. balance' \in Nat /\ taken' \in [Jobs -> Nat] /\ takenAt' \in [Jobs -> Times \cup {Never}]
    BY <1>6, <2>1 DEF Charge, TypeOK
  <2> QED
    BY <1>6, <2>2, MoveType DEF Charge, TypeOK, Places
<1>7. CASE ChargeRefused(j)
  BY <1>7, RefuseType DEF ChargeRefused, TypeOK, Places
<1>8. CASE Record(j)
  <2> DEFINE ev == [points |-> 0, mult |-> Mult(j), overage |-> (way[j] = "overage"),
                    five |-> Never, week |-> Never, at |-> now]
  <2>1. ev \in Event
    BY CostType DEF Event, TypeOK
  <2>2. events' = [events EXCEPT ![j] = ev]
    BY <1>8 DEF Record
  <2> HIDE DEF ev
  <2>3. events' \in [Jobs -> Event]
    BY <2>1, <2>2 DEF TypeOK
  <2> QED
    BY <1>8, <2>3, MoveType DEF Record, TypeOK, Places
<1>9. CASE RecordFails(j)
  BY <1>9, RefuseType DEF RecordFails, TypeOK, Places
<1>10. CASE Ends(j)
  <2>1. "finish" \in Closers /\ Closing \in Shutting
    BY Values DEF Closers
  <2>2. closing' \in [Jobs -> [Closers -> Shutting]]
    BY <1>10, <2>1, GotoType DEF Ends, TypeOK, Shutting
  <2>3. (pc[j] # "held") \in BOOLEAN
    OBVIOUS
  <2>4. early' \in [Jobs -> BOOLEAN] /\ lost' \in [Jobs -> BOOLEAN]
    BY <1>10, <2>3 DEF Ends, TypeOK
  <2>5. end' \in [Jobs -> {"no", "made", "failed"}]
    BY <1>10 DEF Ends, TypeOK
  <2> QED
    BY <1>10, <2>2, <2>4, <2>5 DEF Ends, TypeOK, Shutting
<1>11. CASE SweepFinds(j)
  <2>1. "sweep" \in Closers /\ Closing \in Shutting
    BY Values DEF Closers
  <2>2. closing' \in [Jobs -> [Closers -> Shutting]]
    BY <1>11, <2>1, GotoType DEF SweepFinds
  <2>3. early' \in [Jobs -> BOOLEAN]
    BY <1>11 DEF SweepFinds, TypeOK
  <2> QED
    BY <1>11, <2>2, <2>3 DEF SweepFinds, TypeOK, Shutting
<1> QED
  BY <1>1, <1>2, <1>3, <1>4, <1>5, <1>6, <1>7, <1>8, <1>9, <1>10, <1>11 DEF JobStep

LEMMA GivePointsBackType ==
    ASSUME UsageAssumption, TypeOK, NEW j \in Jobs, NEW asked \in Int, GivePointsBack(j, asked)
    PROVE  /\ events' \in [Jobs -> Event] /\ five' \in Window /\ week' \in Window
           /\ \A k \in Jobs \ {j} : events'[k] = events[k]
<1> DEFINE points == Least(asked, events[j].points)
<1>1. CASE points <= 0
  BY <1>1 DEF GivePointsBack, windows, TypeOK
<1>2. CASE ~ (points <= 0)
  <2>1. events[j] \in Event /\ events[j].points \in Nat
    BY DEF TypeOK, Event
  <2>2. points \in Nat /\ events[j].points - points \in Nat
    BY <1>2, <2>1 DEF Least
  <2>3. \A n \in Int : Most(n, 0) \in Nat
    BY DEF Most
  <2>4. five' \in Window /\ week' \in Window
    BY <1>2, <2>2, <2>3 DEF GivePointsBack, TypeOK, Window
  <2>5. events' = [events EXCEPT ![j].points = @ - points]
    BY <1>2 DEF GivePointsBack
  <2> HIDE DEF points
  <2>6. events' \in [Jobs -> Event] /\ \A k \in Jobs \ {j} : events'[k] = events[k]
    BY <2>1, <2>2, <2>5 DEF TypeOK, Event
  <2> QED
    BY <2>4, <2>6
<1> QED
  BY <1>1, <1>2

LEMMA ClosingValues ==
    ASSUME UsageAssumption, TypeOK, NEW j \in Jobs, NEW c \in Closers
    PROVE  /\ closing[j][c] \in Shutting /\ Actual(j) \in Nat
           /\ PointsBack(j, closing[j][c]) \in Int
           /\ CreditsBack(j, closing[j][c]) \in 0 .. taken[j]
<1>1. closing[j][c] \in Shutting /\ taken[j] \in Nat /\ Measured[j] \in Nat
  BY DEF UsageAssumption, TypeOK, Shutting
<1>2. Actual(j) \in Nat
  BY <1>1 DEF Actual, Least
<1>3. closing[j][c].event.points \in Nat /\ closing[j][c].event.mult \in Nat /\ closing[j][c].actual \in Nat
  BY <1>1 DEF Shutting, Event
<1>4. Due(closing[j][c]) \in Nat
  BY <1>3, CeilNat DEF Due
<1> QED
  BY <1>1, <1>2, <1>3, <1>4 DEF PointsBack, CreditsBack, Most

LEMMA ClosingType ==
    ASSUME UsageAssumption, TypeOK, NEW j \in Jobs, NEW c \in Closers, ClosingStep(j, c)
    PROVE  TypeOK'
<1> USE DEF world, windows, ledger, charging, rows
<1>0. NoEvent \in Event /\ NotClosing \in Shutting /\ closing[j][c] \in Shutting /\ Actual(j) \in Nat
  BY Values, ClosingValues
<1>1. CASE ReadActual(j, c)
  <2>1. [step |-> "priced", actual |-> Actual(j), event |-> NoEvent] \in Shutting
    BY <1>0 DEF Shutting
  <2>2. closing' \in [Jobs -> [Closers -> Shutting]]
    BY <1>1, <2>1, GotoType DEF ReadActual
  <2> QED
    BY <1>1, <2>2 DEF ReadActual, TypeOK, Shutting
<1>2. CASE ReadEvent(j, c)
  <2>1. [step |-> "known", actual |-> closing[j][c].actual, event |-> events[j]] \in Shutting
    BY <1>0 DEF Shutting, TypeOK
  <2>2. closing' \in [Jobs -> [Closers -> Shutting]]
    BY <1>2, <2>1, GotoType DEF ReadEvent
  <2> QED
    BY <1>2, <2>2 DEF ReadEvent, TypeOK, Shutting
<1>3. CASE ClosePoints(j, c)
  <2>1. closing' \in [Jobs -> [Closers -> Shutting]]
    BY <1>3, <1>0, GotoType DEF ClosePoints
  <2>2. events' \in [Jobs -> Event] /\ five' \in Window /\ week' \in Window
    BY <1>3, ClosingValues, GivePointsBackType DEF ClosePoints
  <2> QED
    BY <1>3, <2>1, <2>2 DEF ClosePoints, TypeOK, Shutting
<1>4. CASE CloseCredits(j, c)
  <2>1. closing' \in [Jobs -> [Closers -> Shutting]]
    BY <1>4, <1>0, GotoType DEF CloseCredits
  <2> DEFINE credits == CreditsBack(j, closing[j][c])
  <2>2. credits \in Nat /\ now \in Times
    BY ClosingValues DEF TypeOK
  <2>3. CASE takenAt[j] = Never \/ backAt[j] # Never
    BY <1>4, <2>1, <2>3 DEF CloseCredits, TypeOK, Shutting
  <2>4. CASE ~ (takenAt[j] = Never \/ backAt[j] # Never)
    <3>1. /\ balance' = balance + credits /\ back' = [back EXCEPT ![j] = credits]
          /\ backAt' = [backAt EXCEPT ![j] = now] /\ taken' = taken /\ takenAt' = takenAt
      BY <1>4, <2>4 DEF CloseCredits
    <3> HIDE DEF credits
    <3>2. /\ balance' \in Nat /\ back' \in [Jobs -> Nat]
          /\ backAt' \in [Jobs -> Times \cup {Never}]
      BY <2>2, <3>1 DEF TypeOK
    <3> QED
      BY <1>4, <2>1, <3>1, <3>2 DEF CloseCredits, TypeOK, Shutting
  <2> QED
    BY <2>3, <2>4
<1> QED
  BY <1>1, <1>2, <1>3, <1>4 DEF ClosingStep

LEMMA WorldType ==
    ASSUME UsageAssumption, TypeOK, WorldStep
    PROVE  TypeOK'
<1>1. now' \in Times
  BY DEF WorldStep, Tick, PlanChanges, SetOverage, TypeOK, Times, UsageAssumption
<1>2. plan' \in {"free", "pro"} /\ overage' \in BOOLEAN
  BY DEF WorldStep, Tick, PlanChanges, SetOverage, TypeOK
<1> QED
  BY <1>1, <1>2
     DEF WorldStep, Tick, PlanChanges, SetOverage, TypeOK, windows, ledger, charging, rows

LEMMA NextType == ASSUME UsageAssumption, TypeOK, [Next]_vars PROVE TypeOK'
<1>1. CASE UNCHANGED vars
  BY <1>1 DEF vars, TypeOK
<1> QED
  BY <1>1, StepForms, JobType, ClosingType, WorldType

LEMMA InitType == ASSUME UsageAssumption, Init PROVE TypeOK
<1>1. NoEvent \in Event /\ NotClosing \in Shutting
  BY Values
<1>2. /\ events \in [Jobs -> Event]
      /\ closing \in [Jobs -> [Closers -> Shutting]]
  BY <1>1 DEF Init
<1>3. five \in Window /\ week \in Window
  BY DEF Init, Window
<1>4. now \in Times /\ plan \in {"free", "pro"} /\ overage \in BOOLEAN /\ balance \in Nat
  BY DEF Init, UsageAssumption
<1>6. /\ taken \in [Jobs -> Nat] /\ back \in [Jobs -> Nat]
      /\ takenAt \in [Jobs -> Times \cup {Never}] /\ backAt \in [Jobs -> Times \cup {Never}]
  BY DEF Init
<1>5. /\ pc \in [Jobs -> Places]
      /\ way \in [Jobs -> {"none", "free", "pro", "overage"}]
      /\ end \in [Jobs -> {"no", "made", "failed"}]
      /\ crowded \in BOOLEAN /\ {early, lost} \subseteq [Jobs -> BOOLEAN]
  BY DEF Init, Places
<1> QED
  BY <1>2, <1>3, <1>4, <1>5, <1>6 DEF TypeOK, Places, Shutting

-----------------------------------------------------------------------------
(* One job.                                                                *)

\* What each table holds for a job, by how far its charging is: points or credits, never
\* both, and the entry that gives credits back only after the one that took them.
ChargeInv(j) ==
    /\ pc[j] # "held" => events[j] = NoEvent
    /\ pc[j] \in {"new", "counting", "full", "allowed", "checked"} => takenAt[j] = Never
    /\ pc[j] = "charged" => takenAt[j] # Never
    /\ pc[j] = "held" =>
          /\ events[j].at # Never
          /\ IF takenAt[j] = Never
             THEN /\ events[j].five # Never /\ events[j].week # Never
                  /\ events[j].points <= Price[j] /\ ~ events[j].overage
             ELSE /\ events[j].five = Never /\ events[j].week = Never /\ events[j].points = 0
                  /\ events[j].mult = Mult(j) /\ (events[j].overage <=> way[j] = "overage")
    /\ taken[j] = IF takenAt[j] = Never THEN 0 ELSE Cost(j)
    /\ takenAt[j] = Never => backAt[j] = Never
    /\ backAt[j] = Never => back[j] = 0
    /\ back[j] <= taken[j]

\* What a closing has read is still so, unless it began before the charge was through.
ReadInv(j, c) ==
    /\ closing[j][c].step \in {"priced", "known"} => closing[j][c].actual = Actual(j)
    /\ closing[j][c].step = "known" => /\ closing[j][c].event.mult = events[j].mult
                                       /\ closing[j][c].event.at = events[j].at
                                       /\ closing[j][c].event.points >= events[j].points

\* What the end of a job makes of its charge.
EndInv(j) ==
    /\ end[j] = "no" => /\ ~ early[j] /\ ~ lost[j] /\ backAt[j] = Never /\ pc[j] # "refused"
                        /\ \A c \in Closers : closing[j][c].step = "no"
    /\ ~ early[j] /\ end[j] = "made" => pc[j] = "held"
    /\ ~ early[j] /\ end[j] = "failed" => pc[j] \in {"held", "refused"}
    /\ ~ early[j] => \A c \in Closers : ReadInv(j, c)
    /\ ~ early[j] /\ backAt[j] # Never => /\ end[j] = "failed" => back[j] = taken[j]
                                          /\ end[j] = "made" /\ Percent >= 100 =>
                                                taken[j] - back[j] = Kept(j)
    /\ ~ early[j] /\ ~ lost[j] /\ end[j] = "failed" /\ closing[j]["finish"].step = "no" =>
          events[j].points = 0
    /\ end[j] = "no" \/ (end[j] = "made" /\ How[j] = "flat") =>
          (events[j].five # Never => events[j].points = Price[j])

\* Nothing of k changes.
Same(k) ==
    /\ events'[k] = events[k] /\ taken'[k] = taken[k] /\ takenAt'[k] = takenAt[k]
    /\ back'[k] = back[k] /\ backAt'[k] = backAt[k] /\ pc'[k] = pc[k] /\ way'[k] = way[k]
    /\ end'[k] = end[k] /\ closing'[k] = closing[k] /\ early'[k] = early[k] /\ lost'[k] = lost[k]

LEMMA SameKeeps ==
    ASSUME NEW k \in Jobs, ChargeInv(k), EndInv(k), Same(k)
    PROVE  ChargeInv(k)' /\ EndInv(k)'
<1>1. Cost(k)' = Cost(k) /\ Mult(k)' = Mult(k) /\ Actual(k)' = Actual(k) /\ Kept(k)' = Kept(k)
  BY DEF Same, Cost, Mult, Actual, Kept
<1>2. \A c \in Closers : ReadInv(k, c) <=> ReadInv(k, c)'
  BY <1>1 DEF ReadInv, Same
<1> QED
  BY <1>1, <1>2 DEF Same, ChargeInv, EndInv

LEMMA OthersSame ==
    ASSUME UsageAssumption, TypeOK, NEW j \in Jobs, NEW k \in Jobs \ {j},
           JobStep(j) \/ \E c \in Closers : ClosingStep(j, c)
    PROVE  Same(k)
<1> USE DEF world, windows, ledger, charging, rows
<1>1. ASSUME NEW to, Move(j, to)
      PROVE  pc'[k] = pc[k]
  BY <1>1 DEF Move, TypeOK
<1>2. ASSUME NEW c, NEW to, Goto(j, c, to)
      PROVE  closing'[k] = closing[k]
  BY <1>2 DEF Goto, TypeOK
<1>3. ASSUME Refuse(j)
      PROVE  pc'[k] = pc[k] /\ end'[k] = end[k]
  BY <1>3, <1>1 DEF Refuse, TypeOK
<1>4. CASE JobStep(j)
  <2>1. CASE ReadPlan(j) \/ Take(j) \/ TakeRefused(j) \/ Charge(j) \/ Record(j)
    BY <2>1, <1>1 DEF Same, TypeOK, ReadPlan, Take, TakeRefused, Charge, Record
  <2>2. CASE ReadOverage(j)
    BY <2>2, <1>1, <1>3 DEF Same, TypeOK, ReadOverage, Refuse
  <2>3. CASE CheckDay(j)
    BY <2>3, <1>1, <1>3 DEF Same, TypeOK, CheckDay, Refuse
  <2>4. CASE ChargeRefused(j) \/ RecordFails(j)
    BY <2>4, <1>1, <1>3 DEF Same, TypeOK, ChargeRefused, RecordFails, Refuse
  <2>5. CASE Ends(j) \/ SweepFinds(j)
    BY <2>5, <1>2 DEF Same, TypeOK, Ends, SweepFinds
  <2> QED
    BY <1>4, <2>1, <2>2, <2>3, <2>4, <2>5 DEF JobStep
<1>5. ASSUME NEW c \in Closers, ClosingStep(j, c)
      PROVE  Same(k)
  <2>1. CASE ReadActual(j, c) \/ ReadEvent(j, c)
    BY <2>1, <1>2 DEF Same, ReadActual, ReadEvent
  <2>2. CASE ClosePoints(j, c)
    BY <2>2, <1>2, ClosingValues, GivePointsBackType DEF Same, ClosePoints
  <2>3. CASE CloseCredits(j, c)
    BY <2>3, <1>2 DEF Same, CloseCredits, TypeOK
  <2> QED
    BY <1>5, <2>1, <2>2, <2>3 DEF ClosingStep
<1> QED
  BY <1>4, <1>5

\* A step of the charge that writes nothing down.
LEMMA PlaceKeeps ==
    ASSUME TypeOK, NEW j \in Jobs, ChargeInv(j), EndInv(j), UNCHANGED <<windows, ledger, rows>>,
           pc[j] \in {"new", "counting", "full", "allowed"},
           pc'[j] \in {"counting", "full", "allowed", "checked"}
    PROVE  ChargeInv(j)' /\ EndInv(j)'
<1>0. UNCHANGED <<events, taken, takenAt, back, backAt, end, closing, early, lost>>
  BY DEF windows, ledger, rows
<1>1. events[j] = NoEvent /\ takenAt[j] = Never
  BY DEF ChargeInv
<1>2. ChargeInv(j)'
  BY <1>0, <1>1 DEF ChargeInv, NoEvent
<1>3. Actual(j)' = Actual(j) /\ Kept(j)' = Kept(j)
  BY <1>0 DEF Actual, Kept
<1>4. \A c \in Closers : ReadInv(j, c) => ReadInv(j, c)'
  BY <1>0, <1>3 DEF ReadInv
<1>5. EndInv(j)'
  BY <1>0, <1>3, <1>4 DEF EndInv
<1> QED
  BY <1>2, <1>5

\* A step of the charge leaves what the end of the job made of it: either the job is
\* not over, or a closing has begun too early.
LEMMA ChargingKeeps ==
    ASSUME TypeOK, NEW j \in Jobs, EndInv(j), UNCHANGED <<closing, early, lost>>,
           backAt'[j] = backAt[j], pc[j] \notin {"held", "refused"},
           \/ pc'[j] # "refused" /\ end'[j] = end[j]
           \/ pc'[j] = "refused" /\ end'[j] = IF end[j] = "no" THEN "failed" ELSE end[j],
           events'[j].five # Never => events'[j].points = Price[j],
           pc'[j] = "refused" => events'[j].points = 0
    PROVE  EndInv(j)'
<1>1. end'[j] = "no" => end[j] = "no" /\ pc'[j] # "refused"
  OBVIOUS
<1>2. early[j] \in BOOLEAN /\ end[j] \in {"no", "made", "failed"}
  BY DEF TypeOK
<1>3. CASE early[j]
  BY <1>1, <1>3 DEF EndInv
<1>4. CASE ~ early[j]
  <2>1. end[j] = "no" /\ backAt[j] = Never /\ ~ lost[j]
    BY <1>2, <1>4 DEF EndInv
  <2>2. \A c \in Closers : closing'[j][c].step = "no"
    BY <2>1 DEF EndInv
  <2>3. \A c \in Closers : ReadInv(j, c)'
    BY <2>2 DEF ReadInv
  <2>4. \/ end'[j] = "no" /\ pc'[j] # "refused"
        \/ end'[j] = "failed" /\ pc'[j] = "refused"
    BY <2>1
  <2> QED
    BY <1>4, <2>1, <2>2, <2>3, <2>4 DEF EndInv
<1> QED
  BY <1>2, <1>3, <1>4

LEMMA RefuseKeeps ==
    ASSUME TypeOK, NEW j \in Jobs, ChargeInv(j), EndInv(j), UNCHANGED <<windows, ledger>>,
           UNCHANGED way, pc[j] \in {"full", "allowed", "checked", "charged"}, Refuse(j)
    PROVE  ChargeInv(j)' /\ EndInv(j)'
<1>0. UNCHANGED <<events, taken, takenAt, back, backAt, closing, early, lost>>
  BY DEF windows, ledger, Refuse
<1>1. pc'[j] = "refused" /\ end'[j] = IF end[j] = "no" THEN "failed" ELSE end[j]
  BY RefuseType
<1>2. events[j] = NoEvent
  BY DEF ChargeInv
<1>3. Cost(j)' = Cost(j)
  BY DEF Cost
<1>4. ChargeInv(j)'
  BY <1>0, <1>1, <1>2, <1>3 DEF ChargeInv
<1>5. events'[j].five = Never /\ events'[j].points = 0
  BY <1>0, <1>2 DEF NoEvent
<1>6. EndInv(j)'
  BY <1>0, <1>1, <1>5, ChargingKeeps
<1> QED
  BY <1>4, <1>6

LEMMA TakeKeeps ==
    ASSUME UsageAssumption, TypeOK, NEW j \in Jobs, ChargeInv(j), EndInv(j), Take(j)
    PROVE  ChargeInv(j)' /\ EndInv(j)'
<1> DEFINE start == IF CurrentFive.start = Never THEN now ELSE CurrentFive.start
           ev == [points |-> Price[j], mult |-> 100, overage |-> FALSE,
                  five |-> start, week |-> CurrentWeek.start, at |-> now]
<1>0. UNCHANGED <<taken, takenAt, back, backAt, end, closing, early, lost, way>>
  BY DEF Take, ledger, rows
<1>1. /\ pc[j] = "counting" /\ pc'[j] = "held"
      /\ events' = [events EXCEPT ![j] = ev] /\ events[j] = NoEvent /\ takenAt[j] = Never
  BY DEF Take, Move, ChargeInv, TypeOK
<1>2. now # Never /\ Price[j] \in Nat /\ WeekStart(now) # Never /\ now \in Nat
  BY WindowType, CostType DEF Never, Times
<1>3. start # Never /\ CurrentWeek.start # Never
  BY <1>2 DEF CurrentWeek
<1>4. events'[j] = ev
  BY <1>1 DEF TypeOK
<1>5. ChargeInv(j)'
  BY <1>0, <1>1, <1>2, <1>3, <1>4 DEF ChargeInv
<1>6. events'[j].points = Price[j]
  BY <1>4
<1>7. EndInv(j)'
  BY <1>0, <1>1, <1>6, ChargingKeeps
<1> QED
  BY <1>5, <1>7

LEMMA ChargeKeeps ==
    ASSUME UsageAssumption, TypeOK, NEW j \in Jobs, ChargeInv(j), EndInv(j), Charge(j)
    PROVE  ChargeInv(j)' /\ EndInv(j)'
<1>0. UNCHANGED <<events, back, backAt, end, closing, early, lost, way>>
  BY DEF Charge, windows, rows
<1>1. /\ pc[j] = "checked" /\ pc'[j] = "charged" /\ events[j] = NoEvent
      /\ takenAt[j] = Never /\ takenAt'[j] = now /\ taken'[j] = Cost(j)
      /\ back[j] = 0 /\ backAt[j] = Never
  BY DEF Charge, Move, ChargeInv, TypeOK
<1>2. now # Never /\ Cost(j) \in Nat /\ Cost(j)' = Cost(j)
  BY <1>0, WindowType, CostType DEF Never, Cost
<1>3. ChargeInv(j)'
  BY <1>0, <1>1, <1>2 DEF ChargeInv
<1>4. events'[j].five = Never
  BY <1>0, <1>1 DEF NoEvent
<1>5. EndInv(j)'
  BY <1>0, <1>1, <1>4, ChargingKeeps
<1> QED
  BY <1>3, <1>5

LEMMA RecordKeeps ==
    ASSUME UsageAssumption, TypeOK, NEW j \in Jobs, ChargeInv(j), EndInv(j), Record(j)
    PROVE  ChargeInv(j)' /\ EndInv(j)'
<1> DEFINE ev == [points |-> 0, mult |-> Mult(j), overage |-> (way[j] = "overage"),
                  five |-> Never, week |-> Never, at |-> now]
<1>0. UNCHANGED <<taken, takenAt, back, backAt, end, closing, early, lost, way>>
  BY DEF Record, ledger, rows
<1>1. /\ pc[j] = "charged" /\ pc'[j] = "held"
      /\ events' = [events EXCEPT ![j] = ev] /\ events[j] = NoEvent /\ takenAt[j] # Never
  BY DEF Record, Move, ChargeInv, TypeOK
<1>2. now # Never /\ Cost(j)' = Cost(j) /\ Mult(j)' = Mult(j)
  BY <1>0, WindowType DEF Never, Cost, Mult
<1>3. events'[j] = ev
  BY <1>1 DEF TypeOK
<1>4. /\ events'[j].at # Never /\ events'[j].five = Never /\ events'[j].week = Never
      /\ events'[j].points = 0 /\ events'[j].mult = Mult(j)
  BY <1>2, <1>3
<1>5. events'[j].overage <=> way[j] = "overage"
  <2>1. events'[j].overage = (way[j] = "overage")
    BY <1>3
  <2> QED
    BY <2>1
<1>6. ChargeInv(j)'
  <2>1. (events[j].overage)' <=> (way[j] = "overage")'
    BY <1>0, <1>5
  <2> QED
    BY <1>0, <1>1, <1>2, <1>4, <2>1 DEF ChargeInv
<1>7. EndInv(j)'
  BY <1>0, <1>1, <1>4, ChargingKeeps
<1> QED
  BY <1>6, <1>7

LEMMA EndsKeeps ==
    ASSUME UsageAssumption, TypeOK, NEW j \in Jobs, ChargeInv(j), EndInv(j), Ends(j)
    PROVE  ChargeInv(j)' /\ EndInv(j)'
<1>0. UNCHANGED <<events, taken, takenAt, back, backAt, pc, way>>
  BY DEF Ends, windows, ledger, charging
<1>1. /\ end[j] = "no" /\ end'[j] \in {"made", "failed"} /\ early'[j] = (pc[j] # "held")
      /\ backAt[j] = Never
      /\ \/ lost'[j] /\ closing' = closing
         \/ closing'[j]["finish"] = Closing /\ \A d \in Closers \ {"finish"} : closing'[j][d] = closing[j][d]
  <2>1. "finish" \in Closers /\ Closing \in Shutting
    BY Values DEF Closers
  <2>2. end[j] = "no" /\ end'[j] \in {"made", "failed"} /\ backAt[j] = Never
    BY DEF Ends, TypeOK, EndInv
  <2>3. early'[j] = (pc[j] # "held")
    BY DEF Ends, TypeOK
  <2>4. CASE Goto(j, "finish", Closing)
    BY <2>1, <2>2, <2>3, <2>4, GotoType
  <2>5. CASE closing' = closing /\ lost' = [lost EXCEPT ![j] = TRUE]
    BY <2>2, <2>3, <2>5 DEF TypeOK
  <2> QED
    BY <2>4, <2>5 DEF Ends
<1>2. Cost(j)' = Cost(j) /\ Mult(j)' = Mult(j) /\ Actual(j)' = Actual(j) /\ Kept(j)' = Kept(j)
  BY <1>0 DEF Cost, Mult, Actual, Kept
<1>3. ChargeInv(j)'
  BY <1>0, <1>2 DEF ChargeInv
<1>4. \A c \in Closers : ReadInv(j, c)'
  BY <1>1 DEF ReadInv, Closing, EndInv
<1>5. closing'[j]["finish"].step = "no" => lost'[j]
  BY <1>1 DEF Closing
<1>6. events[j].five # Never => events[j].points = Price[j]
  BY <1>1 DEF EndInv
<1> QED
  BY <1>0, <1>1, <1>2, <1>3, <1>4, <1>5, <1>6 DEF EndInv

LEMMA SweepKeeps ==
    ASSUME UsageAssumption, TypeOK, NEW j \in Jobs, ChargeInv(j), EndInv(j), SweepFinds(j)
    PROVE  ChargeInv(j)' /\ EndInv(j)'
<1>0. UNCHANGED <<events, taken, takenAt, back, backAt, pc, way, end, lost>>
  BY DEF SweepFinds, windows, ledger, charging
<1>1. /\ end[j] # "no" /\ backAt[j] = Never
      /\ early'[j] = (early[j] \/ pc[j] \notin {"held", "refused"})
      /\ closing'[j]["sweep"] = Closing
      /\ \A d \in Closers \ {"sweep"} : closing'[j][d] = closing[j][d]
  <2>1. "sweep" \in Closers /\ Closing \in Shutting
    BY Values DEF Closers
  <2>2. early'[j] = (early[j] \/ pc[j] \notin {"held", "refused"})
    BY DEF SweepFinds, TypeOK
  <2> QED
    BY <2>1, <2>2, GotoType DEF SweepFinds
<1>2. Cost(j)' = Cost(j) /\ Mult(j)' = Mult(j) /\ Actual(j)' = Actual(j) /\ Kept(j)' = Kept(j)
  BY <1>0 DEF Cost, Mult, Actual, Kept
<1>3. ChargeInv(j)'
  BY <1>0, <1>2 DEF ChargeInv
<1>4. ASSUME ~ early'[j], NEW c \in Closers
      PROVE  ReadInv(j, c)'
  <2>1. ReadInv(j, c)
    BY <1>1, <1>4 DEF EndInv
  <2>2. CASE c = "sweep"
    BY <1>1, <2>2 DEF ReadInv, Closing
  <2>3. CASE c # "sweep"
    <3>1. closing'[j][c] = closing[j][c]
      BY <1>1, <2>3
    <3> QED
      BY <1>0, <1>2, <2>1, <3>1 DEF ReadInv
  <2> QED
    BY <2>2, <2>3
<1>5. closing'[j]["finish"] = closing[j]["finish"]
  BY <1>1 DEF Closers
<1> QED
  BY <1>0, <1>1, <1>2, <1>3, <1>4, <1>5 DEF EndInv

\* What only reads takes a closing further.
LEMMA ReadKeeps ==
    ASSUME UsageAssumption, TypeOK, NEW j \in Jobs, NEW c \in Closers, ChargeInv(j), EndInv(j),
           ReadActual(j, c) \/ ReadEvent(j, c)
    PROVE  ChargeInv(j)' /\ EndInv(j)'
<1>0. UNCHANGED <<events, taken, takenAt, back, backAt, pc, way, end, early, lost>>
  BY DEF ReadActual, ReadEvent, windows, ledger, charging
<1>1. Cost(j)' = Cost(j) /\ Mult(j)' = Mult(j) /\ Actual(j)' = Actual(j) /\ Kept(j)' = Kept(j)
  BY <1>0 DEF Cost, Mult, Actual, Kept
<1>2. ChargeInv(j)'
  BY <1>0, <1>1 DEF ChargeInv
<1>3. closing[j][c] \in Shutting /\ events[j] \in Event /\ Actual(j) \in Nat /\ NoEvent \in Event
  BY ClosingValues, Values DEF TypeOK
<1>4. /\ closing[j][c].step # "no" /\ closing'[j][c].step # "no"
      /\ \A d \in Closers \ {c} : closing'[j][d] = closing[j][d]
      /\ ~ early[j] => ReadInv(j, c)'
  <2>1. CASE ReadActual(j, c)
    <3> DEFINE to == [step |-> "priced", actual |-> Actual(j), event |-> NoEvent]
    <3>1. to \in Shutting /\ Goto(j, c, to)
      BY <1>3, <2>1 DEF Shutting, ReadActual
    <3>2. closing'[j][c] = to /\ \A d \in Closers \ {c} : closing'[j][d] = closing[j][d]
      BY <3>1, GotoType
    <3> QED
      BY <1>1, <2>1, <3>2 DEF ReadInv, ReadActual
  <2>2. CASE ReadEvent(j, c)
    <3> DEFINE to == [step |-> "known", actual |-> closing[j][c].actual, event |-> events[j]]
    <3>1. to \in Shutting /\ Goto(j, c, to)
      BY <1>3, <2>2 DEF Shutting, ReadEvent
    <3>2. closing'[j][c] = to /\ \A d \in Closers \ {c} : closing'[j][d] = closing[j][d]
      BY <3>1, GotoType
    <3>3. closing[j][c].step = "priced"
      BY <2>2 DEF ReadEvent
    <3>4. ~ early[j] => closing[j][c].actual = Actual(j)
      BY <3>3 DEF EndInv, ReadInv
    <3>5. events[j].points >= events[j].points
      BY <1>3 DEF Event
    <3> QED
      BY <1>0, <1>1, <3>2, <3>3, <3>4, <3>5 DEF ReadInv
  <2> QED
    BY <2>1, <2>2
<1>5. end[j] # "no"
  BY <1>4 DEF EndInv
<1>6. ASSUME ~ early[j], NEW d \in Closers
      PROVE  ReadInv(j, d)'
  <2>1. CASE d = c
    BY <1>4, <1>6, <2>1
  <2>2. CASE d # c
    <3>1. ReadInv(j, d) /\ closing'[j][d] = closing[j][d]
      BY <1>4, <1>6, <2>2 DEF EndInv
    <3> QED
      BY <1>0, <1>1, <3>1 DEF ReadInv
  <2> QED
    BY <2>1, <2>2
<1>7. closing'[j]["finish"].step = "no" => closing[j]["finish"].step = "no"
  BY <1>4 DEF Closers
<1> QED
  BY <1>0, <1>1, <1>2, <1>5, <1>6, <1>7 DEF EndInv

\* Of the event of the job only the points change, by no more than are there.
LEMMA PointsGoBack ==
    ASSUME UsageAssumption, TypeOK, NEW j \in Jobs, NEW asked \in Int, GivePointsBack(j, asked)
    PROVE  /\ events'[j].mult = events[j].mult /\ events'[j].at = events[j].at
           /\ events'[j].five = events[j].five /\ events'[j].week = events[j].week
           /\ events'[j].overage = events[j].overage
           /\ events'[j].points = events[j].points - Most(Least(asked, events[j].points), 0)
<1> DEFINE points == Least(asked, events[j].points)
<1>1. events[j] \in Event /\ events[j].points \in Nat /\ points \in Int
  BY DEF TypeOK, Event, Least
<1>2. CASE points <= 0
  BY <1>1, <1>2 DEF GivePointsBack, windows, Most
<1>3. CASE ~ (points <= 0)
  <2>1. events' = [events EXCEPT ![j].points = @ - points]
    BY <1>3 DEF GivePointsBack
  <2>2. Most(points, 0) = points
    BY <1>1, <1>3 DEF Most
  <2> HIDE DEF points
  <2>3. /\ events'[j].mult = events[j].mult /\ events'[j].at = events[j].at
        /\ events'[j].five = events[j].five /\ events'[j].week = events[j].week
        /\ events'[j].overage = events[j].overage
        /\ events'[j].points = events[j].points - points
    BY <1>1, <2>1 DEF TypeOK, Event
  <2> QED
    BY <2>2, <2>3 DEF points
<1> QED
  BY <1>2, <1>3

LEMMA ClosePointsKeeps ==
    ASSUME UsageAssumption, TypeOK, NEW j \in Jobs, NEW c \in Closers, ChargeInv(j), EndInv(j),
           ClosePoints(j, c)
    PROVE  ChargeInv(j)' /\ EndInv(j)'
<1> DEFINE asked == PointsBack(j, closing[j][c])
           points == Most(Least(asked, events[j].points), 0)
<1>0. UNCHANGED <<taken, takenAt, back, backAt, pc, way, end, early, lost>>
  BY DEF ClosePoints, ledger, charging
<1>1. /\ asked \in Int /\ GivePointsBack(j, asked) /\ events[j].points \in Nat
      /\ closing[j][c] \in Shutting /\ closing[j][c].step = "known"
  BY ClosingValues DEF ClosePoints, TypeOK, Event
<1>2. /\ points \in 0 .. events[j].points
      /\ asked >= events[j].points => points = events[j].points
      /\ asked <= 0 => points = 0
  BY <1>1 DEF Least, Most
<1>3. /\ events'[j].mult = events[j].mult /\ events'[j].at = events[j].at
      /\ events'[j].five = events[j].five /\ events'[j].week = events[j].week
      /\ events'[j].overage = events[j].overage
      /\ events'[j].points = events[j].points - points
  BY <1>1, PointsGoBack
<1>4. /\ closing'[j][c] = NotClosing
      /\ \A d \in Closers \ {c} : closing'[j][d] = closing[j][d]
  <2>1. NotClosing \in Shutting /\ Goto(j, c, NotClosing)
    BY Values DEF ClosePoints
  <2> QED
    BY <2>1, GotoType
<1> HIDE DEF points
<1>5. Cost(j)' = Cost(j) /\ Mult(j)' = Mult(j) /\ Actual(j)' = Actual(j) /\ Kept(j)' = Kept(j)
  BY <1>0, <1>3 DEF Cost, Mult, Actual, Kept
<1>6. ChargeInv(j)'
  <2>1. CASE events[j].points = 0
    <3>1. points = 0
      BY <1>2, <2>1
    <3>2. UNCHANGED events
      BY <1>1, <2>1 DEF GivePointsBack, windows, Least
    <3> QED
      BY <1>0, <1>5, <3>2 DEF ChargeInv
  <2>2. CASE events[j].points # 0
    <3>1. pc[j] = "held" /\ takenAt[j] = Never
      BY <2>2 DEF ChargeInv, NoEvent
    <3>2. events'[j].points <= Price[j]
      BY <1>1, <1>2, <1>3, <3>1, CostType DEF ChargeInv
    <3> QED
      BY <1>0, <1>3, <1>5, <3>1, <3>2 DEF ChargeInv
  <2> QED
    BY <2>1, <2>2
<1>7. end[j] # "no"
  BY <1>1 DEF EndInv
<1>8. ASSUME ~ early[j], NEW d \in Closers
      PROVE  ReadInv(j, d)'
  <2>1. CASE d = c
    BY <1>4, <2>1 DEF ReadInv, NotClosing
  <2>2. CASE d # c
    <3>1. ReadInv(j, d) /\ closing'[j][d] = closing[j][d] /\ closing[j][d].event.points \in Nat
      BY <1>4, <1>8, <2>2, ClosingValues DEF EndInv, Shutting, Event
    <3> QED
      BY <1>0, <1>1, <1>2, <1>3, <1>5, <3>1 DEF ReadInv
  <2> QED
    BY <2>1, <2>2
<1>9. ASSUME ~ early[j], ~ lost[j], end[j] = "failed", closing'[j]["finish"].step = "no"
      PROVE  events'[j].points = 0
  <2>1. CASE c = "finish"
    <3>1. asked = closing[j][c].event.points
      BY <1>9 DEF PointsBack
    <3>2. closing[j][c].event.points >= events[j].points
      BY <1>1, <1>9 DEF EndInv, ReadInv
    <3> QED
      BY <1>1, <1>2, <1>3, <3>1, <3>2
  <2>2. CASE c # "finish"
    <3>1. closing'[j]["finish"] = closing[j]["finish"]
      BY <1>4, <2>2 DEF Closers
    <3>2. events[j].points = 0
      BY <1>9, <3>1 DEF EndInv
    <3>3. points = 0
      BY <1>2, <3>2
    <3>4. events'[j].points = events[j].points - points
      BY <1>3
    <3> QED
      BY <3>2, <3>3, <3>4
  <2> QED
    BY <2>1, <2>2
<1>10. ASSUME end[j] = "made", How[j] = "flat", events[j].five # Never
       PROVE  events'[j].points = Price[j]
  <2>1. asked = 0
    BY <1>10 DEF PointsBack
  <2>2. events[j].points = Price[j]
    BY <1>10 DEF EndInv
  <2> QED
    BY <1>1, <1>2, <1>3, <2>1, <2>2
<1> QED
  BY <1>0, <1>3, <1>5, <1>6, <1>7, <1>8, <1>9, <1>10 DEF EndInv

LEMMA CloseCreditsKeeps ==
    ASSUME UsageAssumption, TypeOK, NEW j \in Jobs, NEW c \in Closers, ChargeInv(j), EndInv(j),
           CloseCredits(j, c)
    PROVE  ChargeInv(j)' /\ EndInv(j)'
<1> DEFINE credits == CreditsBack(j, closing[j][c])
<1>0. UNCHANGED <<events, taken, takenAt, pc, way, end, early, lost>>
  BY DEF CloseCredits, windows, ledger, charging
<1>1. /\ credits \in 0 .. taken[j] /\ taken[j] \in Nat /\ now \in Nat /\ now # Never
      /\ closing[j][c] \in Shutting /\ closing[j][c].step = "known"
      /\ closing[j][c].event.points = 0
  BY ClosingValues, WindowType DEF CloseCredits, TypeOK, Never
<1>2. \/ UNCHANGED <<back, backAt>> /\ (takenAt[j] # Never => backAt[j] # Never)
      \/ /\ takenAt[j] # Never /\ backAt[j] = Never
         /\ back'[j] = credits /\ backAt'[j] = now
  BY DEF CloseCredits, ledger, TypeOK
<1>3. /\ closing'[j][c] = NotClosing
      /\ \A d \in Closers \ {c} : closing'[j][d] = closing[j][d]
  <2>1. NotClosing \in Shutting /\ Goto(j, c, NotClosing)
    BY Values DEF CloseCredits
  <2> QED
    BY <2>1, GotoType
<1>4. Cost(j)' = Cost(j) /\ Mult(j)' = Mult(j) /\ Actual(j)' = Actual(j) /\ Kept(j)' = Kept(j)
  BY <1>0 DEF Cost, Mult, Actual, Kept
<1>5. ChargeInv(j)'
  <2>1. /\ takenAt'[j] = Never => backAt'[j] = Never
        /\ backAt'[j] = Never => back'[j] = 0
        /\ back'[j] <= taken'[j]
    BY <1>0, <1>1, <1>2 DEF ChargeInv
  <2> QED
    BY <1>0, <1>4, <2>1 DEF ChargeInv
<1>6. end[j] # "no"
  BY <1>1 DEF EndInv
<1>7. ASSUME ~ early[j], NEW d \in Closers
      PROVE  ReadInv(j, d)'
  <2>1. CASE d = c
    BY <1>3, <2>1 DEF ReadInv, NotClosing
  <2>2. CASE d # c
    <3>1. ReadInv(j, d) /\ closing'[j][d] = closing[j][d]
      BY <1>3, <1>7, <2>2 DEF EndInv
    <3> QED
      BY <1>0, <1>4, <3>1 DEF ReadInv
  <2> QED
    BY <2>1, <2>2
<1>8. ASSUME ~ early[j], ~ lost[j], end[j] = "failed", closing'[j]["finish"].step = "no"
      PROVE  events[j].points = 0
  <2>1. CASE c = "finish"
    <3>1. closing[j][c].event.points >= events[j].points
      BY <1>1, <1>8 DEF EndInv, ReadInv
    <3>2. events[j].points \in Nat
      BY DEF TypeOK, Event
    <3> QED
      BY <1>1, <3>1, <3>2
  <2>2. CASE c # "finish"
    <3>1. closing'[j]["finish"] = closing[j]["finish"]
      BY <1>3, <2>2 DEF Closers
    <3> QED
      BY <1>8, <3>1 DEF EndInv
  <2> QED
    BY <2>1, <2>2
<1>9. ASSUME ~ early[j], takenAt[j] # Never
      PROVE  /\ end[j] = "failed" => credits = taken[j]
             /\ end[j] = "made" /\ Percent >= 100 => taken[j] - credits = Kept(j)
  <2>1. CASE end[j] = "failed"
    BY <2>1 DEF CreditsBack
  <2>2. CASE end[j] = "made" /\ Percent >= 100
    <3>1. /\ events[j].at # Never /\ events[j].mult = Mult(j)
      BY <1>9, <2>2 DEF ChargeInv, EndInv
    <3>2. /\ closing[j][c].actual = Actual(j) /\ closing[j][c].event.mult = events[j].mult
          /\ closing[j][c].event.at = events[j].at
      BY <1>1, <1>9 DEF EndInv, ReadInv
    <3>3. Due(closing[j][c]) = CeilPct(Actual(j), events[j].mult)
      BY <3>1, <3>2 DEF Due, Found
    <3>4. events[j].mult \in Nat /\ events[j].mult >= 100
      BY <2>2, <3>1, CostType DEF Mult, UsageAssumption
    <3>5. Measured[j] \in Nat /\ How[j] \in {"fixed", "measured", "flat"}
      BY DEF UsageAssumption
    <3>6. CASE How[j] = "measured"
      <4>1. Actual(j) = Least(Measured[j], taken[j]) /\ Actual(j) \in Nat
        BY <3>6, ClosingValues DEF Actual
      <4>2. Due(closing[j][c]) \in Nat
        BY <3>3, <3>4, <4>1, CeilNat
      <4>3. Kept(j) = Least(taken[j], Due(closing[j][c]))
        BY <3>3, <3>6, <4>1 DEF Kept
      <4>4. credits = Most(taken[j] - Most(Due(closing[j][c]), 0), 0)
        BY <2>2, <3>6 DEF CreditsBack
      <4> HIDE DEF credits
      <4> QED
        BY <1>1, <2>2, <4>2, <4>3, <4>4 DEF Least, Most
    <3>7. CASE How[j] = "flat"
      BY <1>1, <2>2, <3>7 DEF CreditsBack, Kept
    <3>8. CASE How[j] = "fixed"
      <4>1. Actual(j) = taken[j] /\ Kept(j) = taken[j]
        BY <3>8 DEF Actual, Kept
      <4>2. Due(closing[j][c]) \in Nat /\ Due(closing[j][c]) >= taken[j]
        BY <1>1, <3>3, <3>4, <4>1, CeilNat, CeilGrows
      <4>4. credits = Most(taken[j] - Most(Due(closing[j][c]), 0), 0)
        BY <2>2, <3>8 DEF CreditsBack
      <4> HIDE DEF credits
      <4> QED
        BY <1>1, <2>2, <4>1, <4>2, <4>4 DEF Most
    <3> QED
      BY <3>5, <3>6, <3>7, <3>8
  <2> QED
    BY <2>1, <2>2
<1>10. ASSUME ~ early[j], backAt'[j] # Never
       PROVE  /\ end[j] = "failed" => back'[j] = taken[j]
              /\ end[j] = "made" /\ Percent >= 100 => taken[j] - back'[j] = Kept(j)
  BY <1>2, <1>9, <1>10 DEF EndInv
<1> QED
  BY <1>0, <1>4, <1>5, <1>6, <1>7, <1>8, <1>10 DEF EndInv

LEMMA OneJobKeeps ==
    ASSUME UsageAssumption, TypeOK, NEW j \in Jobs, ChargeInv(j), EndInv(j),
           JobStep(j) \/ \E c \in Closers : ClosingStep(j, c)
    PROVE  ChargeInv(j)' /\ EndInv(j)'
<1>1. ASSUME NEW to \in Places, Move(j, to)
      PROVE  pc'[j] = to
  BY <1>1, MoveType
<1>2. CASE ReadPlan(j)
  <2>1. pc[j] = "new" /\ pc'[j] \in {"allowed", "counting"}
    BY <1>1, <1>2 DEF ReadPlan, Places
  <2> QED
    BY <1>2, <2>1, PlaceKeeps DEF ReadPlan
<1>3. CASE TakeRefused(j)
  <2>1. pc[j] = "counting" /\ pc'[j] = "full"
    BY <1>1, <1>3 DEF TakeRefused, Places
  <2> QED
    BY <1>3, <2>1, PlaceKeeps DEF TakeRefused
<1>4. CASE ReadOverage(j)
  <2>1. CASE Move(j, "allowed") /\ UNCHANGED rows
    <3>1. pc[j] = "full" /\ pc'[j] = "allowed"
      BY <1>1, <1>4, <2>1 DEF ReadOverage, Places
    <3> QED
      BY <1>4, <2>1, <3>1, PlaceKeeps DEF ReadOverage
  <2>2. CASE Refuse(j) /\ UNCHANGED way
    BY <1>4, <2>2, RefuseKeeps DEF ReadOverage
  <2> QED
    BY <1>4, <2>1, <2>2 DEF ReadOverage
<1>5. CASE CheckDay(j)
  <2>1. CASE Move(j, "checked") /\ UNCHANGED rows
    <3>1. pc[j] = "allowed" /\ pc'[j] = "checked"
      BY <1>1, <1>5, <2>1 DEF CheckDay, Places
    <3> QED
      BY <1>5, <2>1, <3>1, PlaceKeeps DEF CheckDay
  <2>2. CASE Refuse(j)
    BY <1>5, <2>2, RefuseKeeps DEF CheckDay
  <2> QED
    BY <1>5, <2>1, <2>2 DEF CheckDay
<1>6. CASE ChargeRefused(j)
  BY <1>6, RefuseKeeps DEF ChargeRefused
<1>7. CASE RecordFails(j)
  BY <1>7, RefuseKeeps DEF RecordFails
<1>8. CASE Take(j) \/ Charge(j) \/ Record(j) \/ Ends(j) \/ SweepFinds(j)
  BY <1>8, TakeKeeps, ChargeKeeps, RecordKeeps, EndsKeeps, SweepKeeps
<1>9. ASSUME NEW c \in Closers, ClosingStep(j, c)
      PROVE  ChargeInv(j)' /\ EndInv(j)'
  BY <1>9, ReadKeeps, ClosePointsKeeps, CloseCreditsKeeps DEF ClosingStep
<1> QED
  BY <1>2, <1>3, <1>4, <1>5, <1>6, <1>7, <1>8, <1>9 DEF JobStep

LEMMA WorldSame ==
    ASSUME WorldStep \/ UNCHANGED vars, NEW k \in Jobs
    PROVE  Same(k)
<1>1. UNCHANGED <<windows, ledger, charging, rows>>
  BY DEF WorldStep, Tick, PlanChanges, SetOverage, vars, windows, ledger, charging, rows
<1> QED
  BY <1>1 DEF windows, ledger, charging, rows, Same

\* Each job, whatever the others do.
JobsInv == \A j \in Jobs : ChargeInv(j) /\ EndInv(j)

LEMMA JobsKeep ==
    ASSUME UsageAssumption, TypeOK, JobsInv, [Next]_vars
    PROVE  JobsInv'
<1>1. SUFFICES ASSUME NEW k \in Jobs PROVE (ChargeInv(k) /\ EndInv(k))'
  BY DEF JobsInv
<1>2. ChargeInv(k) /\ EndInv(k)
  BY DEF JobsInv
<1>3. CASE WorldStep \/ UNCHANGED vars
  BY <1>2, <1>3, WorldSame, SameKeeps
<1>4. ASSUME NEW j \in Jobs, JobStep(j) \/ \E c \in Closers : ClosingStep(j, c)
      PROVE  ChargeInv(k)' /\ EndInv(k)'
  <2>1. CASE j = k
    BY <1>2, <1>4, <2>1, OneJobKeeps
  <2>2. CASE j # k
    <3>1. Same(k)
      BY <1>4, <2>2, OthersSame
    <3> QED
      BY <1>2, <3>1, SameKeeps
  <2> QED
    BY <2>1, <2>2
<1> QED
  BY <1>3, <1>4, StepForms

LEMMA JobsInit == ASSUME UsageAssumption, Init PROVE JobsInv
<1>1. SUFFICES ASSUME NEW j \in Jobs PROVE ChargeInv(j) /\ EndInv(j)
  BY DEF JobsInv
<1>2. /\ events[j] = NoEvent /\ taken[j] = 0 /\ takenAt[j] = Never /\ back[j] = 0
      /\ backAt[j] = Never /\ pc[j] = "new" /\ end[j] = "no" /\ ~ early[j] /\ ~ lost[j]
      /\ \A c \in Closers : closing[j][c] = NotClosing
  BY DEF Init
<1>3. ChargeInv(j)
  BY <1>2 DEF ChargeInv
<1> QED
  BY <1>2, <1>3 DEF EndInv, ReadInv, NotClosing, NoEvent

-----------------------------------------------------------------------------
(* Which step writes what.                                                 *)

LEMMA LedgerSteps ==
    ASSUME [Next]_vars
    PROVE  \/ UNCHANGED ledger
           \/ \E j \in Jobs : Charge(j) \/ \E c \in Closers : CloseCredits(j, c)
<1>1. CASE UNCHANGED vars \/ WorldStep
  BY <1>1 DEF vars, WorldStep, Tick, PlanChanges, SetOverage, ledger
<1>2. ASSUME NEW j \in Jobs, JobStep(j)
      PROVE  UNCHANGED ledger \/ Charge(j)
  <2>1. CASE ReadPlan(j) \/ Take(j) \/ TakeRefused(j) \/ ReadOverage(j) \/ CheckDay(j)
    BY <2>1 DEF ReadPlan, Take, TakeRefused, ReadOverage, CheckDay
  <2>2. CASE ChargeRefused(j) \/ Record(j) \/ RecordFails(j) \/ Ends(j) \/ SweepFinds(j)
    BY <2>2 DEF ChargeRefused, Record, RecordFails, Ends, SweepFinds
  <2> QED
    BY <1>2, <2>1, <2>2 DEF JobStep
<1>3. ASSUME NEW j \in Jobs, NEW c \in Closers, ClosingStep(j, c)
      PROVE  UNCHANGED ledger \/ CloseCredits(j, c)
  BY <1>3 DEF ClosingStep, ReadActual, ReadEvent, ClosePoints
<1> QED
  BY <1>1, <1>2, <1>3, StepForms

LEMMA WindowSteps ==
    ASSUME [Next]_vars
    PROVE  \/ UNCHANGED windows
           \/ \E j \in Jobs : Take(j) \/ Record(j) \/ \E c \in Closers : ClosePoints(j, c)
<1>1. CASE UNCHANGED vars \/ WorldStep
  BY <1>1 DEF vars, WorldStep, Tick, PlanChanges, SetOverage, windows
<1>2. ASSUME NEW j \in Jobs, JobStep(j)
      PROVE  UNCHANGED windows \/ Take(j) \/ Record(j)
  <2>1. CASE ReadPlan(j) \/ TakeRefused(j) \/ ReadOverage(j) \/ CheckDay(j) \/ Charge(j)
    BY <2>1 DEF ReadPlan, TakeRefused, ReadOverage, CheckDay, Charge
  <2>2. CASE ChargeRefused(j) \/ RecordFails(j) \/ Ends(j) \/ SweepFinds(j)
    BY <2>2 DEF ChargeRefused, RecordFails, Ends, SweepFinds
  <2> QED
    BY <1>2, <2>1, <2>2 DEF JobStep
<1>3. ASSUME NEW j \in Jobs, NEW c \in Closers, ClosingStep(j, c)
      PROVE  UNCHANGED windows \/ ClosePoints(j, c)
  BY <1>3 DEF ClosingStep, ReadActual, ReadEvent, CloseCredits
<1> QED
  BY <1>1, <1>2, <1>3, StepForms

\* Time does not go back, and only its own step moves it.
LEMMA TimeGoesOn ==
    ASSUME UsageAssumption, TypeOK, [Next]_vars
    PROVE  /\ now \in Nat /\ now' \in Nat /\ now <= now'
           /\ WeekStart(now) <= WeekStart(now') /\ MonthStart(now) <= MonthStart(now')
           /\ ~ UNCHANGED <<windows, ledger>> => now' = now
<1>0. now \in Nat
  BY WindowType
<1>1. (now' = now + 1 /\ UNCHANGED <<windows, ledger>>) \/ now' = now
  <2>1. CASE UNCHANGED vars \/ WorldStep
    BY <2>1 DEF vars, WorldStep, Tick, PlanChanges, SetOverage
  <2>2. ASSUME NEW j \in Jobs, JobStep(j)
        PROVE  now' = now
    <3>1. CASE ReadPlan(j) \/ Take(j) \/ TakeRefused(j) \/ ReadOverage(j) \/ CheckDay(j) \/ Charge(j)
      BY <3>1 DEF ReadPlan, Take, TakeRefused, ReadOverage, CheckDay, Charge, world
    <3>2. CASE ChargeRefused(j) \/ Record(j) \/ RecordFails(j) \/ Ends(j) \/ SweepFinds(j)
      BY <3>2 DEF ChargeRefused, Record, RecordFails, Ends, SweepFinds, world
    <3> QED
      BY <2>2, <3>1, <3>2 DEF JobStep
  <2>3. ASSUME NEW j \in Jobs, NEW c \in Closers, ClosingStep(j, c)
        PROVE  now' = now
    BY <2>3 DEF ClosingStep, ReadActual, ReadEvent, ClosePoints, CloseCredits, world
  <2> QED
    BY <2>1, <2>2, <2>3, StepForms
<1>2. ASSUME NEW w \in Nat \ {0}
      PROVE  now - (now % w) <= now' - (now' % w)
  <2>1. CASE now' = now
    <3>1. now - (now % w) \in 0 .. now
      BY <1>0, StartOf
    <3> QED
      BY <1>0, <2>1, <3>1
  <2>2. CASE now' = now + 1
    BY <1>0, <2>2, StartOf
  <2> QED
    BY <1>1, <2>1, <2>2
<1>3. WeekStart(now) <= WeekStart(now') /\ MonthStart(now) <= MonthStart(now')
  BY <1>2 DEF WeekStart, MonthStart, UsageAssumption
<1> QED
  BY <1>0, <1>1, <1>3

-----------------------------------------------------------------------------
(* Every credit.                                                           *)

LEMMA NetCounts ==
    ASSUME UsageAssumption, TypeOK, JobsInv
    PROVE  Counts(Net, Jobs) /\ Counts(taken, Jobs) /\ Counts(back, Jobs)
<1>1. \A j \in Jobs : taken[j] \in Nat /\ back[j] \in Nat /\ back[j] <= taken[j]
  BY DEF TypeOK, JobsInv, ChargeInv
<1> QED
  BY <1>1 DEF UsageAssumption, Counts, Net

LEMMA CreditsKeep ==
    ASSUME UsageAssumption, TypeOK, JobsInv, CreditsAddUp, [Next]_vars
    PROVE  CreditsAddUp'
<1>0. TypeOK' /\ JobsInv' /\ Counts(Net, Jobs) /\ Counts(Net, Jobs)'
  <2>1. TypeOK' /\ JobsInv'
    BY NextType, JobsKeep
  <2>2. Counts(Net, Jobs)'
    <3>1. \A j \in Jobs : taken'[j] \in Nat /\ back'[j] \in Nat /\ back'[j] <= taken'[j]
      BY <2>1 DEF TypeOK, JobsInv, ChargeInv
    <3> QED
      BY <3>1 DEF UsageAssumption, Counts, Net
  <2> QED
    BY <2>1, <2>2, NetCounts
<1>1. \A j \in Jobs : back'[j] <= taken'[j]
  BY <1>0 DEF JobsInv, ChargeInv
<1>2. CASE UNCHANGED ledger
  BY <1>2 DEF ledger, CreditsAddUp, Net
<1>3. ASSUME NEW j \in Jobs, Charge(j) \/ \E c \in Closers : CloseCredits(j, c)
      PROVE  balance' + SumFunctionOnSet(Net', Jobs) = Grant
  <2>1. \/ UNCHANGED ledger
        \/ /\ balance' + Net'[j] = balance + Net[j]
           /\ \A k \in Jobs \ {j} : Net'[k] = Net[k]
    <3>1. CASE Charge(j)
      <4>1. /\ taken[j] = 0 /\ back[j] = 0 /\ taken'[j] = Cost(j) /\ back' = back
            /\ balance' = balance - Cost(j) /\ Cost(j) \in Nat /\ balance \in Nat
            /\ \A k \in Jobs \ {j} : taken'[k] = taken[k]
        BY <3>1, CostType DEF Charge, TypeOK, JobsInv, ChargeInv
      <4> QED
        BY <4>1 DEF Net
    <3>2. ASSUME NEW c \in Closers, CloseCredits(j, c), ~ UNCHANGED ledger
          PROVE  /\ balance' + Net'[j] = balance + Net[j]
                 /\ \A k \in Jobs \ {j} : Net'[k] = Net[k]
      <4> DEFINE credits == CreditsBack(j, closing[j][c])
      <4>1. credits \in 0 .. taken[j] /\ taken[j] \in Nat /\ balance \in Nat
        BY ClosingValues DEF TypeOK
      <4>2. /\ backAt[j] = Never /\ taken' = taken /\ back'[j] = credits
            /\ balance' = balance + credits /\ \A k \in Jobs \ {j} : back'[k] = back[k]
        BY <3>2 DEF CloseCredits, TypeOK
      <4>3. back[j] = 0
        BY <4>2 DEF JobsInv, ChargeInv
      <4> HIDE DEF credits
      <4> QED
        BY <4>1, <4>2, <4>3 DEF Net
    <3> QED
      BY <1>3, <3>1, <3>2
  <2>2. CASE UNCHANGED ledger
    BY <2>2 DEF ledger, CreditsAddUp, Net
  <2>3. CASE /\ balance' + Net'[j] = balance + Net[j]
             /\ \A k \in Jobs \ {j} : Net'[k] = Net[k]
    <3>1. Net[j] \in Nat /\ Net'[j] \in Nat /\ balance \in Nat /\ balance' \in Nat
      BY <1>0 DEF Counts, TypeOK
    <3>2. SumFunctionOnSet(Net', Jobs) = SumFunctionOnSet(Net, Jobs) - Net[j] + Net'[j]
      BY <1>0, <2>3, <3>1, SumChange
    <3>3. SumFunctionOnSet(Net, Jobs) \in Nat
      BY <1>0, SumNat
    <3> QED
      BY <2>3, <3>1, <3>2, <3>3 DEF CreditsAddUp
  <2> QED
    BY <2>1, <2>2, <2>3
<1> QED
  BY <1>1, <1>2, <1>3, LedgerSteps DEF CreditsAddUp

LEMMA CreditsInit == ASSUME UsageAssumption, Init PROVE CreditsAddUp
<1>1. \A j \in Jobs : taken[j] = 0 /\ back[j] = 0 /\ Net[j] = 0
  BY DEF Init, Net
<1>2. SumFunctionOnSet(Net, Jobs) = 0
  BY <1>1, SumOfZeros DEF UsageAssumption
<1> QED
  BY <1>1, <1>2 DEF CreditsAddUp, Init, UsageAssumption

-----------------------------------------------------------------------------
(* The two tables.                                                         *)

Column == [Jobs -> Times \cup {Never}]
FiveOf == [j \in Jobs |-> events[j].five]
WeekOf == [j \in Jobs |-> events[j].week]

\* The window w holds what the column at counts in it, and none is counted in a later one.
Holds(w, at, points) ==
    /\ \A j \in Jobs : at[j] <= w.start
    /\ w.start # Never => w.points = SumFunctionOnSet(points, {j \in Jobs : at[j] = w.start})

\* The charge of j is counted in the window, or begins one.
LEMMA HoldsMore ==
    ASSUME UsageAssumption, NEW w \in Window, NEW at \in Column, NEW points \in [Jobs -> Nat],
           NEW v \in Window, NEW col \in Column, NEW pts \in [Jobs -> Nat], NEW j \in Jobs,
           Holds(w, at, points), at[j] = Never, v.start # Never, col[j] = v.start,
           \A k \in Jobs \ {j} : col[k] = at[k] /\ pts[k] = points[k],
           \/ v.start = w.start /\ v.points = w.points + pts[j]
           \/ v.start > w.start /\ v.points = pts[j]
    PROVE  Holds(v, col, pts)
<1> DEFINE S == {k \in Jobs : at[k] = w.start}
           T == {k \in Jobs : col[k] = v.start}
<1>0. MaxTime \in Nat /\ IsFiniteSet(Jobs)
  BY DEF UsageAssumption
<1>1. w.start \in Int /\ v.start \in Nat /\ \A k \in Jobs : at[k] \in Int /\ col[k] \in Int
  BY <1>0 DEF Window, Column, Times, Never
<1>2. Counts(pts, T) /\ Counts(points, S) /\ Counts(pts, T \ {j})
  BY <1>0, FS_Subset DEF Counts
<1>3. SumFunctionOnSet(pts, T) = pts[j] + SumFunctionOnSet(pts, T \ {j})
  BY <1>2, SumSplit
<1>4. CASE v.start = w.start /\ v.points = w.points + pts[j]
  <2>1. T \ {j} = S
    BY <1>1, <1>4
  <2>2. SumFunctionOnSet(points, S) = SumFunctionOnSet(pts, S)
    <3>1. \A k \in S : points[k] = pts[k]
      BY <2>1
    <3> QED
      BY <1>2, <3>1, SumSame
  <2>3. w.points = SumFunctionOnSet(points, S)
    BY <1>4 DEF Holds
  <2>4. pts[j] \in Nat /\ SumFunctionOnSet(points, S) \in Nat
    BY <1>2, SumNat
  <2>5. \A k \in Jobs : col[k] <= v.start
    BY <1>1, <1>4 DEF Holds
  <2> QED
    BY <1>3, <1>4, <2>1, <2>2, <2>3, <2>4, <2>5 DEF Holds
<1>5. CASE v.start > w.start /\ v.points = pts[j]
  <2>1. \A k \in Jobs \ {j} : col[k] < v.start
    BY <1>1, <1>5 DEF Holds
  <2>2. T \ {j} = {}
    BY <1>1, <2>1
  <2>3. SumFunctionOnSet(pts, T) = pts[j]
    BY <1>3, <2>2, SumOfNone
  <2>4. \A k \in Jobs : col[k] <= v.start
    BY <1>1, <2>1
  <2> QED
    BY <1>5, <2>3, <2>4 DEF Holds
<1> QED
  BY <1>4, <1>5

\* Points of j come back, off the window only where it is the one they were counted in.
LEMMA HoldsLess ==
    ASSUME UsageAssumption, NEW w \in Window, NEW at \in Column, NEW points \in [Jobs -> Nat],
           NEW v \in Window, NEW pts \in [Jobs -> Nat], NEW j \in Jobs, NEW n \in 0 .. points[j],
           Holds(w, at, points), pts[j] = points[j] - n,
           \A k \in Jobs \ {j} : pts[k] = points[k],
           v.start = w.start,
           v.points = IF w.start = at[j] THEN Most(w.points - n, 0) ELSE w.points
    PROVE  Holds(v, at, pts)
<1> DEFINE S == {k \in Jobs : at[k] = w.start}
<1>0. IsFiniteSet(S) /\ points[j] \in Nat
  BY FS_Subset DEF UsageAssumption
<1>1. Counts(points, S) /\ Counts(pts, S)
  BY <1>0 DEF Counts
<1>2. ASSUME w.start # Never PROVE v.points = SumFunctionOnSet(pts, S)
  <2>1. w.points = SumFunctionOnSet(points, S)
    BY <1>2 DEF Holds
  <2>2. SumFunctionOnSet(points, S) \in Nat
    BY <1>1, SumNat
  <2>3. CASE w.start = at[j]
    <3>1. SumFunctionOnSet(points, S) = points[j] + SumFunctionOnSet(points, S \ {j})
      BY <1>1, <2>3, SumSplit
    <3>2. SumFunctionOnSet(points, S \ {j}) \in Nat
      <4>1. S \ {j} \in SUBSET S
        OBVIOUS
      <4> QED
        BY <1>1, <4>1, SumOfPart, SumNat
    <3>3. SumFunctionOnSet(pts, S) = SumFunctionOnSet(points, S) - points[j] + pts[j]
      <4>1. j \in S
        BY <2>3
      <4>2. \A k \in S \ {j} : points[k] = pts[k]
        OBVIOUS
      <4>3. pts[j] \in Nat
        OBVIOUS
      <4> HIDE DEF S
      <4> QED
        BY <1>1, <4>1, <4>2, <4>3, SumChange
    <3> HIDE DEF S
    <3> QED
      BY <1>0, <2>1, <2>2, <2>3, <3>1, <3>2, <3>3 DEF Most
  <2>4. CASE w.start # at[j]
    <3>1. \A k \in S : points[k] = pts[k]
      BY <2>4
    <3>2. SumFunctionOnSet(points, S) = SumFunctionOnSet(pts, S)
      BY <1>1, <3>1, SumSame
    <3> QED
      BY <2>1, <2>4, <3>2
  <2> QED
    BY <2>3, <2>4
<1> QED
  BY <1>2 DEF Holds

\* What is counted in no window does not change one.
LEMMA HoldsAside ==
    ASSUME UsageAssumption, NEW w \in Window, NEW at \in Column, NEW points \in [Jobs -> Nat],
           NEW col \in Column, NEW pts \in [Jobs -> Nat], NEW j \in Jobs,
           Holds(w, at, points), at[j] = Never, col[j] = Never,
           \A k \in Jobs \ {j} : col[k] = at[k] /\ pts[k] = points[k]
    PROVE  Holds(w, col, pts)
<1> DEFINE S == {k \in Jobs : at[k] = w.start}
           T == {k \in Jobs : col[k] = w.start}
<1>1. \A k \in Jobs : col[k] <= w.start
  BY DEF Holds
<1>2. ASSUME w.start # Never PROVE w.points = SumFunctionOnSet(pts, T)
  <2>1. S = T /\ \A k \in S : points[k] = pts[k]
    BY <1>2
  <2>2. Counts(points, S)
    BY FS_Subset DEF Counts, UsageAssumption
  <2>3. SumFunctionOnSet(points, S) = SumFunctionOnSet(pts, S)
    BY <2>1, <2>2, SumSame
  <2> QED
    BY <1>2, <2>1, <2>3 DEF Holds
<1> QED
  BY <1>1, <1>2 DEF Holds

\* The windows hold their charges, and neither began later than it could have.
WindowInv ==
    /\ Holds(five, FiveOf, Points) /\ Holds(week, WeekOf, Points)
    /\ five.start <= now /\ week.start <= WeekStart(now)

LEMMA ColumnTypes ==
    ASSUME TypeOK
    PROVE  FiveOf \in Column /\ WeekOf \in Column /\ Points \in [Jobs -> Nat]
BY DEF TypeOK, Event, FiveOf, WeekOf, Points, Column

LEMMA WindowsKeep ==
    ASSUME UsageAssumption, TypeOK, JobsInv, WindowInv, [Next]_vars
    PROVE  WindowInv'
<1>0. /\ FiveOf \in Column /\ WeekOf \in Column /\ Points \in [Jobs -> Nat]
      /\ FiveOf' \in Column /\ WeekOf' \in Column /\ Points' \in [Jobs -> Nat]
      /\ five \in Window /\ week \in Window /\ five' \in Window /\ week' \in Window
      /\ MaxTime \in Nat /\ now \in Nat /\ WeekStart(now) \in Nat /\ now' \in Nat
      /\ WeekStart(now') \in Nat
  <2>1. TypeOK'
    BY NextType
  <2>2. now' \in Times /\ WeekStart(now') \in Times
    <3>1. now' \in Times /\ now' \in Nat
      BY <2>1 DEF TypeOK, Times, UsageAssumption
    <3>2. WeekStart(now') \in 0 .. now'
      BY <3>1, StartOf DEF WeekStart, UsageAssumption
    <3> QED
      BY <3>1, <3>2 DEF Times, UsageAssumption
  <2>3. FiveOf' \in Column /\ WeekOf' \in Column /\ Points' \in [Jobs -> Nat]
    BY <2>1 DEF TypeOK, Event, FiveOf, WeekOf, Points, Column
  <2> QED
    BY <2>1, <2>2, <2>3, ColumnTypes, WindowType DEF TypeOK, Times, UsageAssumption
<1>1. CASE UNCHANGED windows
  <2>1. now <= now' /\ WeekStart(now) <= WeekStart(now')
    BY TimeGoesOn
  <2>2. UNCHANGED <<five, week, FiveOf, WeekOf, Points>>
    BY <1>1 DEF windows, FiveOf, WeekOf, Points
  <2>3. five.start \in Int /\ week.start \in Int
    BY <1>0 DEF Window, Times, Never
  <2> QED
    BY <1>0, <2>1, <2>2, <2>3 DEF WindowInv
<1>2. ASSUME NEW j \in Jobs, Take(j)
      PROVE  WindowInv'
  <2> DEFINE start == IF CurrentFive.start = Never THEN now ELSE CurrentFive.start
             ev == [points |-> Price[j], mult |-> 100, overage |-> FALSE,
                    five |-> start, week |-> CurrentWeek.start, at |-> now]
  <2>1. /\ now' = now /\ events' = [events EXCEPT ![j] = ev] /\ Price[j] \in Nat
        /\ five' = [start |-> start, points |-> CurrentFive.points + Price[j]]
        /\ week' = [start |-> CurrentWeek.start, points |-> CurrentWeek.points + Price[j]]
        /\ pc[j] = "counting"
    BY <1>2, CostType DEF Take, world
  <2>2. FiveOf[j] = Never /\ WeekOf[j] = Never
    BY <2>1 DEF JobsInv, ChargeInv, NoEvent, FiveOf, WeekOf
  <2>3. /\ FiveOf'[j] = start /\ WeekOf'[j] = CurrentWeek.start /\ Points'[j] = Price[j]
        /\ \A k \in Jobs \ {j} : FiveOf'[k] = FiveOf[k] /\ WeekOf'[k] = WeekOf[k] /\ Points'[k] = Points[k]
    <3>1. events'[j] = ev /\ \A k \in Jobs \ {j} : events'[k] = events[k]
      BY <2>1 DEF TypeOK
    <3> QED
      BY <3>1 DEF FiveOf, WeekOf, Points
  <2>4. Five \in Nat \ {0} /\ five.start <= now /\ week.start <= WeekStart(now)
    BY DEF UsageAssumption, WindowInv
  <2>5. five.start \in Int /\ week.start \in Int /\ five.points \in Nat /\ week.points \in Nat
    BY <1>0 DEF Window, Times, Never
  <2>6. \/ five'.start = five.start /\ five'.points = five.points + Points'[j]
        \/ five'.start > five.start /\ five'.points = Points'[j]
    <3>1. CASE five.start = Never \/ now >= five.start + Five
      <4>1. CurrentFive = [start |-> Never, points |-> 0]
        BY <3>1 DEF CurrentFive
      <4>2. five'.start = now /\ five'.points = 0 + Price[j]
        BY <2>1, <4>1
      <4>3. now > five.start
        BY <1>0, <2>4, <2>5, <3>1 DEF Never
      <4> QED
        BY <2>1, <2>3, <4>2, <4>3
    <3>2. CASE ~ (five.start = Never \/ now >= five.start + Five)
      <4>1. CurrentFive = five
        BY <3>2 DEF CurrentFive
      <4> QED
        BY <2>1, <2>3, <3>2, <4>1
    <3> QED
      BY <3>1, <3>2
  <2>7. five'.start = start /\ start # Never /\ start <= now
    <3>1. CurrentFive.start = Never \/ CurrentFive = five
      BY DEF CurrentFive
    <3> QED
      BY <1>0, <2>1, <2>4, <3>1 DEF Never
  <2>8. CurrentWeek.start = WeekStart(now) /\ week'.start = WeekStart(now) /\ WeekStart(now) # Never
    BY <1>0, <2>1 DEF CurrentWeek, Never
  <2>9. \/ week'.start = week.start /\ week'.points = week.points + Points'[j]
        \/ week'.start > week.start /\ week'.points = Points'[j]
    <3>1. CASE week.start = WeekStart(now)
      <4>1. CurrentWeek = week
        BY <3>1 DEF CurrentWeek
      <4> QED
        BY <2>1, <2>3, <4>1
    <3>2. CASE week.start # WeekStart(now)
      <4>1. CurrentWeek = [start |-> WeekStart(now), points |-> 0]
        BY <3>2 DEF CurrentWeek
      <4>2. week'.points = 0 + Price[j] /\ WeekStart(now) > week.start
        BY <1>0, <2>1, <2>4, <2>5, <3>2, <4>1
      <4> QED
        BY <2>1, <2>3, <2>8, <4>2
    <3> QED
      BY <3>1, <3>2
  <2> HIDE DEF start
  <2>10. Holds(five', FiveOf', Points')
    <3>1. Holds(five, FiveOf, Points)
      BY DEF WindowInv
    <3> QED
      BY <1>0, <2>2, <2>3, <2>6, <2>7, <3>1, HoldsMore
  <2>11. Holds(week', WeekOf', Points')
    <3>1. Holds(week, WeekOf, Points)
      BY DEF WindowInv
    <3> QED
      BY <1>0, <2>2, <2>3, <2>8, <2>9, <3>1, HoldsMore, ZenonT(40)
  <2>12. five'.start <= now' /\ week'.start <= WeekStart(now')
    BY <1>0, <2>1, <2>7, <2>8
  <2> QED
    BY <2>10, <2>11, <2>12 DEF WindowInv
<1>3. ASSUME NEW j \in Jobs, Record(j)
      PROVE  WindowInv'
  <2> DEFINE ev == [points |-> 0, mult |-> Mult(j), overage |-> (way[j] = "overage"),
                    five |-> Never, week |-> Never, at |-> now]
  <2>1. /\ now' = now /\ events' = [events EXCEPT ![j] = ev] /\ five' = five /\ week' = week
        /\ pc[j] = "charged"
    BY <1>3 DEF Record, world
  <2>2. FiveOf[j] = Never /\ WeekOf[j] = Never
    BY <2>1 DEF JobsInv, ChargeInv, NoEvent, FiveOf, WeekOf
  <2>3. /\ FiveOf'[j] = Never /\ WeekOf'[j] = Never
        /\ \A k \in Jobs \ {j} : FiveOf'[k] = FiveOf[k] /\ WeekOf'[k] = WeekOf[k] /\ Points'[k] = Points[k]
    <3>1. events'[j] = ev /\ \A k \in Jobs \ {j} : events'[k] = events[k]
      BY <2>1 DEF TypeOK
    <3> QED
      BY <3>1 DEF FiveOf, WeekOf, Points
  <2>4. Holds(five, FiveOf', Points') /\ Holds(week, WeekOf', Points')
    <3>1. Holds(five, FiveOf, Points) /\ Holds(week, WeekOf, Points)
      BY DEF WindowInv
    <3> QED
      BY <1>0, <2>2, <2>3, <3>1, HoldsAside
  <2> QED
    BY <2>1, <2>4 DEF WindowInv
<1>4. ASSUME NEW j \in Jobs, NEW c \in Closers, ClosePoints(j, c)
      PROVE  WindowInv'
  <2> DEFINE asked == PointsBack(j, closing[j][c])
             n == Most(Least(asked, events[j].points), 0)
  <2>1. /\ now' = now /\ GivePointsBack(j, asked) /\ asked \in Int /\ events[j].points \in Nat
    BY <1>4, ClosingValues DEF ClosePoints, world, TypeOK, Event
  <2>2. /\ events'[j].five = events[j].five /\ events'[j].week = events[j].week
        /\ events'[j].points = events[j].points - n
        /\ \A k \in Jobs \ {j} : events'[k] = events[k]
    BY <2>1, PointsGoBack, GivePointsBackType
  <2>3. n \in 0 .. events[j].points
    BY <2>1 DEF Least, Most
  <2>4. /\ FiveOf' = FiveOf /\ WeekOf' = WeekOf /\ Points'[j] = Points[j] - n
        /\ n \in 0 .. Points[j] /\ \A k \in Jobs \ {j} : Points'[k] = Points[k]
    BY <2>2, <2>3 DEF FiveOf, WeekOf, Points
  <2>5. five.points \in Nat /\ week.points \in Nat
    BY <1>0 DEF Window
  <2>6. /\ five'.start = five.start
        /\ five'.points = IF five.start = FiveOf[j] THEN Most(five.points - n, 0) ELSE five.points
        /\ week'.start = week.start
        /\ week'.points = IF week.start = WeekOf[j] THEN Most(week.points - n, 0) ELSE week.points
    <3>1. CASE Least(asked, events[j].points) <= 0
      <4>1. n = 0 /\ UNCHANGED windows
        BY <2>1, <3>1 DEF GivePointsBack, Most, Least
      <4> HIDE DEF n
      <4> QED
        BY <2>5, <4>1 DEF windows, Most
    <3>2. CASE ~ (Least(asked, events[j].points) <= 0)
      <4>1. n = Least(asked, events[j].points)
        BY <2>1, <3>2 DEF Most, Least
      <4>2. /\ five' = IF five.start = events[j].five
                       THEN [start |-> five.start, points |-> Most(five.points - n, 0)] ELSE five
            /\ week' = IF week.start = events[j].week
                       THEN [start |-> week.start, points |-> Most(week.points - n, 0)] ELSE week
        BY <2>1, <3>2, <4>1 DEF GivePointsBack
      <4> HIDE DEF n
      <4>3. FiveOf[j] = events[j].five /\ WeekOf[j] = events[j].week
        BY DEF FiveOf, WeekOf
      <4> QED
        BY <4>2, <4>3
    <3> QED
      BY <3>1, <3>2
  <2> HIDE DEF n
  <2>7. Holds(five', FiveOf, Points') /\ Holds(week', WeekOf, Points')
    <3>1. Holds(five, FiveOf, Points) /\ Holds(week, WeekOf, Points)
      BY DEF WindowInv
    <3>2. Holds(five', FiveOf, Points')
      BY <1>0, <2>4, <2>6, <3>1, HoldsLess
    <3>3. Holds(week', WeekOf, Points')
      BY <1>0, <2>4, <2>6, <3>1, HoldsLess
    <3> QED
      BY <3>2, <3>3
  <2>8. five'.start <= now' /\ week'.start <= WeekStart(now')
    BY <2>1, <2>6 DEF WindowInv
  <2> QED
    BY <2>4, <2>7, <2>8 DEF WindowInv
<1> QED
  BY <1>1, <1>2, <1>3, <1>4, WindowSteps

LEMMA WindowsInit == ASSUME UsageAssumption, Init PROVE WindowInv
<1>1. /\ \A j \in Jobs : FiveOf[j] = Never /\ WeekOf[j] = Never
      /\ five.start = Never /\ week.start = Never
  BY DEF Init, NoEvent, FiveOf, WeekOf
<1>2. now \in Nat /\ WeekStart(now) \in Nat
  <2>1. now \in Nat
    BY DEF Init, UsageAssumption, Times
  <2>2. WeekStart(now) \in 0 .. now
    BY <2>1, StartOf DEF WeekStart, UsageAssumption
  <2> QED
    BY <2>1, <2>2
<1>3. Never \in Int /\ Never <= Never /\ Never <= now /\ Never <= WeekStart(now)
  BY <1>2 DEF Never
<1> QED
  BY <1>1, <1>3 DEF WindowInv, Holds

LEMMA WindowsFit == ASSUME WindowInv PROVE WindowsAddUp
<1>1. /\ {j \in Jobs : FiveOf[j] = five.start} = {j \in Jobs : events[j].five = five.start}
      /\ {j \in Jobs : WeekOf[j] = week.start} = {j \in Jobs : events[j].week = week.start}
  BY DEF FiveOf, WeekOf
<1> QED
  BY <1>1 DEF WindowInv, Holds, WindowsAddUp

-----------------------------------------------------------------------------
(* The limits.                                                             *)

LEMMA DearestJob ==
    ASSUME UsageAssumption, Jobs # {}
    PROVE  \E d \in Jobs : \A k \in Jobs : Price[k] <= Price[d]
<1> DEFINE Dearer(j) == {k \in Jobs : Price[k] > Price[j]}
           Sets == {Dearer(j) : j \in Jobs}
<1>1. Sets \in SUBSET SUBSET Jobs /\ Sets # {} /\ IsFiniteSet(Jobs)
  <2>1. \A j \in Jobs : Dearer(j) \in SUBSET Jobs
    OBVIOUS
  <2>2. PICK j \in Jobs : TRUE
    OBVIOUS
  <2>3. Dearer(j) \in Sets
    BY <2>2
  <2>4. \A D \in Sets : D \in SUBSET Jobs
    BY <2>1, Zenon
  <2> HIDE DEF Sets
  <2> QED
    BY <2>3, <2>4 DEF UsageAssumption
<1>2. PICK D \in Sets : \A U \in Sets : U \subseteq D => U = D
  <2> HIDE DEF Sets
  <2> QED
    BY <1>1, Smallest
<1>3. PICK d \in Jobs : D = Dearer(d)
  OBVIOUS
<1>4. \A k \in Jobs : Price[k] \in Nat
  BY DEF UsageAssumption
<1>5. Dearer(d) = {}
  <2>1. SUFFICES ASSUME NEW k \in Dearer(d) PROVE FALSE
    OBVIOUS
  <2>2. Dearer(k) \subseteq Dearer(d) /\ k \notin Dearer(k)
    BY <1>4
  <2>3. Dearer(k) \in Sets
    OBVIOUS
  <2> HIDE DEF Sets
  <2> QED
    BY <1>2, <1>3, <2>1, <2>2, <2>3
<1> QED
  BY <1>4, <1>5

LEMMA DearestIs ==
    ASSUME UsageAssumption, Jobs # {}
    PROVE  LET dearest == CHOOSE p \in {Price[j] : j \in Jobs} : \A j \in Jobs : Price[j] <= p
           IN  dearest \in Nat /\ \A j \in Jobs : Price[j] <= dearest
<1>1. \E p \in {Price[j] : j \in Jobs} : \A j \in Jobs : Price[j] <= p
  BY DearestJob
<1> QED
  BY <1>1 DEF UsageAssumption

LEMMA OvershootKeeps ==
    ASSUME UsageAssumption, Jobs # {}, TypeOK, WindowsOvershootOnce, [Next]_vars
    PROVE  WindowsOvershootOnce'
<1> DEFINE dearest == CHOOSE p \in {Price[j] : j \in Jobs} : \A j \in Jobs : Price[j] <= p
<1>1. dearest \in Nat /\ \A j \in Jobs : Price[j] <= dearest
  BY DearestIs
<1>2. /\ FiveLimit > 0 => five.points < FiveLimit + dearest
      /\ WeekLimit > 0 => week.points < WeekLimit + dearest
  BY DEF WindowsOvershootOnce
<1>3. FiveLimit \in Nat /\ WeekLimit \in Nat
  BY DEF UsageAssumption
<1> HIDE DEF dearest
<1>4. SUFFICES /\ FiveLimit > 0 => five'.points < FiveLimit + dearest
               /\ WeekLimit > 0 => week'.points < WeekLimit + dearest
  BY DEF WindowsOvershootOnce, dearest
<1>5. CASE UNCHANGED windows
  BY <1>2, <1>5 DEF windows
<1>6. ASSUME NEW j \in Jobs, Take(j)
      PROVE  /\ FiveLimit > 0 => five'.points < FiveLimit + dearest
             /\ WeekLimit > 0 => week'.points < WeekLimit + dearest
  <2>1. /\ five'.points = CurrentFive.points + Price[j]
        /\ week'.points = CurrentWeek.points + Price[j]
        /\ Price[j] \in Nat /\ Price[j] <= dearest
    BY <1>1, <1>6, CostType DEF Take
  <2>2. FiveLimit > 0 => CurrentFive.points < FiveLimit
    <3>1. CurrentFive.start = Never => CurrentFive.points = 0
      BY DEF CurrentFive
    <3>2. CurrentFive.points \in Nat
      BY WindowType DEF Window
    <3> QED
      BY <1>3, <1>6, <3>1, <3>2 DEF Take, FiveIsFull
  <2>3. WeekLimit > 0 => CurrentWeek.points < WeekLimit
    <3>1. CurrentWeek.points \in Nat
      BY WindowType DEF Window
    <3> QED
      BY <1>3, <1>6, <3>1 DEF Take, WeekIsFull
  <2>4. CurrentFive.points \in Nat /\ CurrentWeek.points \in Nat
    BY WindowType DEF Window
  <2> QED
    BY <1>1, <1>3, <2>1, <2>2, <2>3, <2>4
<1>7. ASSUME NEW j \in Jobs, Record(j)
      PROVE  five' = five /\ week' = week
  BY <1>7 DEF Record
<1>8. ASSUME NEW j \in Jobs, NEW c \in Closers, ClosePoints(j, c)
      PROVE  five'.points <= five.points /\ week'.points <= week.points
  <2> DEFINE n == Least(PointsBack(j, closing[j][c]), events[j].points)
  <2>1. five.points \in Nat /\ week.points \in Nat /\ n \in Int
    BY ClosingValues DEF TypeOK, Window, Event, Least
  <2>2. \/ five' = five /\ week' = week
        \/ /\ n > 0
           /\ five' = five \/ five'.points = Most(five.points - n, 0)
           /\ week' = week \/ week'.points = Most(week.points - n, 0)
    <3>1. GivePointsBack(j, PointsBack(j, closing[j][c]))
      BY <1>8 DEF ClosePoints
    <3>2. CASE n <= 0
      BY <3>1, <3>2 DEF GivePointsBack, windows
    <3>3. CASE n > 0
      BY <2>1, <3>1, <3>3 DEF GivePointsBack
    <3> QED
      BY <2>1, <3>2, <3>3
  <2> HIDE DEF n
  <2> QED
    BY <2>1, <2>2 DEF Most
<1>9. five.points \in Nat /\ week.points \in Nat /\ five'.points \in Nat /\ week'.points \in Nat
  BY NextType DEF TypeOK, Window
<1> QED
  BY <1>1, <1>2, <1>3, <1>5, <1>6, <1>7, <1>8, <1>9, WindowSteps

LEMMA OvershootInit ==
    ASSUME UsageAssumption, Jobs # {}, Init
    PROVE  WindowsOvershootOnce
<1> DEFINE dearest == CHOOSE p \in {Price[j] : j \in Jobs} : \A j \in Jobs : Price[j] <= p
<1>1. dearest \in Nat
  BY DearestIs
<1>2. five.points = 0 /\ week.points = 0 /\ FiveLimit \in Nat /\ WeekLimit \in Nat
  BY DEF Init, UsageAssumption
<1> HIDE DEF dearest
<1>3. /\ FiveLimit > 0 => five.points < FiveLimit + dearest
      /\ WeekLimit > 0 => week.points < WeekLimit + dearest
  BY <1>1, <1>2
<1> QED
  BY <1>3 DEF WindowsOvershootOnce, dearest

\* One charge at a time is between a read of a sum and the entry that adds to it.
OnePending ==
    ~ crowded => \A j \in Jobs, k \in Jobs : pc[j] \in Pending /\ pc[k] \in Pending => j = k

\* A charge that has become pending read its sum on the way.
Entered(k) ==
    /\ pc[k] \notin Pending /\ UNCHANGED <<now, windows, ledger>>
    /\ way'[k] = "overage" => OverageUsed + Price[k] <= Cap
    /\ pc'[k] # "checked"

\* Where a charge is, and how it is charged, through any step.
LEMMA PendingSteps ==
    ASSUME UsageAssumption, TypeOK, JobsInv, [Next]_vars, NEW k \in Jobs, pc'[k] \in Pending
    PROVE  \/ pc[k] \in Pending /\ way'[k] = way[k] /\ (pc'[k] = "checked" =>
                \/ pc[k] = "checked"
                \/ UNCHANGED <<now, windows, ledger>> /\ (DayLimit = 0 \/ Spent + Cost(k) <= DayLimit))
           \/ Entered(k)
<1>1. CASE Same(k)
  BY <1>1 DEF Same
<1>2. ASSUME NEW to \in Places, Move(k, to)
      PROVE  pc'[k] = to
  BY <1>2, MoveType
<1>3. ASSUME Refuse(k)
      PROVE  FALSE
  BY <1>3, RefuseType DEF Pending
<1>4. CASE JobStep(k)
  <2>1. CASE ReadPlan(k)
    <3>1. pc[k] = "new" /\ way'[k] = plan /\ plan # "overage" /\ UNCHANGED <<now, windows, ledger>>
      BY <2>1 DEF ReadPlan, TypeOK, world
    <3>2. pc'[k] \in {"allowed", "counting"}
      BY <1>2, <2>1 DEF ReadPlan, Places
    <3> QED
      BY <3>1, <3>2 DEF Entered, Pending
  <2>2. CASE Take(k) \/ TakeRefused(k) \/ Record(k)
    BY <1>2, <2>2 DEF Take, TakeRefused, Record, Places, Pending
  <2>3. CASE ReadOverage(k)
    <3>1. /\ OverageUsed + Price[k] <= Cap /\ Move(k, "allowed")
      BY <1>3, <2>3 DEF ReadOverage
    <3>2. pc[k] = "full" /\ pc'[k] = "allowed" /\ UNCHANGED <<now, windows, ledger>>
      BY <1>2, <2>3, <3>1 DEF ReadOverage, Places, world
    <3> QED
      BY <3>1, <3>2 DEF Entered, Pending
  <2>4. CASE CheckDay(k)
    <3>1. /\ DayLimit = 0 \/ ~ (Spent + Cost(k) > DayLimit)
          /\ pc[k] = "allowed" /\ UNCHANGED <<now, windows, ledger, way>>
      BY <1>3, <2>4 DEF CheckDay, world
    <3>2. Spent + Cost(k) \in Int /\ DayLimit \in Nat
      <4> DEFINE A == {j \in Jobs : Within(takenAt, j)}
                 B == {j \in Jobs : Within(backAt, j)}
      <4>1. Counts(taken, Jobs) /\ Counts(back, Jobs) /\ Cost(k) \in Nat
        BY NetCounts, CostType
      <4>2. A \in SUBSET Jobs /\ B \in SUBSET Jobs
        OBVIOUS
      <4> HIDE DEF A, B
      <4>3. SumFunctionOnSet(taken, A) \in Nat /\ SumFunctionOnSet(back, B) \in Nat
        BY <4>1, <4>2, SumOfPart, SumNat
      <4> QED
        BY <4>1, <4>3 DEF Spent, A, B, UsageAssumption
    <3>3. DayLimit = 0 \/ Spent + Cost(k) <= DayLimit
      BY <3>1, <3>2
    <3> QED
      BY <3>1, <3>3 DEF Pending
  <2>5. CASE Charge(k)
    BY <1>2, <2>5 DEF Charge, Places, Pending
  <2>6. CASE ChargeRefused(k) \/ RecordFails(k)
    BY <1>3, <2>6 DEF ChargeRefused, RecordFails
  <2>7. CASE Ends(k) \/ SweepFinds(k)
    BY <2>7 DEF Ends, SweepFinds, charging
  <2> QED
    BY <1>4, <2>1, <2>2, <2>3, <2>4, <2>5, <2>6, <2>7 DEF JobStep
<1>5. ASSUME NEW c \in Closers, ClosingStep(k, c)
      PROVE  UNCHANGED <<pc, way>>
  BY <1>5 DEF ClosingStep, ReadActual, ReadEvent, ClosePoints, CloseCredits, charging
<1>6. CASE UNCHANGED vars \/ WorldStep
  BY <1>1, <1>6, WorldSame
<1>7. ASSUME NEW j \in Jobs \ {k}, JobStep(j) \/ \E c \in Closers : ClosingStep(j, c)
      PROVE  Same(k)
  BY <1>7, OthersSame
<1> QED
  BY <1>1, <1>4, <1>5, <1>6, <1>7, StepForms

LEMMA OnePendingKeeps ==
    ASSUME UsageAssumption, TypeOK, JobsInv, OnePending, [Next]_vars
    PROVE  OnePending' /\ (crowded => crowded')
<1>1. \/ UNCHANGED <<pc, crowded>>
      \/ \E j \in Jobs, to \in Places : Move(j, to)
  <2>1. CASE UNCHANGED vars \/ WorldStep
    BY <2>1 DEF vars, WorldStep, Tick, PlanChanges, SetOverage, charging
  <2>2. ASSUME NEW j \in Jobs, JobStep(j)
        PROVE  UNCHANGED <<pc, crowded>> \/ \E to \in Places : Move(j, to)
    <3>1. CASE ReadPlan(j) \/ Take(j) \/ TakeRefused(j) \/ Charge(j) \/ Record(j)
      <4>1. \E to \in {"allowed", "counting", "held", "full", "charged"} : Move(j, to)
        BY <3>1 DEF ReadPlan, Take, TakeRefused, Charge, Record
      <4> QED
        BY <4>1 DEF Places
    <3>2. CASE ReadOverage(j) \/ CheckDay(j) \/ ChargeRefused(j) \/ RecordFails(j)
      <4>1. \E to \in {"allowed", "checked", "refused"} : Move(j, to)
        BY <3>2 DEF ReadOverage, CheckDay, ChargeRefused, RecordFails, Refuse
      <4> QED
        BY <4>1 DEF Places
    <3>3. CASE Ends(j) \/ SweepFinds(j)
      BY <3>3 DEF Ends, SweepFinds, charging
    <3> QED
      BY <2>2, <3>1, <3>2, <3>3 DEF JobStep
  <2>3. ASSUME NEW j \in Jobs, NEW c \in Closers, ClosingStep(j, c)
        PROVE  UNCHANGED <<pc, crowded>>
    BY <2>3 DEF ClosingStep, ReadActual, ReadEvent, ClosePoints, CloseCredits, charging
  <2> QED
    BY <2>1, <2>2, <2>3, StepForms
<1>2. CASE UNCHANGED <<pc, crowded>>
  BY <1>2 DEF OnePending
<1>3. ASSUME NEW j \in Jobs, NEW to \in Places, Move(j, to)
      PROVE  OnePending' /\ (crowded => crowded')
  <2>1. /\ pc'[j] = to /\ \A k \in Jobs \ {j} : pc'[k] = pc[k]
    BY <1>3, MoveType
  <2>2. ~ crowded' => ~ crowded /\ (to \in Pending => \A k \in Jobs \ {j} : pc[k] \notin Pending)
    BY <1>3 DEF Move
  <2> QED
    BY <2>1, <2>2 DEF OnePending
<1> QED
  BY <1>1, <1>2, <1>3

\* The charges overage took this month, and room for those that are pending.
Counted == {j \in Jobs : events[j].overage /\ events[j].at >= MonthStart(now)}
OverageInv ==
    ~ crowded => /\ OverageUsed <= Cap
                 /\ \A j \in Jobs : pc[j] \in Pending /\ way[j] = "overage" =>
                        OverageUsed + Price[j] <= Cap

LEMMA UsedIs ==
    ASSUME UsageAssumption, TypeOK, JobsInv
    PROVE  /\ OverageUsed = SumFunctionOnSet(taken, Counted) /\ OverageUsed \in Nat
           /\ Counts(taken, Counted)
<1>1. Counted \in SUBSET Jobs
  BY DEF Counted
<1>2. OverageUsed = SumFunctionOnSet(taken, Counted)
  BY DEF OverageUsed, Counted
<1> QED
  BY <1>1, <1>2, NetCounts, SumOfPart, SumNat

\* Nothing but the record of a charge adds to what overage has used.
LEMMA OverageFalls ==
    ASSUME UsageAssumption, TypeOK, JobsInv, [Next]_vars, ~ \E j \in Jobs : Record(j)
    PROVE  OverageUsed' <= OverageUsed
<1>1. ASSUME NEW k \in Counted'
      PROVE  k \in Counted /\ taken'[k] = taken[k]
  <2>1. /\ k \in Jobs /\ events'[k].overage /\ events'[k].at >= MonthStart(now')
    BY <1>1 DEF Counted, MonthStart
  <2>2. /\ MonthStart(now) \in Int /\ MonthStart(now') \in Int /\ MonthStart(now) <= MonthStart(now')
        /\ events'[k].at \in Int
    <3>1. now \in Nat /\ now' \in Nat /\ MonthStart(now) <= MonthStart(now') /\ Month \in Nat \ {0}
      BY TimeGoesOn DEF UsageAssumption
    <3>2. MonthStart(now) \in 0 .. now /\ MonthStart(now') \in 0 .. now'
      BY <3>1, StartOf DEF MonthStart
    <3>3. events'[k].at \in Times \cup {Never}
      BY <2>1, NextType DEF TypeOK, Event
    <3> QED
      BY <3>1, <3>2, <3>3 DEF Times, Never, UsageAssumption
  <2>3. events'[k].at >= MonthStart(now)
    BY <2>1, <2>2
  <2>4. events[k].overage = events'[k].overage /\ events[k].at = events'[k].at
    <3>1. CASE UNCHANGED windows
      BY <3>1 DEF windows
    <3>2. ASSUME NEW j \in Jobs, Take(j)
          PROVE  events[k].overage = events'[k].overage /\ events[k].at = events'[k].at
      <4>1. CASE j = k
        <5> DEFINE start == IF CurrentFive.start = Never THEN now ELSE CurrentFive.start
                   ev == [points |-> Price[j], mult |-> 100, overage |-> FALSE,
                          five |-> start, week |-> CurrentWeek.start, at |-> now]
        <5>1. events' = [events EXCEPT ![j] = ev]
          BY <3>2 DEF Take
        <5>2. events'[j] = ev
          BY <5>1 DEF TypeOK
        <5>3. events'[j].overage = FALSE
          BY <5>2
        <5> QED
          BY <2>1, <4>1, <5>3
      <4>2. CASE j # k
        <5>1. JobStep(j) /\ k \in Jobs \ {j}
          BY <2>1, <3>2, <4>2 DEF JobStep
        <5>2. Same(k)
          BY <5>1, OthersSame
        <5> QED
          BY <5>2 DEF Same
      <4> QED
        BY <4>1, <4>2
    <3>3. ASSUME NEW j \in Jobs, NEW c \in Closers, ClosePoints(j, c)
          PROVE  events[k].overage = events'[k].overage /\ events[k].at = events'[k].at
      BY <2>1, <3>3, ClosingValues, PointsGoBack, GivePointsBackType DEF ClosePoints
    <3> QED
      BY <3>1, <3>2, <3>3, WindowSteps
  <2>5. k \in Counted
    BY <2>1, <2>3, <2>4 DEF Counted
  <2>6. taken'[k] = taken[k]
    <3>1. CASE UNCHANGED ledger
      BY <3>1 DEF ledger
    <3>2. ASSUME NEW j \in Jobs, Charge(j)
          PROVE  taken'[k] = taken[k]
      <4>1. pc[k] # "checked"
        <5>1. events[k] = NoEvent => ~ events[k].overage
          BY DEF NoEvent
        <5> QED
          BY <2>1, <2>4, <5>1 DEF JobsInv, ChargeInv
      <4> QED
        BY <2>1, <3>2, <4>1 DEF Charge, TypeOK
    <3>3. ASSUME NEW j \in Jobs, NEW c \in Closers, CloseCredits(j, c)
          PROVE  taken'[k] = taken[k]
      BY <3>3 DEF CloseCredits, ledger
    <3> QED
      BY <3>1, <3>2, <3>3, LedgerSteps
  <2> QED
    BY <2>5, <2>6
<1>2. Counts(taken, Counted) /\ OverageUsed = SumFunctionOnSet(taken, Counted)
  BY UsedIs
<1>3. OverageUsed' = SumFunctionOnSet(taken', Counted')
  BY DEF OverageUsed, Counted
<1>4. /\ Counts(taken, Counted')
      /\ SumFunctionOnSet(taken, Counted') <= SumFunctionOnSet(taken, Counted)
  <2>1. Counted' \in SUBSET Counted
    BY <1>1
  <2> QED
    BY <1>2, <2>1, SumOfPart
<1>5. SumFunctionOnSet(taken, Counted') = SumFunctionOnSet(taken', Counted')
  BY <1>1, <1>4, SumSame
<1> QED
  BY <1>2, <1>3, <1>4, <1>5

LEMMA OverageKeeps ==
    ASSUME UsageAssumption, TypeOK, JobsInv, OnePending, OverageInv, [Next]_vars
    PROVE  OverageInv'
<1>0. /\ TypeOK' /\ JobsInv' /\ OverageUsed \in Nat /\ OverageUsed' \in Nat /\ Cap \in Nat
      /\ \A k \in Jobs : Price[k] \in Nat
  <2>1. TypeOK' /\ JobsInv'
    BY NextType, JobsKeep
  <2>2. Counts(taken, Counted)' /\ OverageUsed' = SumFunctionOnSet(taken', Counted')
    <3>1. \A j \in Jobs : taken'[j] \in Nat
      BY <2>1 DEF TypeOK
    <3>2. Counted' \in SUBSET Jobs
      BY DEF Counted
    <3>3. IsFiniteSet(Counted')
      BY <3>2, FS_Subset DEF UsageAssumption
    <3> QED
      BY <3>1, <3>2, <3>3 DEF Counts, OverageUsed, Counted
  <2> QED
    BY <2>1, <2>2, UsedIs, SumNat DEF UsageAssumption
<1>1. SUFFICES ASSUME ~ crowded'
               PROVE  /\ OverageUsed' <= Cap
                      /\ \A k \in Jobs : pc'[k] \in Pending /\ way'[k] = "overage" =>
                            OverageUsed' + Price[k] <= Cap
  BY DEF OverageInv
<1>2. /\ ~ crowded /\ OverageUsed <= Cap
      /\ \A k \in Jobs : pc[k] \in Pending /\ way[k] = "overage" => OverageUsed + Price[k] <= Cap
  BY <1>1, OnePendingKeeps DEF OverageInv
<1>3. CASE ~ \E j \in Jobs : Record(j)
  <2>1. OverageUsed' <= OverageUsed
    BY <1>3, OverageFalls
  <2>2. ASSUME NEW k \in Jobs, pc'[k] \in Pending, way'[k] = "overage"
        PROVE  OverageUsed + Price[k] <= Cap
    BY <1>2, <2>2, PendingSteps DEF Entered
  <2> QED
    BY <1>0, <1>2, <2>1, <2>2
<1>4. ASSUME NEW j \in Jobs, Record(j)
      PROVE  /\ OverageUsed' <= Cap
             /\ \A k \in Jobs : pc'[k] \in Pending /\ way'[k] = "overage" =>
                    OverageUsed' + Price[k] <= Cap
  <2> DEFINE ev == [points |-> 0, mult |-> Mult(j), overage |-> (way[j] = "overage"),
                    five |-> Never, week |-> Never, at |-> now]
  <2>1. /\ pc[j] = "charged" /\ Move(j, "held") /\ UNCHANGED <<now, way, taken, takenAt>>
        /\ events' = [events EXCEPT ![j] = ev]
    BY <1>4 DEF Record, world, ledger
  <2>2. \A k \in Jobs : pc'[k] \notin Pending
    <3>1. pc'[j] = "held" /\ \A k \in Jobs \ {j} : pc'[k] = pc[k]
      BY <2>1, MoveType DEF Places
    <3>2. \A k \in Jobs \ {j} : pc[k] \notin Pending
      BY <1>2, <2>1 DEF OnePending, Pending
    <3> QED
      BY <3>1, <3>2 DEF Pending
  <2>3. /\ events'[j].overage = (way[j] = "overage") /\ events'[j].at = now
        /\ \A k \in Jobs \ {j} : events'[k] = events[k]
    <3>1. events'[j] = ev /\ \A k \in Jobs \ {j} : events'[k] = events[k]
      BY <2>1 DEF TypeOK
    <3> QED
      BY <3>1
  <2>4. j \notin Counted
    <3>1. events[j] = NoEvent
      BY <2>1 DEF JobsInv, ChargeInv
    <3>2. ~ NoEvent.overage
      BY DEF NoEvent
    <3> QED
      BY <3>1, <3>2 DEF Counted
  <2>5. OverageUsed' = SumFunctionOnSet(taken, Counted')
    BY <2>1 DEF OverageUsed, Counted
  <2>6. OverageUsed = SumFunctionOnSet(taken, Counted) /\ Counts(taken, Counted)
    BY UsedIs
  <2>7. \A k \in Jobs \ {j} : k \in Counted' <=> k \in Counted
    BY <2>1, <2>3 DEF Counted, MonthStart
  <2>8. CASE way[j] = "overage"
    <3>1. Price[j] = taken[j] /\ OverageUsed + Price[j] <= Cap
      <4>1. takenAt[j] # Never /\ taken[j] = Cost(j)
        BY <2>1 DEF JobsInv, ChargeInv
      <4> QED
        BY <1>2, <2>1, <2>8, <4>1 DEF Cost, Pending
    <3>2. Counted' \ {j} = Counted
      <4>1. Counted' \in SUBSET Jobs /\ Counted \in SUBSET Jobs
        BY DEF Counted
      <4> QED
        BY <2>4, <2>7, <4>1
    <3>3. j \in Counted'
      <4>1. MonthStart(now) \in 0 .. now /\ now \in Nat
        <5>1. now \in Nat /\ Month \in Nat \ {0}
          BY WindowType DEF UsageAssumption
        <5> QED
          BY <5>1, StartOf DEF MonthStart
      <4>2. now >= MonthStart(now)
        BY <4>1
      <4> QED
        BY <2>1, <2>3, <2>8, <4>2 DEF Counted, MonthStart
    <3>4. Counts(taken, Counted')
      <4>1. Counted' \in SUBSET Jobs
        BY DEF Counted
      <4> QED
        BY <4>1, NetCounts, SumOfPart
    <3>5. SumFunctionOnSet(taken, Counted') = taken[j] + SumFunctionOnSet(taken, Counted)
      BY <3>2, <3>3, <3>4, SumSplit
    <3>6. OverageUsed' <= Cap
      BY <1>0, <2>5, <2>6, <3>1, <3>5
    <3> QED
      BY <2>2, <3>6
  <2>9. CASE way[j] # "overage"
    <3>1. j \notin Counted'
      BY <2>3, <2>9 DEF Counted
    <3>2. Counted' = Counted
      <4>1. Counted' \in SUBSET Jobs /\ Counted \in SUBSET Jobs
        BY DEF Counted
      <4> QED
        BY <2>4, <2>7, <3>1, <4>1
    <3> QED
      BY <1>2, <2>2, <2>5, <2>6, <3>2
  <2> QED
    BY <2>8, <2>9
<1> QED
  BY <1>3, <1>4

LEMMA OverageInit == ASSUME UsageAssumption, Init PROVE OnePending /\ OverageInv
<1>1. \A j \in Jobs : pc[j] \notin Pending /\ ~ events[j].overage
  BY DEF Init, Pending, NoEvent
<1>2. {j \in Jobs : events[j].overage /\ events[j].at >= MonthStart(now)} = {}
  BY <1>1
<1>3. OverageUsed = 0
  BY <1>2, SumOfNone DEF OverageUsed
<1> QED
  BY <1>1, <1>3 DEF OnePending, OverageInv, UsageAssumption

-----------------------------------------------------------------------------
(* The day.                                                                *)

\* What the charges of the last day took, less all that ever came back.
Recent == {j \in Jobs : Within(takenAt, j)}
Outlay == SumFunctionOnSet(taken, Recent) - SumFunctionOnSet(back, Jobs)
DayInv == ~ crowded /\ DayLimit # 0 => \A j \in Jobs : pc[j] = "checked" => Outlay + Cost(j) <= DayLimit

\* In terms of it: what the charges of the day cost, less what came back of the older ones.
LEMMA DayParts ==
    ASSUME IsFiniteSet(Jobs), NEW t \in [Jobs -> Nat], NEW b \in [Jobs -> Nat],
           NEW W \in SUBSET Jobs, NEW O \in SUBSET Jobs, W \cap O = {},
           \A j \in Jobs : b[j] <= t[j], \A j \in Jobs \ (W \cup O) : b[j] = 0
    PROVE  SumFunctionOnSet([j \in Jobs |-> t[j] - b[j]], W) - SumFunctionOnSet(b, O)
           = SumFunctionOnSet(t, W) - SumFunctionOnSet(b, Jobs)
<1> DEFINE net == [j \in Jobs |-> t[j] - b[j]]
           Rest == Jobs \ W
<1>1. Counts(t, Jobs) /\ Counts(b, Jobs) /\ Counts(net, Jobs)
  BY DEF Counts
<1>2. /\ Counts(t, W) /\ Counts(b, W) /\ Counts(net, W) /\ Counts(b, Rest)
      /\ SumFunctionOnSet(b, Jobs) = SumFunctionOnSet(b, W) + SumFunctionOnSet(b, Rest)
  <2> HIDE DEF net
  <2>1. Counts(t, W) /\ Counts(net, W)
    BY <1>1, SumOfPart
  <2> QED
    BY <1>1, <2>1, SumOfParts
<1>3. SumFunctionOnSet(t, W) = SumFunctionOnSet(b, W) + SumFunctionOnSet(net, W)
  <2>1. \A x \in W : t[x] = b[x] + net[x]
    OBVIOUS
  <2> HIDE DEF net
  <2> QED
    BY <1>2, <2>1, SumOfSums
<1>4. /\ SumFunctionOnSet(b, Rest) = SumFunctionOnSet(b, O) + SumFunctionOnSet(b, Rest \ O)
      /\ Counts(b, O)
  <2>1. O \in SUBSET Rest
    OBVIOUS
  <2> HIDE DEF Rest
  <2> QED
    BY <1>2, <2>1, SumOfParts
<1>5. SumFunctionOnSet(b, Rest \ O) = 0
  <2>1. IsFiniteSet(Rest \ O) /\ \A x \in Rest \ O : b[x] = 0
    BY FS_Subset
  <2> QED
    BY <2>1, SumOfZeros
<1>6. /\ SumFunctionOnSet(t, W) \in Nat /\ SumFunctionOnSet(b, W) \in Nat
      /\ SumFunctionOnSet(net, W) \in Nat /\ SumFunctionOnSet(b, O) \in Nat
  <2> HIDE DEF net
  <2> QED
    BY <1>2, <1>4, SumNat
<1> HIDE DEF net, Rest
<1>7. SumFunctionOnSet(net, W) - SumFunctionOnSet(b, O) = SumFunctionOnSet(t, W) - SumFunctionOnSet(b, Jobs)
  BY <1>2, <1>3, <1>4, <1>5, <1>6
<1> QED
  BY <1>7 DEF net

\* The daily sum is no less, since it leaves out what came back before the day.
LEMMA SpentIsMore ==
    ASSUME UsageAssumption, TypeOK, JobsInv
    PROVE  Outlay \in Int /\ Spent \in Int /\ Outlay <= Spent
<1> DEFINE Back == {j \in Jobs : Within(backAt, j)}
<1>1. Counts(taken, Jobs) /\ Counts(back, Jobs)
  BY NetCounts
<1>2. Recent \in SUBSET Jobs /\ Back \in SUBSET Jobs
  BY DEF Recent
<1>3. Spent = SumFunctionOnSet(taken, Recent) - SumFunctionOnSet(back, Back)
  BY DEF Spent, Recent
<1> HIDE DEF Back
<1>4. /\ SumFunctionOnSet(taken, Recent) \in Nat /\ SumFunctionOnSet(back, Jobs) \in Nat
      /\ SumFunctionOnSet(back, Back) \in Nat
      /\ SumFunctionOnSet(back, Back) <= SumFunctionOnSet(back, Jobs)
  BY <1>1, <1>2, SumOfPart, SumNat
<1> QED
  BY <1>3, <1>4 DEF Outlay

\* The outlay grows by a charge, and by nothing else.
LEMMA OutlaySteps ==
    ASSUME UsageAssumption, TypeOK, JobsInv, [Next]_vars
    PROVE  /\ Outlay' \in Int /\ Outlay \in Int
           /\ \/ Outlay' <= Outlay
              \/ \E j \in Jobs : Charge(j) /\ Outlay' = Outlay + Cost(j)
<1>0. /\ TypeOK' /\ JobsInv' /\ Outlay \in Int
      /\ Counts(taken, Jobs) /\ Counts(back, Jobs) /\ Counts(taken', Jobs) /\ Counts(back', Jobs)
  <2>1. TypeOK' /\ JobsInv'
    BY NextType, JobsKeep
  <2>2. \A j \in Jobs : taken'[j] \in Nat /\ back'[j] \in Nat
    BY <2>1 DEF TypeOK
  <2> QED
    BY <2>1, <2>2, NetCounts, SpentIsMore DEF Counts, UsageAssumption
<1>1. Recent \in SUBSET Jobs /\ Recent' \in SUBSET Jobs
  BY DEF Recent
<1>2. /\ SumFunctionOnSet(taken', Recent') \in Nat /\ SumFunctionOnSet(back', Jobs) \in Nat
      /\ SumFunctionOnSet(taken, Recent) \in Nat /\ SumFunctionOnSet(back, Jobs) \in Nat
      /\ Counts(taken, Recent) /\ Counts(taken', Recent')
  BY <1>0, <1>1, SumOfPart, SumNat
<1>3. Outlay' = SumFunctionOnSet(taken', Recent') - SumFunctionOnSet(back', Jobs)
  BY DEF Outlay
<1>4. Outlay' \in Int
  BY <1>2, <1>3
<1>5. CASE UNCHANGED ledger
  <2>1. Recent' \in SUBSET Recent
    <3>1. now \in Nat /\ now' \in Nat /\ now <= now' /\ Day \in Nat
      BY TimeGoesOn DEF UsageAssumption
    <3>2. \A j \in Jobs : takenAt[j] \in Int
      BY DEF TypeOK, Times, Never, UsageAssumption
    <3> QED
      BY <1>5, <3>1, <3>2 DEF Recent, Within, ledger
  <2>2. SumFunctionOnSet(taken, Recent') <= SumFunctionOnSet(taken, Recent)
    BY <1>2, <2>1, SumOfPart
  <2>3. taken' = taken /\ back' = back
    BY <1>5 DEF ledger
  <2> QED
    BY <1>0, <1>2, <1>3, <1>4, <2>2, <2>3 DEF Outlay
<1>6. ASSUME NEW j \in Jobs, Charge(j)
      PROVE  Outlay' = Outlay + Cost(j)
  <2>1. /\ now' = now /\ back' = back /\ takenAt[j] = Never /\ taken'[j] = Cost(j) /\ takenAt'[j] = now
        /\ \A k \in Jobs \ {j} : taken'[k] = taken[k] /\ takenAt'[k] = takenAt[k]
        /\ now \in Nat /\ Day \in Nat /\ Cost(j) \in Nat
    BY <1>6, WindowType, CostType DEF Charge, world, TypeOK, JobsInv, ChargeInv, UsageAssumption
  <2>2. Recent' \ {j} = Recent /\ j \in Recent'
    BY <2>1 DEF Recent, Within, Never
  <2>3. SumFunctionOnSet(taken', Recent') = taken'[j] + SumFunctionOnSet(taken', Recent)
    BY <1>2, <2>2, SumSplit
  <2>4. SumFunctionOnSet(taken, Recent) = SumFunctionOnSet(taken', Recent)
    <3>1. \A k \in Recent : taken[k] = taken'[k]
      BY <1>1, <2>1, <2>2
    <3> QED
      BY <1>2, <3>1, SumSame
  <2> QED
    BY <1>2, <1>3, <2>1, <2>3, <2>4 DEF Outlay
<1>7. ASSUME NEW j \in Jobs, NEW c \in Closers, CloseCredits(j, c), ~ UNCHANGED ledger
      PROVE  Outlay' <= Outlay
  <2> DEFINE credits == CreditsBack(j, closing[j][c])
  <2>1. /\ now' = now /\ taken' = taken /\ takenAt' = takenAt /\ back'[j] = credits /\ back[j] = 0
        /\ \A k \in Jobs \ {j} : back[k] = back'[k]
    BY <1>7 DEF CloseCredits, world, TypeOK, JobsInv, ChargeInv
  <2>2. credits \in Nat
    BY ClosingValues DEF TypeOK
  <2> HIDE DEF credits
  <2>3. SumFunctionOnSet(back', Jobs) = SumFunctionOnSet(back, Jobs) - back[j] + back'[j]
    BY <1>0, <2>1, <2>2, SumChange
  <2>4. SumFunctionOnSet(taken', Recent') = SumFunctionOnSet(taken, Recent)
    BY <2>1 DEF Recent, Within
  <2> QED
    BY <1>2, <1>3, <2>1, <2>2, <2>3, <2>4 DEF Outlay
<1> QED
  BY <1>0, <1>4, <1>5, <1>6, <1>7, LedgerSteps

LEMMA DayKeeps ==
    ASSUME UsageAssumption, TypeOK, JobsInv, OnePending, DayInv, [Next]_vars
    PROVE  DayInv'
<1>1. SUFFICES ASSUME ~ crowded', DayLimit # 0, NEW k \in Jobs, pc'[k] = "checked"
               PROVE  Outlay' + Cost(k)' <= DayLimit
  BY DEF DayInv
<1>2. ~ crowded /\ Outlay \in Int /\ Outlay' \in Int /\ DayLimit \in Nat /\ Cost(k) \in Nat
  BY <1>1, OnePendingKeeps, OutlaySteps, CostType DEF UsageAssumption
<1>3. /\ pc[k] \in Pending /\ way'[k] = way[k]
      /\ \/ pc[k] = "checked"
         \/ UNCHANGED <<now, windows, ledger>> /\ Spent + Cost(k) <= DayLimit
  BY <1>1, PendingSteps DEF Pending, Entered
<1>4. Cost(k)' = Cost(k)
  BY <1>3 DEF Cost
<1>5. CASE pc[k] = "checked"
  <2>1. Outlay + Cost(k) <= DayLimit
    BY <1>1, <1>2, <1>5 DEF DayInv
  <2>2. ~ \E j \in Jobs : Charge(j)
    <3>1. SUFFICES ASSUME NEW j \in Jobs, Charge(j) PROVE FALSE
      OBVIOUS
    <3>2. j = k
      BY <1>2, <1>5, <3>1 DEF Charge, OnePending, Pending
    <3>3. pc'[j] = "charged"
      BY <3>1, MoveType DEF Charge, Places
    <3> QED
      BY <1>1, <3>2, <3>3
  <2>3. Outlay' <= Outlay
    BY <2>2, OutlaySteps
  <2> QED
    BY <1>2, <1>4, <2>1, <2>3
<1>6. CASE UNCHANGED <<now, windows, ledger>> /\ Spent + Cost(k) <= DayLimit
  <2>1. Outlay' = Outlay
    BY <1>6 DEF Outlay, Recent, Within, ledger
  <2>2. Outlay <= Spent /\ Spent \in Int
    BY SpentIsMore
  <2> QED
    BY <1>2, <1>4, <1>6, <2>1, <2>2
<1> QED
  BY <1>3, <1>5, <1>6

LEMMA DayInit == ASSUME Init PROVE DayInv
BY DEF Init, DayInv

\* A charge that passed the check keeps to the limit when it is made.
LEMMA DayHolds ==
    ASSUME UsageAssumption, TypeOK, JobsInv, DayInv, OnePending, [Next]_vars,
           DayLimit # 0, ~ crowded', balance' < balance
    PROVE  DayNet' <= DayLimit + OlderBack'
<1>0. TypeOK' /\ JobsInv' /\ IsFiniteSet(Jobs)
  BY NextType, JobsKeep DEF UsageAssumption
<1>1. PICK j \in Jobs : Charge(j)
  <2>1. CASE UNCHANGED ledger
    BY <2>1 DEF ledger, TypeOK
  <2>2. ASSUME NEW j \in Jobs, NEW c \in Closers, CloseCredits(j, c)
        PROVE  FALSE
    <3>1. CreditsBack(j, closing[j][c]) \in Nat /\ balance \in Nat
      BY ClosingValues DEF TypeOK
    <3> QED
      BY <2>2, <3>1 DEF CloseCredits, ledger
  <2> QED
    BY <2>1, <2>2, LedgerSteps DEF TypeOK
<1>2. Outlay' <= DayLimit
  <2>1. ~ crowded /\ pc[j] = "checked"
    BY <1>1, OnePendingKeeps DEF Charge
  <2>2. Outlay + Cost(j) <= DayLimit
    BY <2>1 DEF DayInv
  <2>3. Outlay' <= Outlay \/ Outlay' = Outlay + Cost(j)
    <3>1. \A k \in Jobs : Charge(k) => k = j
      BY <2>1 DEF Charge, OnePending, Pending
    <3> QED
      BY <3>1, OutlaySteps
  <2> QED
    BY <2>2, <2>3, OutlaySteps, CostType DEF UsageAssumption
<1>3. DayNet' - OlderBack' = Outlay' /\ DayNet' \in Int /\ OlderBack' \in Int
  <2> DEFINE W == {k \in Jobs : takenAt'[k] # Never /\ takenAt'[k] >= now' - Day}
             O == {k \in Jobs : takenAt'[k] # Never
                                /\ ~ (takenAt'[k] # Never /\ takenAt'[k] >= now' - Day)}
             net == [k \in Jobs |-> taken'[k] - back'[k]]
  <2>1. /\ taken' \in [Jobs -> Nat] /\ back' \in [Jobs -> Nat]
        /\ \A k \in Jobs : back'[k] <= taken'[k]
        /\ \A k \in Jobs : takenAt'[k] = Never => back'[k] = 0
    BY <1>0 DEF TypeOK, JobsInv, ChargeInv
  <2>2. /\ DayNet' = SumFunctionOnSet(net, W) /\ OlderBack' = SumFunctionOnSet(back', O)
        /\ Outlay' = SumFunctionOnSet(taken', W) - SumFunctionOnSet(back', Jobs)
    BY DEF DayNet, OlderBack, Outlay, Recent, Within, Net
  <2>3. /\ W \in SUBSET Jobs /\ O \in SUBSET Jobs /\ W \cap O = {}
        /\ \A k \in Jobs \ (W \cup O) : back'[k] = 0
    BY <2>1
  <2>4. Counts(net, Jobs) /\ Counts(back', Jobs)
    BY <1>0, <2>1 DEF Counts
  <2> HIDE DEF W, O
  <2>5. SumFunctionOnSet(net, W) - SumFunctionOnSet(back', O)
        = SumFunctionOnSet(taken', W) - SumFunctionOnSet(back', Jobs)
    BY <1>0, <2>1, <2>3, DayParts
  <2> HIDE DEF net
  <2>6. SumFunctionOnSet(net, W) \in Nat /\ SumFunctionOnSet(back', O) \in Nat
    BY <2>3, <2>4, SumOfPart, SumNat
  <2> QED
    BY <2>2, <2>5, <2>6
<1>4. DayLimit \in Nat /\ Outlay' \in Int
  BY OutlaySteps DEF UsageAssumption
<1>5. \A x, y, z \in Int : x - y = z /\ z <= DayLimit => x <= DayLimit + y
  BY <1>4
<1> QED
  BY <1>2, <1>3, <1>4, <1>5

-----------------------------------------------------------------------------
(* What holds of every charge.                                             *)

UsageInv ==
    TypeOK /\ JobsInv /\ CreditsAddUp /\ WindowInv /\ OnePending /\ OverageInv /\ DayInv

\* Types, what each table holds for each job, and what the sums of the tables are, are kept
\* by every step of every charge, whatever order they come in and however time goes by.
THEOREM UsageInvariant == ASSUME UsageAssumption PROVE Spec => []UsageInv
<1>1. Init => UsageInv
  BY InitType, JobsInit, CreditsInit, WindowsInit, OverageInit, DayInit DEF UsageInv
<1>2. UsageInv /\ [Next]_vars => UsageInv'
  <2>1. SUFFICES ASSUME UsageInv, [Next]_vars PROVE UsageInv'
    OBVIOUS
  <2>2. TypeOK /\ JobsInv /\ CreditsAddUp /\ WindowInv /\ OnePending /\ OverageInv /\ DayInv
    BY <2>1 DEF UsageInv
  <2>3. TypeOK' /\ JobsInv' /\ CreditsAddUp'
    BY <2>1, <2>2, NextType, JobsKeep, CreditsKeep
  <2>4. WindowInv' /\ OnePending' /\ OverageInv' /\ DayInv'
    BY <2>1, <2>2, WindowsKeep, OnePendingKeeps, OverageKeeps, DayKeeps
  <2> QED
    BY <2>3, <2>4 DEF UsageInv
<1> QED
  BY <1>1, <1>2, PTL DEF Spec

\* CreditStore.Apply, UsageStore.Take and Release: every credit is in the balance or held by
\* a job, and each window holds the points of the charges counted in it, also when a refund
\* comes after the window is over and another has begun.
THEOREM ChargesAddUp == ASSUME UsageAssumption PROVE Spec => [](CreditsAddUp /\ WindowsAddUp)
<1>1. UsageInv => CreditsAddUp /\ WindowsAddUp
  BY WindowsFit DEF UsageInv
<1> QED
  BY <1>1, UsageInvariant, PTL

\* JobBiller: what failed gives all its credits back and what was made keeps what it costs,
\* whichever plan the member is on by then and whichever closing comes first.  A multiplier
\* under 100 would be applied to a price it has already been applied to.
THEOREM CreditsFollow ==
    ASSUME UsageAssumption, Percent >= 100
    PROVE  Spec => []CreditsFollowOutcome
<1>1. UsageInv => CreditsFollowOutcome
  <2>1. SUFFICES ASSUME UsageInv, NEW j \in Jobs, backAt[j] # Never, ~ early[j]
                 PROVE  /\ end[j] = "failed" => back[j] = taken[j]
                        /\ end[j] = "made" => taken[j] - back[j] = Kept(j)
    BY DEF CreditsFollowOutcome
  <2>2. EndInv(j)
    BY <2>1 DEF UsageInv, JobsInv
  <2> QED
    BY <2>1, <2>2 DEF EndInv
<1> QED
  BY <1>1, UsageInvariant, PTL

\* UsageStore.Release: a closed job that failed holds no points, and a search that was made
\* holds all of its.
THEOREM PointsFollow == ASSUME UsageAssumption PROVE Spec => []PointsFollowOutcome
<1>1. UsageInv => PointsFollowOutcome
  <2>1. SUFFICES ASSUME UsageInv, NEW j \in Jobs, Closed(j), events[j].five # Never
                 PROVE  /\ end[j] = "failed" => events[j].points = 0
                        /\ end[j] = "made" /\ How[j] = "flat" => events[j].points = Price[j]
    BY DEF PointsFollowOutcome
  <2>2. EndInv(j)
    BY <2>1 DEF UsageInv, JobsInv
  <2>3. ~ early[j] /\ ~ lost[j] /\ closing[j]["finish"].step = "no"
    BY <2>1 DEF Closed, Closers
  <2> QED
    BY <2>1, <2>2, <2>3 DEF EndInv
<1> QED
  BY <1>1, UsageInvariant, PTL

\* UsageStore.Take: a charge may pass the end of a window, and nothing more is taken after it.
THEOREM WindowsOvershoot ==
    ASSUME UsageAssumption, Jobs # {}
    PROVE  Spec => []WindowsOvershootOnce
<1>1. Init => WindowsOvershootOnce
  BY OvershootInit
<1>2. UsageInv /\ WindowsOvershootOnce /\ [Next]_vars => WindowsOvershootOnce'
  BY OvershootKeeps DEF UsageInv
<1> QED
  BY <1>1, <1>2, UsageInvariant, PTL DEF Spec

\* reservePro: overage stays under its cap as long as no two charges read at once what was
\* used before.
THEOREM OverageUnderCap == ASSUME UsageAssumption PROVE Spec => []OverageStaysUnderCap
<1>1. UsageInv => OverageStaysUnderCap
  BY DEF UsageInv, OverageInv, OverageStaysUnderCap
<1> QED
  BY <1>1, UsageInvariant, PTL

\* checkDailyLimit: when a charge is made the day's charges pass the limit by no more than
\* what came back of older ones, under the same condition, however long a day is and
\* whenever the refunds come.
THEOREM DayLimitKept == ASSUME UsageAssumption PROVE Spec => ChargedUnderTheDay
<1>1. UsageInv /\ [Next]_vars =>
        [DayLimit # 0 /\ ~ crowded' /\ balance' < balance => DayNet' <= DayLimit + OlderBack']_vars
  BY DayHolds DEF UsageInv
<1> QED
  BY <1>1, UsageInvariant, PTL DEF Spec, ChargedUnderTheDay

-----------------------------------------------------------------------------
(* A payment.                                                              *)

\* A refund is of some money, and takes something back only where something is left.
WantsMore ==
    \A h \in Handlers : /\ pay!Refunding(h) => pay_handler[h].cents \in pay!Amounts
                        /\ pay_handler[h].step = "wanting" => pay_handler[h].want > 0

\* What the balance, the pack, the spending and the refunds come to.
Accounts == pay!TypeOK /\ WantsMore /\ pay!PackIsAddedOnce

\* What is known at each step of a refund that nothing came between.
InStep(h) ==
    /\ pay_handler[h].step \in {"wanting", "weighing"} => pay_removed = pay_clawed /\ pay_handler[h].cents \in pay_returned
    /\ pay_handler[h].step = "wanting" => pay_handler[h].want = pay!Share(pay_handler[h].cents) - pay_removed
    /\ pay_handler[h].step = "weighing" => pay_handler[h].take <= pay!Share(pay_handler[h].cents) - pay_removed
    /\ pay_handler[h].step = "removing" => pay_clawed = pay_removed + pay_handler[h].take

Alone == \A g, h \in Handlers : pay!Refunding(g) /\ pay!Refunding(h) => g = h
Even == (\A h \in Handlers : ~ pay!Refunding(h)) => pay_removed = pay_clawed
Bounded == \E c \in pay_returned \cup {0} : pay_clawed <= pay!Share(c)
Careful == Alone /\ Even /\ Bounded /\ \A h \in Handlers : InStep(h)

RefundInv == Accounts /\ (~ pay_strayed => Careful)

-----------------------------------------------------------------------------
\* The share of the credits is a number, and nothing returned takes nothing.
LEMMA ShareIsNat == ASSUME PackAssumption, NEW c \in 0 .. Cents PROVE pay!Share(c) \in Nat
<1>1. Credits * c \in Int /\ Credits * c >= 0  BY SMT DEF PackAssumption
<1>2. ASSUME NEW a \in Int, NEW b \in Int, a >= 0, b > 0
      PROVE  a \div b \in Int /\ a \div b >= 0  BY <1>2, SMT
<1>3. Cents \in Int /\ Cents > 0  BY DEF PackAssumption
<1>4. (Credits * c) \div Cents \in Int /\ (Credits * c) \div Cents >= 0  BY <1>1, <1>2, <1>3
<1>. QED  BY <1>4 DEF pay!Share

\* Nothing is owed before anything was paid.
LEMMA RefundInit == ASSUME PackAssumption PROVE pay!Init => RefundInv
<1>. SUFFICES ASSUME pay!Init PROVE RefundInv  OBVIOUS
<1>. USE DEF pay!Init
<1>1. Accounts
  <2>1. pay!Idle \in [step : {"idle", "marking", "wanting", "weighing", "removing"},
                  cents : 0 .. Cents, want : Int, take : Nat]
        BY DEF pay!Idle, PackAssumption
  <2>2. pay_handler \in [Handlers -> [step : {"idle", "marking", "wanting", "weighing", "removing"},
                                cents : 0 .. Cents, want : Int, take : Nat]]
        BY <2>1
  <2>3. pay_balance \in Nat /\ pay_spent \in 0 .. MaxSpend  BY DEF PackAssumption
  <2>4. pay!TypeOK  BY <2>2, <2>3 DEF pay!TypeOK
  <2>5. WantsMore  BY DEF WantsMore, pay!Refunding, pay!Idle
  <2>6. pay!PackIsAddedOnce  BY DEF pay!PackIsAddedOnce, PackAssumption
  <2>. QED  BY <2>4, <2>5, <2>6 DEF Accounts
<1>2. pay!Share(0) \in Nat  BY ShareIsNat DEF PackAssumption
<1>3. Bounded  BY <1>2 DEF Bounded
<1>4. Careful  BY <1>3 DEF Careful, Alone, Even, InStep, pay!Refunding, pay!Idle
<1>. QED  BY <1>1, <1>4 DEF RefundInv

\* No step takes more credits than there are, or adds a pack twice.
LEMMA AccountsStep == ASSUME PackAssumption, Accounts, [pay!Next]_(pay!vars) PROVE Accounts'
<1>. USE DEF PackAssumption, Accounts, pay!TypeOK, WantsMore, pay!PackIsAddedOnce, pay!Refunding
<1>1. ASSUME UNCHANGED pay!vars PROVE Accounts'  BY <1>1 DEF pay!vars
<1>2. CASE pay!Pay  BY <1>2 DEF pay!Pay, pay!row, pay!ledger
<1>3. CASE pay!GiveBack  BY <1>3 DEF pay!GiveBack, pay!row, pay!ledger
<1>4. CASE pay!Spend  BY <1>4 DEF pay!Spend, pay!stripe, pay!row
<1>5. ASSUME NEW h \in Handlers, pay!Purchase(h) PROVE Accounts'
      BY <1>5 DEF pay!Purchase, pay!Goto, pay!On, pay!Idle, pay!stripe, pay!row
<1>6. ASSUME NEW h \in Handlers, pay!MarkPaid(h) PROVE Accounts'
      BY <1>6 DEF pay!MarkPaid, pay!Done, pay!Goto, pay!Idle, pay!stripe, pay!ledger
<1>7. ASSUME NEW h \in Handlers, pay!ReadPayment(h) PROVE Accounts'
  <2>1. PICK c \in pay_returned :
          pay!Goto(h, [step |-> IF pay!Share(c) > pay_removed THEN "wanting" ELSE "removing",
                   cents |-> c, want |-> pay!Share(c) - pay_removed, take |-> 0])
        BY <1>7 DEF pay!ReadPayment
  <2>2. c \in 0 .. Cents /\ pay!Share(c) \in Nat  BY ShareIsNat DEF pay!Amounts
  <2>. QED  BY <1>7, <2>1, <2>2 DEF pay!ReadPayment, pay!Goto, pay!stripe, pay!row, pay!ledger
<1>8. ASSUME NEW h \in Handlers, pay!ReadBalance(h) PROVE Accounts'
  <2>. DEFINE take == pay!Least(pay_handler[h].want, pay_balance)
  <2>1. take \in Nat  BY <1>8 DEF pay!Least, pay!ReadBalance
  <2>. HIDE DEF take
  <2>2. pay_handler' = [pay_handler EXCEPT ![h] =
                         pay!On(pay_handler[h], IF take > 0 THEN "weighing" ELSE "removing", take)]
        BY <1>8 DEF pay!ReadBalance, pay!Goto, take
  <2>. QED  BY <1>8, <2>1, <2>2 DEF pay!ReadBalance, pay!On, pay!stripe, pay!row, pay!ledger
<1>9. ASSUME NEW h \in Handlers, pay!Clawback(h) PROVE Accounts'
  <2>1. CASE pay_handler[h].cents \in pay_keys
        BY <1>9, <2>1 DEF pay!Clawback, pay!Goto, pay!On, pay!stripe, pay!row
  <2>2. CASE pay_handler[h].cents \notin pay_keys
    <3>1. pay_handler[h].cents \in pay!Amounts  BY <1>9 DEF pay!Clawback
    <3>. QED  BY <1>9, <2>2, <3>1 DEF pay!Clawback, pay!Goto, pay!On, pay!stripe, pay!row
  <2>. QED  BY <2>1, <2>2
<1>10. ASSUME NEW h \in Handlers, pay!ClawbackFails(h) PROVE Accounts'
       BY <1>10 DEF pay!ClawbackFails, pay!Done, pay!Goto, pay!Idle, pay!stripe, pay!row, pay!ledger
<1>11. ASSUME NEW h \in Handlers, pay!AddRemoved(h) PROVE Accounts'
       BY <1>11 DEF pay!AddRemoved, pay!Done, pay!Goto, pay!Idle, pay!stripe, pay!ledger
<1>12. ASSUME NEW h \in Handlers, pay!Die(h) PROVE Accounts'
       BY <1>12 DEF pay!Die, pay!Done, pay!Goto, pay!Idle, pay!stripe, pay!row, pay!ledger
<1>. QED  BY <1>1, <1>2, <1>3, <1>4, <1>5, <1>6, <1>7, <1>8, <1>9, <1>10, <1>11, <1>12 DEF pay!Next

-----------------------------------------------------------------------------
\* A step that leaves the payment, the ledger and every refund under way alone keeps
\* what is known of them.
LEMMA CarefulKept ==
    ASSUME pay!TypeOK, Careful, pay_removed' = pay_removed, pay_clawed' = pay_clawed, pay_returned \subseteq pay_returned',
           \A g \in Handlers : \/ pay_handler'[g] = pay_handler[g]
                               \/ ~ pay!Refunding(g) /\ ~ pay!Refunding(g)'
    PROVE  Careful'
<1>1. Alone'  BY DEF Careful, Alone, pay!Refunding
<1>2. Even'  BY DEF Careful, Even, pay!Refunding
<1>3. Bounded'  BY DEF Careful, Bounded, pay!Share
<1>4. ASSUME NEW g \in Handlers PROVE InStep(g)'  BY DEF Careful, InStep, pay!Refunding, pay!Share
<1>. QED  BY <1>1, <1>2, <1>3, <1>4 DEF Careful

\* A step of the one refund under way: it is over, or its next step is known.
LEMMA CarefulMoves ==
    ASSUME pay!TypeOK, Careful, NEW h \in Handlers, pay!Refunding(h),
           \A g \in Handlers \ {h} : pay_handler'[g] = pay_handler[g],
           pay_returned' = pay_returned, Bounded', InStep(h)',
           ~ pay!Refunding(h)' => pay_removed' = pay_clawed'
    PROVE  Careful'
<1>0. \A g \in Handlers \ {h} : ~ pay!Refunding(g)  BY DEF Careful, Alone
<1>1. \A g \in Handlers \ {h} : ~ pay!Refunding(g)'  BY <1>0 DEF pay!Refunding
<1>2. Alone'  BY <1>1 DEF Alone
<1>3. Even'  BY <1>1 DEF Even
<1>4. ASSUME NEW g \in Handlers PROVE InStep(g)'
  <2>1. CASE g = h  BY <2>1
  <2>2. CASE g # h  BY <1>1, <2>2 DEF InStep, pay!Refunding
  <2>. QED  BY <2>1, <2>2
<1>. QED  BY <1>2, <1>3, <1>4 DEF Careful

\* While no two refunds overlap and none is cut off, the row and the ledger are a step of
\* one handler apart.
LEMMA CarefulStep ==
    ASSUME PackAssumption, RefundInv, [pay!Next]_(pay!vars), ~ pay_strayed' PROVE Careful'
<1>0. pay!TypeOK /\ WantsMore  BY DEF RefundInv, Accounts
<1>a. pay_strayed \in BOOLEAN  BY <1>0 DEF pay!TypeOK
<1>1. CASE UNCHANGED pay!vars
  <2>1. Careful  BY <1>1 DEF RefundInv, pay!vars
  <2>. QED  BY <1>0, <1>1, <2>1, CarefulKept DEF pay!vars
<1>2. CASE pay!Pay  BY <1>0, <1>2, CarefulKept DEF pay!Pay, pay!row, pay!ledger, RefundInv
<1>3. CASE pay!GiveBack  BY <1>0, <1>3, CarefulKept DEF pay!GiveBack, pay!row, pay!ledger, RefundInv
<1>4. CASE pay!Spend  BY <1>0, <1>4, CarefulKept DEF pay!Spend, pay!stripe, pay!row, RefundInv
<1>5. ASSUME NEW h \in Handlers, pay!Purchase(h) PROVE Careful'
  <2>1. \A g \in Handlers \ {h} : pay_handler'[g] = pay_handler[g]
        BY <1>0, <1>5 DEF pay!Purchase, pay!Goto, pay!TypeOK
  <2>2. ~ pay!Refunding(h) /\ ~ pay!Refunding(h)'
        BY <1>0, <1>5 DEF pay!Purchase, pay!Goto, pay!On, pay!TypeOK, pay!Refunding
  <2>. QED  BY <1>0, <1>5, <2>1, <2>2, CarefulKept DEF pay!Purchase, pay!stripe, pay!row, RefundInv
<1>6. ASSUME NEW h \in Handlers, pay!MarkPaid(h) PROVE Careful'
  <2>1. \A g \in Handlers \ {h} : pay_handler'[g] = pay_handler[g]
        BY <1>0, <1>6 DEF pay!MarkPaid, pay!Done, pay!Goto, pay!TypeOK
  <2>2. ~ pay!Refunding(h) /\ ~ pay!Refunding(h)'
        BY <1>0, <1>6 DEF pay!MarkPaid, pay!Done, pay!Goto, pay!Idle, pay!TypeOK, pay!Refunding
  <2>. QED  BY <1>0, <1>6, <2>1, <2>2, CarefulKept DEF pay!MarkPaid, pay!stripe, pay!ledger, RefundInv
<1>7. ASSUME NEW h \in Handlers, pay!ReadPayment(h) PROVE Careful'
  <2>1. PICK c \in pay_returned :
          pay!Goto(h, [step |-> IF pay!Share(c) > pay_removed THEN "wanting" ELSE "removing",
                   cents |-> c, want |-> pay!Share(c) - pay_removed, take |-> 0])
        BY <1>7 DEF pay!ReadPayment
  <2>2. Careful /\ \A g \in Handlers \ {h} : ~ pay!Refunding(g)
        BY <1>7, <1>a DEF pay!ReadPayment, RefundInv
  <2>3. ~ pay!Refunding(h)  BY <1>7 DEF pay!ReadPayment, pay!Refunding
  <2>4. pay_removed = pay_clawed  BY <2>2, <2>3 DEF Careful, Even
  <2>5. \A g \in Handlers \ {h} : pay_handler'[g] = pay_handler[g]  BY <1>0, <2>1 DEF pay!Goto, pay!TypeOK
  <2>6. \A g \in Handlers \ {h} : ~ pay!Refunding(g)'  BY <2>2, <2>5 DEF pay!Refunding
  <2>7. pay_handler'[h] = [step |-> IF pay!Share(c) > pay_removed THEN "wanting" ELSE "removing",
                       cents |-> c, want |-> pay!Share(c) - pay_removed, take |-> 0]
        BY <1>0, <2>1 DEF pay!Goto, pay!TypeOK
  <2>8. UNCHANGED <<pay_returned, pay_removed, pay_clawed>>  BY <1>7 DEF pay!ReadPayment, pay!stripe, pay!row, pay!ledger
  <2>9. pay!Share(c)' = pay!Share(c)  BY DEF pay!Share
  <2>10. pay!Refunding(h)'  BY <2>7 DEF pay!Refunding
  <2>11. InStep(h)'
    <3>1. CASE pay!Share(c) > pay_removed  BY <2>4, <2>7, <2>8, <2>9, <3>1 DEF InStep, pay!Share
    <3>2. CASE ~ (pay!Share(c) > pay_removed)
          BY <1>0, <2>4, <2>7, <2>8, <3>2 DEF InStep, pay!TypeOK
    <3>. QED  BY <3>1, <3>2
  <2>12. Alone' /\ Even'  BY <2>6, <2>10 DEF Alone, Even
  <2>13. Bounded'  BY <2>2, <2>8 DEF Careful, Bounded, pay!Share
  <2>14. ASSUME NEW g \in Handlers PROVE InStep(g)'
    <3>1. CASE g = h  BY <2>11, <3>1
    <3>2. CASE g # h  BY <2>6, <3>2 DEF InStep, pay!Refunding
    <3>. QED  BY <3>1, <3>2
  <2>. QED  BY <2>12, <2>13, <2>14 DEF Careful
<1>8. ASSUME NEW h \in Handlers, pay!ReadBalance(h) PROVE Careful'
  <2>. DEFINE take == pay!Least(pay_handler[h].want, pay_balance)
  <2>1. pay_handler[h].want \in Int /\ pay_handler[h].want > 0 /\ pay_balance \in Nat
        BY <1>0, <1>8 DEF pay!ReadBalance, pay!TypeOK, WantsMore
  <2>2. take \in Nat /\ take <= pay_handler[h].want  BY <2>1 DEF pay!Least
  <2>3. Careful /\ pay!Refunding(h)  BY <1>8 DEF pay!ReadBalance, RefundInv, pay!Refunding
  <2>4. /\ pay_handler' = [pay_handler EXCEPT ![h] =
                          pay!On(pay_handler[h], IF take > 0 THEN "weighing" ELSE "removing", take)]
        /\ UNCHANGED <<pay_returned, pay_removed, pay_clawed>>
        BY <1>8 DEF pay!ReadBalance, pay!Goto, pay!stripe, pay!row, pay!ledger
  <2>. HIDE DEF take
  <2>5. pay_handler'[h] = pay!On(pay_handler[h], IF take > 0 THEN "weighing" ELSE "removing", take)
        BY <1>0, <2>4 DEF pay!TypeOK
  <2>6. \A g \in Handlers \ {h} : pay_handler'[g] = pay_handler[g]  BY <1>0, <2>4 DEF pay!TypeOK
  <2>7. Bounded'  BY <2>3, <2>4 DEF Careful, Bounded, pay!Share
  <2>8. /\ pay_removed = pay_clawed /\ pay_handler[h].cents \in pay_returned
        /\ pay_handler[h].want = pay!Share(pay_handler[h].cents) - pay_removed
        BY <1>8, <2>3 DEF Careful, InStep, pay!ReadBalance
  <2>9. InStep(h)'
    <3>1. CASE take > 0
          BY <2>2, <2>4, <2>5, <2>8, <3>1 DEF InStep, pay!On, pay!Share
    <3>2. CASE ~ (take > 0)
      <4>1. take = 0  BY <2>2, <3>2
      <4>. QED  BY <1>0, <2>4, <2>5, <2>8, <3>2, <4>1 DEF InStep, pay!On, pay!TypeOK
    <3>. QED  BY <3>1, <3>2
  <2>10. pay!Refunding(h)'  BY <2>5 DEF pay!On, pay!Refunding
  <2>. QED  BY <1>0, <2>3, <2>4, <2>6, <2>7, <2>9, <2>10, CarefulMoves
<1>9. ASSUME NEW h \in Handlers, pay!Clawback(h) PROVE Careful'
  <2>1. Careful /\ pay!Refunding(h)  BY <1>9 DEF pay!Clawback, RefundInv, pay!Refunding, pay!row, pay!stripe
  <2>2. /\ pay_removed = pay_clawed /\ pay_handler[h].cents \in pay_returned
        /\ pay_handler[h].take <= pay!Share(pay_handler[h].cents) - pay_removed
        BY <1>9, <2>1 DEF Careful, InStep, pay!Clawback
  <2>3. UNCHANGED <<pay_returned, pay_removed>>  BY <1>9 DEF pay!Clawback, pay!stripe, pay!row
  <2>4. PICK take \in {0, pay_handler[h].take} :
          /\ pay_handler' = [pay_handler EXCEPT ![h] = pay!On(pay_handler[h], "removing", take)]
          /\ pay_clawed' = pay_clawed + take
    <3>1. CASE pay_handler[h].cents \in pay_keys  BY <1>0, <1>9, <3>1 DEF pay!Clawback, pay!Goto, pay!TypeOK
    <3>2. CASE pay_handler[h].cents \notin pay_keys  BY <1>9, <3>2 DEF pay!Clawback, pay!Goto
    <3>. QED  BY <3>1, <3>2
  <2>5. pay_handler'[h] = pay!On(pay_handler[h], "removing", take)
        /\ \A g \in Handlers \ {h} : pay_handler'[g] = pay_handler[g]
        BY <1>0, <2>4 DEF pay!TypeOK
  <2>6. InStep(h)' /\ pay!Refunding(h)'  BY <2>2, <2>3, <2>4, <2>5 DEF InStep, pay!On, pay!Refunding
  <2>7. pay_handler[h].cents \in 0 .. Cents /\ pay_removed \in Nat /\ pay_clawed \in Nat /\ pay_handler[h].take \in Nat
        BY <1>0 DEF pay!TypeOK
  <2>8. pay!Share(pay_handler[h].cents) \in Nat  BY <2>7, ShareIsNat
  <2>9. Bounded'
    <3>1. CASE take = 0  BY <2>1, <2>3, <2>4, <2>7, <3>1 DEF Careful, Bounded, pay!Share
    <3>2. CASE take = pay_handler[h].take
      <4>1. pay_clawed' <= pay!Share(pay_handler[h].cents)  BY <2>2, <2>4, <2>7, <2>8, <3>2
      <4>. QED  BY <2>2, <2>3, <4>1 DEF Bounded, pay!Share
    <3>. QED  BY <2>4, <3>1, <3>2
  <2>. QED  BY <1>0, <2>1, <2>3, <2>5, <2>6, <2>9, CarefulMoves
<1>10. ASSUME NEW h \in Handlers, pay!ClawbackFails(h) PROVE Careful'
  <2>1. Careful /\ pay!Refunding(h)  BY <1>10 DEF pay!ClawbackFails, RefundInv, pay!Refunding
  <2>2. pay_removed = pay_clawed  BY <1>10, <2>1 DEF Careful, InStep, pay!ClawbackFails
  <2>3. UNCHANGED <<pay_returned, pay_removed, pay_clawed>>  BY <1>10 DEF pay!ClawbackFails, pay!stripe, pay!row, pay!ledger
  <2>4. pay_handler'[h] = pay!Idle /\ \A g \in Handlers \ {h} : pay_handler'[g] = pay_handler[g]
        BY <1>0, <1>10 DEF pay!ClawbackFails, pay!Done, pay!Goto, pay!TypeOK
  <2>5. InStep(h)'  BY <2>4 DEF InStep, pay!Idle
  <2>6. Bounded'  BY <2>1, <2>3 DEF Careful, Bounded, pay!Share
  <2>. QED  BY <1>0, <2>1, <2>2, <2>3, <2>4, <2>5, <2>6, CarefulMoves
<1>11. ASSUME NEW h \in Handlers, pay!AddRemoved(h) PROVE Careful'
  <2>1. Careful /\ pay!Refunding(h)  BY <1>11 DEF pay!AddRemoved, RefundInv, pay!Refunding
  <2>2. pay_clawed = pay_removed + pay_handler[h].take  BY <1>11, <2>1 DEF Careful, InStep, pay!AddRemoved
  <2>3. UNCHANGED <<pay_returned, pay_clawed>> /\ pay_removed' = pay_removed + pay_handler[h].take
        BY <1>11 DEF pay!AddRemoved, pay!stripe, pay!ledger
  <2>4. pay_handler'[h] = pay!Idle /\ \A g \in Handlers \ {h} : pay_handler'[g] = pay_handler[g]
        BY <1>0, <1>11 DEF pay!AddRemoved, pay!Done, pay!Goto, pay!TypeOK
  <2>5. InStep(h)'  BY <2>4 DEF InStep, pay!Idle
  <2>6. Bounded'  BY <2>1, <2>3 DEF Careful, Bounded, pay!Share
  <2>. QED  BY <1>0, <2>1, <2>2, <2>3, <2>4, <2>5, <2>6, CarefulMoves
<1>12. ASSUME NEW h \in Handlers, pay!Die(h) PROVE Careful'
  <2>1. Careful /\ ~ pay!Refunding(h)  BY <1>12, <1>a DEF pay!Die, RefundInv
  <2>2. pay_handler'[h] = pay!Idle /\ \A g \in Handlers \ {h} : pay_handler'[g] = pay_handler[g]
        BY <1>0, <1>12 DEF pay!Die, pay!Done, pay!Goto, pay!TypeOK
  <2>3. ~ pay!Refunding(h)'  BY <2>2 DEF pay!Refunding, pay!Idle
  <2>. QED  BY <1>0, <1>12, <2>1, <2>2, <2>3, CarefulKept DEF pay!Die, pay!stripe, pay!row, pay!ledger
<1>. QED  BY <1>1, <1>2, <1>3, <1>4, <1>5, <1>6, <1>7, <1>8, <1>9, <1>10, <1>11, <1>12 DEF pay!Next

LEMMA RefundStep == ASSUME PackAssumption PROVE RefundInv /\ [pay!Next]_(pay!vars) => RefundInv'
<1>. SUFFICES ASSUME RefundInv, [pay!Next]_(pay!vars) PROVE RefundInv'  OBVIOUS
<1>1. Accounts'  BY AccountsStep DEF RefundInv
<1>2. ~ pay_strayed' => Careful'  BY CarefulStep
<1>. QED  BY <1>1, <1>2 DEF RefundInv

\* For every pack, price, number of messages handled at once and order they come in.
THEOREM RefundInvariant == ASSUME PackAssumption PROVE pay!Spec => []RefundInv
<1>1. pay!Init => RefundInv  BY RefundInit
<1>2. RefundInv /\ [pay!Next]_(pay!vars) => RefundInv'  BY RefundStep
<1>. QED  BY <1>1, <1>2, PTL DEF pay!Spec

\* billing.Paid and Clawback: a pack is added once however often Stripe says so, and a
\* balance never goes below zero.
THEOREM PacksAreAddedOnce == ASSUME PackAssumption PROVE pay!Spec => [](pay!TypeOK /\ pay!PackIsAddedOnce)
<1>1. RefundInv => pay!TypeOK /\ pay!PackIsAddedOnce  BY DEF RefundInv, Accounts
<1>. QED  BY <1>1, RefundInvariant, PTL

\* billing.Refunded: what is taken back is the share that goes with the money returned, as
\* long as refunds of one payment are handled one by one and none is cut off.
THEOREM RefundsTakeTheirShare == ASSUME PackAssumption PROVE pay!Spec => []pay!RefundTakesItsShare
<1>1. RefundInv => pay!RefundTakesItsShare
      BY DEF RefundInv, Careful, Bounded, Even, pay!RefundTakesItsShare
<1>. QED  BY <1>1, RefundInvariant, PTL

\* MarkPaid and AddRemoved: a late message never makes a returned payment a paid one.
THEOREM RefundsAreFinal == pay!Spec => pay!RefundedStays
<1>1. [pay!Next]_(pay!vars) => [pay_status = "refunded" => pay_status' = "refunded"]_(pay!vars)
      BY DEF pay!Next, pay!vars, pay!Pay, pay!GiveBack, pay!Spend, pay!Purchase, pay!MarkPaid, pay!ReadPayment, pay!ReadBalance,
             pay!Clawback, pay!ClawbackFails, pay!AddRemoved, pay!Die, pay!row
<1>. QED  BY <1>1, PTL DEF pay!Spec, pay!RefundedStays
-----------------------------------------------------------------------------
\* What a handler has taken of the ledger, or found taken, and has still to add to the row.
Adds(k) == IF k.step = "removing" THEN k.take ELSE 0
Owing == [h \in Handlers |-> Adds(pay_handler[h])]
Owed == SumFunctionOnSet(Owing, Handlers)

\* What the handlers will add to the row is in the ledger already, whatever is lost.
LagInv == Accounts /\ pay_removed + Owed <= pay_clawed

\* What is owed is a number.
LEMMA OwingCounts ==
    ASSUME pay!TypeOK, IsFiniteSet(Handlers)
    PROVE  /\ Owing \in [Handlers -> Nat] /\ Counts(Owing, Handlers) /\ Owed \in Nat
<1>1. Owing \in [Handlers -> Nat]  BY DEF pay!TypeOK, Owing, Adds
<1>2. Counts(Owing, Handlers)  BY <1>1 DEF Counts
<1>. QED  BY <1>1, <1>2, SumNat DEF Owed

\* A step of one handler changes what is owed by what that handler owes.
LEMMA OwedChanges ==
    ASSUME pay!TypeOK, pay!TypeOK', IsFiniteSet(Handlers), NEW h \in Handlers,
           \A g \in Handlers \ {h} : pay_handler'[g] = pay_handler[g]
    PROVE  /\ Owed' = Owed - Owing[h] + Owing'[h]
           /\ Owed \in Nat /\ Owed' \in Nat /\ Owing[h] \in Nat /\ Owing'[h] \in Nat
<1>1. Owing \in [Handlers -> Nat] /\ Counts(Owing, Handlers) /\ Owed \in Nat  BY OwingCounts
<1>2. Owing' \in [Handlers -> Nat]  BY DEF pay!TypeOK, Owing, Adds
<1>3. Counts(Owing', Handlers)  BY <1>2 DEF Counts
<1>4. SumFunctionOnSet(Owing', Handlers) \in Nat  BY <1>3, SumNat
<1>5. \A g \in Handlers \ {h} : Owing[g] = Owing'[g]  BY DEF Owing
<1>6. SumFunctionOnSet(Owing', Handlers) = SumFunctionOnSet(Owing, Handlers) - Owing[h] + Owing'[h]
      BY <1>1, <1>2, <1>5, SumChange
<1>. QED  BY <1>1, <1>2, <1>4, <1>6 DEF Owed

\* What is taken goes to the ledger first and to the row in a later step of the same
\* handler; a handler that is cut off leaves the row behind, never ahead.
LEMMA LagStep ==
    ASSUME PackAssumption, IsFiniteSet(Handlers), LagInv, [pay!Next]_(pay!vars) PROVE LagInv'
<1>0. Accounts' /\ pay!TypeOK /\ pay!TypeOK' /\ WantsMore  BY AccountsStep DEF LagInv, Accounts
<1>1. pay_removed \in Nat /\ pay_clawed \in Nat /\ Owed \in Nat /\ pay_removed + Owed <= pay_clawed
      BY <1>0, OwingCounts DEF LagInv, pay!TypeOK
<1>2. ASSUME pay_handler' = pay_handler, pay_removed' = pay_removed, pay_clawed' = pay_clawed PROVE LagInv'
      BY <1>0, <1>1, <1>2 DEF LagInv, Owed, Owing
<1>3. ASSUME NEW h \in Handlers, NEW k, pay_handler' = [pay_handler EXCEPT ![h] = k],
             pay_removed' + Adds(k) <= pay_removed + Adds(pay_handler[h]) + (pay_clawed' - pay_clawed)
      PROVE  LagInv'
  <2>1. pay_handler'[h] = k /\ \A g \in Handlers \ {h} : pay_handler'[g] = pay_handler[g]
        BY <1>0, <1>3 DEF pay!TypeOK
  <2>2. Owing'[h] = Adds(k) /\ Owing[h] = Adds(pay_handler[h])  BY <2>1 DEF Owing, Adds
  <2>3. /\ Owed' = Owed - Owing[h] + Owing'[h]
        /\ Owed' \in Nat /\ Owing[h] \in Nat /\ Owing'[h] \in Nat
        BY <1>0, <2>1, OwedChanges
  <2>4. pay_removed' \in Nat /\ pay_clawed' \in Nat  BY <1>0 DEF pay!TypeOK
  <2>5. pay_removed' + Owing'[h] <= pay_removed + Owing[h] + (pay_clawed' - pay_clawed)  BY <1>3, <2>2
  <2>6. pay_removed' + Owed' <= pay_clawed'  BY <1>1, <2>3, <2>4, <2>5
  <2>. QED  BY <1>0, <2>6 DEF LagInv
<1>4. \A h \in Handlers : pay_handler[h].take \in Nat /\ Adds(pay_handler[h]) \in Nat
      BY <1>0 DEF pay!TypeOK, Adds
<1>5. ASSUME NEW h \in Handlers, NEW k, pay_handler' = [pay_handler EXCEPT ![h] = k], Adds(k) = 0,
             pay_removed' = pay_removed, pay_clawed' = pay_clawed
      PROVE  LagInv'
  <2>1. pay_removed' + Adds(k) <= pay_removed + Adds(pay_handler[h]) + (pay_clawed' - pay_clawed)
        BY <1>1, <1>4, <1>5
  <2>. QED  BY <1>3, <1>5, <2>1
<1>6. CASE UNCHANGED pay!vars  BY <1>2, <1>6 DEF pay!vars
<1>7. CASE pay!Pay \/ pay!GiveBack \/ pay!Spend
      BY <1>2, <1>7 DEF pay!Pay, pay!GiveBack, pay!Spend, pay!row, pay!ledger
<1>8. ASSUME NEW h \in Handlers, pay!Purchase(h) PROVE LagInv'
  <2>1. /\ pay_handler' = [pay_handler EXCEPT ![h] = pay!On(pay!Idle, "marking", 0)]
        /\ pay_removed' = pay_removed /\ pay_clawed' = pay_clawed
        BY <1>8 DEF pay!Purchase, pay!Goto, pay!row
  <2>2. Adds(pay!On(pay!Idle, "marking", 0)) = 0  BY DEF Adds, pay!On
  <2>. QED  BY <1>5, <2>1, <2>2
<1>9. ASSUME NEW h \in Handlers, pay!MarkPaid(h) PROVE LagInv'
  <2>1. /\ pay_handler' = [pay_handler EXCEPT ![h] = pay!Idle]
        /\ pay_removed' = pay_removed /\ pay_clawed' = pay_clawed
        BY <1>9 DEF pay!MarkPaid, pay!Goto, pay!Done, pay!ledger
  <2>2. Adds(pay!Idle) = 0  BY DEF Adds, pay!Idle
  <2>. QED  BY <1>5, <2>1, <2>2
<1>10. ASSUME NEW h \in Handlers, pay!ReadPayment(h) PROVE LagInv'
  <2>1. PICK c \in pay_returned :
          pay!Goto(h, [step |-> IF pay!Share(c) > pay_removed THEN "wanting" ELSE "removing",
                   cents |-> c, want |-> pay!Share(c) - pay_removed, take |-> 0])
        BY <1>10 DEF pay!ReadPayment
  <2>. DEFINE k == [step |-> IF pay!Share(c) > pay_removed THEN "wanting" ELSE "removing",
                    cents |-> c, want |-> pay!Share(c) - pay_removed, take |-> 0]
  <2>2. pay_handler' = [pay_handler EXCEPT ![h] = k] /\ pay_removed' = pay_removed /\ pay_clawed' = pay_clawed
        BY <1>10, <2>1 DEF pay!ReadPayment, pay!Goto, pay!row, pay!ledger
  <2>3. Adds(k) = 0  BY DEF Adds
  <2>. HIDE DEF k
  <2>. QED  BY <1>5, <2>2, <2>3
<1>11. ASSUME NEW h \in Handlers, pay!ReadBalance(h) PROVE LagInv'
  <2>. DEFINE take == pay!Least(pay_handler[h].want, pay_balance)
              k == pay!On(pay_handler[h], IF take > 0 THEN "weighing" ELSE "removing", take)
  <2>1. take \in Nat  BY <1>0, <1>11 DEF pay!Least, pay!ReadBalance, pay!TypeOK, WantsMore
  <2>2. pay_handler' = [pay_handler EXCEPT ![h] = k] /\ pay_removed' = pay_removed /\ pay_clawed' = pay_clawed
        BY <1>11 DEF pay!ReadBalance, pay!Goto, pay!row, pay!ledger
  <2>. HIDE DEF take
  <2>3. take > 0 \/ take = 0  BY <2>1
  <2>4. Adds(k) = 0  BY <2>3 DEF Adds, pay!On
  <2>. HIDE DEF k
  <2>. QED  BY <1>5, <2>2, <2>4
<1>12. ASSUME NEW h \in Handlers, pay!Clawback(h) PROVE LagInv'
  <2>1. PICK take \in {0, pay_handler[h].take} :
          /\ pay_handler' = [pay_handler EXCEPT ![h] = pay!On(pay_handler[h], "removing", take)]
          /\ pay_clawed' = pay_clawed + take
    <3>1. CASE pay_handler[h].cents \in pay_keys  BY <1>1, <1>12, <3>1 DEF pay!Clawback, pay!Goto
    <3>2. CASE pay_handler[h].cents \notin pay_keys  BY <1>12, <3>2 DEF pay!Clawback, pay!Goto
    <3>. QED  BY <3>1, <3>2
  <2>2. pay_removed' = pay_removed /\ Adds(pay_handler[h]) = 0  BY <1>12 DEF pay!Clawback, pay!row, Adds
  <2>3. take \in Nat  BY <1>4, <2>1
  <2>4. Adds(pay!On(pay_handler[h], "removing", take)) = take  BY DEF pay!On, Adds
  <2>5. pay_removed' + Adds(pay!On(pay_handler[h], "removing", take))
            <= pay_removed + Adds(pay_handler[h]) + (pay_clawed' - pay_clawed)
        BY <1>1, <2>1, <2>2, <2>3, <2>4
  <2>. QED  BY <1>3, <2>1, <2>5
<1>13. ASSUME NEW h \in Handlers, pay!ClawbackFails(h) PROVE LagInv'
  <2>1. /\ pay_handler' = [pay_handler EXCEPT ![h] = pay!Idle]
        /\ pay_removed' = pay_removed /\ pay_clawed' = pay_clawed
        BY <1>13 DEF pay!ClawbackFails, pay!Goto, pay!Done, pay!row, pay!ledger
  <2>2. Adds(pay!Idle) = 0  BY DEF Adds, pay!Idle
  <2>. QED  BY <1>5, <2>1, <2>2
<1>14. ASSUME NEW h \in Handlers, pay!AddRemoved(h) PROVE LagInv'
  <2>1. /\ pay_handler' = [pay_handler EXCEPT ![h] = pay!Idle] /\ pay_clawed' = pay_clawed
        /\ pay_removed' = pay_removed + Adds(pay_handler[h])
        BY <1>14 DEF pay!AddRemoved, pay!Done, pay!Goto, pay!ledger, Adds
  <2>2. Adds(pay!Idle) = 0  BY DEF Adds, pay!Idle
  <2>3. pay_removed' + Adds(pay!Idle) <= pay_removed + Adds(pay_handler[h]) + (pay_clawed' - pay_clawed)
        BY <1>1, <1>4, <2>1, <2>2
  <2>. QED  BY <1>3, <2>1, <2>3
<1>15. ASSUME NEW h \in Handlers, pay!Die(h) PROVE LagInv'
  <2>1. /\ pay_handler' = [pay_handler EXCEPT ![h] = pay!Idle]
        /\ pay_removed' = pay_removed /\ pay_clawed' = pay_clawed
        BY <1>15 DEF pay!Die, pay!Goto, pay!Done, pay!row, pay!ledger
  <2>2. Adds(pay!Idle) = 0  BY DEF Adds, pay!Idle
  <2>. QED  BY <1>5, <2>1, <2>2
<1>. QED  BY <1>6, <1>7, <1>8, <1>9, <1>10, <1>11, <1>12, <1>13, <1>14, <1>15 DEF pay!Next

\* AddRemoved: the row never says that more was taken back than the ledger took, however
\* many messages are handled at once, in whatever order, and wherever one is cut off.
THEOREM RowNeverLeads ==
    ASSUME PackAssumption, IsFiniteSet(Handlers) PROVE pay!Spec => []pay!NeverSaysTooMuch
<1>1. pay!Init => LagInv
  <2>. SUFFICES ASSUME pay!Init PROVE LagInv  OBVIOUS
  <2>1. Accounts  BY RefundInit DEF RefundInv
  <2>2. \A h \in Handlers : Owing[h] = 0  BY DEF pay!Init, pay!Idle, Owing, Adds
  <2>3. Owed = 0  BY <2>2, SumOfZeros DEF Owed
  <2>. QED  BY <2>1, <2>3 DEF LagInv, pay!Init
<1>2. LagInv /\ [pay!Next]_(pay!vars) => LagInv'  BY LagStep
<1>3. LagInv => pay!NeverSaysTooMuch
  <2>. SUFFICES ASSUME LagInv PROVE pay!NeverSaysTooMuch  OBVIOUS
  <2>1. pay!TypeOK /\ pay_removed \in Nat /\ pay_clawed \in Nat  BY DEF LagInv, Accounts, pay!TypeOK
  <2>2. Owed \in Nat  BY <2>1, OwingCounts
  <2>. QED  BY <2>1, <2>2 DEF LagInv, pay!NeverSaysTooMuch
<1>. QED  BY <1>1, <1>2, <1>3, PTL DEF pay!Spec
-----------------------------------------------------------------------------
\* A request under way holds a message that was sent.
HoldsMessage == \A h \in Handlers : member_handler[h] = member!Idle \/ member_handler[h].message \in DOMAIN member_sent

MemberTypes == member!TypeOK /\ HoldsMessage

-----------------------------------------------------------------------------
\* What every step keeps, whatever comes out of order: a request under way is about a
\* message that was sent, and a message about a subscription that was paid.
LEMMA TypesStep ==
    ASSUME MembershipAssumption, MemberTypes, [member!Next]_(member!vars) PROVE MemberTypes'
<1>. USE DEF MembershipAssumption, MemberTypes, member!TypeOK, HoldsMessage, member!Live
<1>1. CASE UNCHANGED member!vars  BY <1>1 DEF member!vars
<1>2. ASSUME NEW ms \in Seq(member!Message), member!Tell(ms)
      PROVE  /\ member_sent' \in Seq(member!Message) /\ Len(member_sent') = Len(member_sent) + Len(ms)
             /\ Len(member_sent) \in Nat /\ Len(member_sent') \in Nat /\ Len(member_sent) <= Len(member_sent')
      BY <1>2 DEF member!Tell
<1>3. ASSUME NEW s \in Subs, member!Subscribe(s) PROVE MemberTypes'  BY <1>3 DEF member!Subscribe
<1>4. ASSUME NEW s \in Subs, member!Pays(s) PROVE MemberTypes'
  <2>. DEFINE of(kind) == [kind |-> kind, sub |-> s, status |-> "active"]
  <2>1. of("checkout") \in member!Message /\ of("changed") \in member!Message  BY DEF member!Message
  <2>2. /\ <<of("checkout"), of("changed")>> \in Seq(member!Message)
        /\ <<of("changed"), of("checkout")>> \in Seq(member!Message)
        BY <2>1
  <2>3. member!Tell(<<of("checkout"), of("changed")>>) \/ member!Tell(<<of("changed"), of("checkout")>>)
        BY <1>4 DEF member!Pays
  <2>4. member_sent' \in Seq(member!Message) /\ Len(member_sent) \in Nat /\ Len(member_sent') \in Nat /\ Len(member_sent) <= Len(member_sent')
        BY <1>2, <2>2, <2>3
  <2>5. UNCHANGED <<member_handled, member_row, member_handler, member_mails, member_jumbled>>  BY <1>4 DEF member!Pays
  <2>6. member_state' \in [Subs -> member!Live \cup {"none", "open", "canceled"}]  BY <1>4 DEF member!Pays
  <2>7. member_again' \in BOOLEAN  BY <1>4 DEF member!Pays
  <2>. QED  BY <2>4, <2>5, <2>6, <2>7
<1>5. ASSUME NEW s \in Subs, NEW to \in member!Live \cup {"canceled"}, member!Changes(s, to) PROVE MemberTypes'
  <2>1. <<[kind |-> "changed", sub |-> s, status |-> to]>> \in Seq(member!Message)  BY DEF member!Message
  <2>2. member_sent' \in Seq(member!Message) /\ Len(member_sent) \in Nat /\ Len(member_sent') \in Nat /\ Len(member_sent) <= Len(member_sent')
        BY <1>2, <1>5, <2>1 DEF member!Changes
  <2>. QED  BY <1>5, <2>2 DEF member!Changes
<1>6. ASSUME NEW h \in Handlers, member!Receive(h) PROVE MemberTypes'
  <2>1. PICK m \in DOMAIN member_sent :
          /\ member_handler' = [member_handler EXCEPT ![h] = [message |-> m, previous |-> member_row.status]]
          /\ member_jumbled' = (member_jumbled \/ m # member_handled + 1 \/ \E g \in Handlers : member_handler[g] # member!Idle)
          /\ member_handled' = IF m = member_handled + 1 THEN m ELSE member_handled
        BY <1>6 DEF member!Receive
  <2>2. Len(member_sent) \in Nat /\ m \in 1 .. Len(member_sent)  OBVIOUS
  <2>. QED  BY <1>6, <2>1, <2>2 DEF member!Receive
<1>7. ASSUME NEW h \in Handlers, member_handler[h] # member!Idle
      PROVE  /\ member_handler[h].message \in DOMAIN member_sent /\ member_sent[member_handler[h].message] \in member!Message
             /\ Len(member_sent) \in Nat
      BY <1>7
<1>8. ASSUME NEW h \in Handlers, member!Save(h) PROVE MemberTypes'
  <2>. DEFINE m == member_sent[member_handler[h].message]
  <2>1. m \in member!Message  BY <1>7, <1>8 DEF member!Save
  <2>2. member_row' = [status |-> m.status, sub |-> m.sub]  BY <1>8 DEF member!Save
  <2>3. member_row' \in [status : member!Live \cup {"none", "canceled"}, sub : Subs \cup {0}]
        BY <2>1, <2>2 DEF member!Message
  <2>4. member_mails' = [k \in DOMAIN member_mails |->
              IF k \in member!Mail(m.kind, member_handler[h].previous, m.status) THEN member!Least(member_mails[k] + 1, MaxMessages)
              ELSE member_mails[k]]
        BY <1>8 DEF member!Save
  <2>5. member_mails' \in [{"started", "failed", "ended"} -> 0 .. MaxMessages]
        BY <2>4 DEF member!Least
  <2>6. member_handler' = [member_handler EXCEPT ![h] = member!Idle]  BY <1>8 DEF member!Save
  <2>. QED  BY <1>8, <2>3, <2>5, <2>6 DEF member!Save, member!Idle
<1>9. ASSUME NEW h \in Handlers, member!Fails(h) PROVE MemberTypes'
  <2>. DEFINE m == member_sent[member_handler[h].message]
  <2>1. m \in member!Message /\ member_handler[h].message \in 1 .. Len(member_sent) /\ Len(member_sent) \in Nat
        BY <1>7, <1>9 DEF member!Fails
  <2>2. member_row' \in {member_row, [status |-> m.status, sub |-> m.sub]}  BY <1>9 DEF member!Fails
  <2>3. member_row' \in [status : member!Live \cup {"none", "canceled"}, sub : Subs \cup {0}]
        BY <2>1, <2>2 DEF member!Message
  <2>4. member_handled' \in 0 .. Len(member_sent)  BY <1>9, <2>1 DEF member!Fails
  <2>6. member_handler' = [member_handler EXCEPT ![h] = member!Idle]  BY <1>9 DEF member!Fails
  <2>. QED  BY <1>9, <2>3, <2>4, <2>6 DEF member!Fails, member!Idle
<1>. QED  BY <1>1, <1>3, <1>4, <1>5, <1>6, <1>8, <1>9 DEF member!Next
-----------------------------------------------------------------------------
\* While the messages come in order, one request at a time handles the next of them,
InOrder ==
    /\ \A h \in Handlers : member_handler[h] = member!Idle \/ member_handler[h].message = member_handled
    /\ \A g, h \in Handlers : g = h \/ member_handler[g] = member!Idle \/ member_handler[h] = member!Idle

\* and once all were, the row has the status of the last of them.
RowFollows ==
    member!Settled => IF member_sent = <<>> THEN ~ member!IsPro(member_row.status)
               ELSE member_row.status = member_sent[Len(member_sent)].status

\* While no subscription is taken out beside another, the last message tells of the only
\* one that may be live.
LastTells ==
    IF member_sent = <<>> THEN \A s \in Subs : member_state[s] \in {"none", "open"}
    ELSE LET last == member_sent[Len(member_sent)] IN
         /\ member_state[last.sub] = last.status
         /\ \A s \in Subs : s = last.sub \/ member_state[s] \notin member!Live

ProInv ==
    /\ MemberTypes
    /\ ~ member_jumbled => InOrder /\ RowFollows
    /\ ~ member_again => LastTells

\* A message more is a message that was not handled.
LEMMA ToldMore ==
    ASSUME MemberTypes, NEW ms \in Seq(member!Message), ms # <<>>, member!Tell(ms)
    PROVE  /\ member_sent' # <<>> /\ member_sent'[Len(member_sent')] = ms[Len(ms)]
           /\ Len(member_sent') \in Nat /\ member_handled < Len(member_sent')
<1>. USE DEF MemberTypes, member!TypeOK
<1>1. Len(ms) \in Nat /\ Len(ms) > 0 /\ Len(member_sent) \in Nat  OBVIOUS
<1>2. member_sent' = member_sent \o ms /\ Len(member_sent') = Len(member_sent) + Len(ms)  BY DEF member!Tell
<1>3. member_sent'[Len(member_sent')] = ms[Len(ms)]  BY <1>1, <1>2
<1>. QED  BY <1>1, <1>2, <1>3

\* What a step of Stripe or of the person keeps of the messages' order.
LEMMA OrderKept ==
    ASSUME MemberTypes, ~ member_jumbled => InOrder /\ RowFollows,
           UNCHANGED <<member_handled, member_row, member_handler, member_jumbled>>,
           member_sent' = member_sent \/ (Len(member_sent') \in Nat /\ member_handled < Len(member_sent'))
    PROVE  ~ member_jumbled' => InOrder' /\ RowFollows'
<1>1. InOrder => InOrder'  BY DEF InOrder
<1>2. CASE member_sent' = member_sent  BY <1>1, <1>2 DEF RowFollows, member!Settled
<1>3. CASE member_handled < Len(member_sent') /\ Len(member_sent') \in Nat
  <2>1. ~ member!Settled'  BY <1>3 DEF member!Settled, MemberTypes, member!TypeOK
  <2>. QED  BY <1>1, <2>1 DEF RowFollows
<1>. QED  BY <1>2, <1>3

LEMMA ProStep ==
    ASSUME MembershipAssumption, ProInv, [member!Next]_(member!vars) PROVE ProInv'
<1>. USE DEF MembershipAssumption
<1>0. MemberTypes /\ member!TypeOK /\ MemberTypes' /\ member!TypeOK'  BY TypesStep DEF ProInv, MemberTypes
<1>a. member_jumbled \in BOOLEAN /\ member_again \in BOOLEAN /\ Len(member_sent) \in Nat /\ member_handled \in 0 .. Len(member_sent)
      BY <1>0 DEF member!TypeOK
<1>1. CASE UNCHANGED member!vars
      BY <1>0, <1>1 DEF member!vars, ProInv, InOrder, RowFollows, member!Settled, LastTells
<1>2. ASSUME NEW s \in Subs, member!Subscribe(s) PROVE ProInv'
  <2>0. UNCHANGED <<member_handled, member_row, member_handler, member_jumbled>> /\ member_sent' = member_sent  BY <1>2 DEF member!Subscribe
  <2>a. MemberTypes /\ (~ member_jumbled => InOrder /\ RowFollows)  BY DEF ProInv
  <2>1. ~ member_jumbled' => InOrder' /\ RowFollows'
    BY <2>a, <2>0, OrderKept
  <2>2. /\ member_sent' = member_sent /\ member_again' = member_again
        /\ member_state[s] = "none" /\ member_state' = [member_state EXCEPT ![s] = "open"]
        BY <1>2 DEF member!Subscribe
  <2>3. LastTells => LastTells'
    <3>1. CASE member_sent = <<>>  BY <1>0, <2>2, <3>1 DEF LastTells, member!TypeOK
    <3>2. CASE member_sent # <<>>
      <4>1. member_sent[Len(member_sent)] \in member!Message  BY <1>0, <3>2 DEF member!TypeOK
      <4>. QED  BY <1>0, <2>2, <3>2, <4>1 DEF LastTells, member!TypeOK, member!Message, member!Live
    <3>. QED  BY <3>1, <3>2
  <2>. QED  BY <1>0, <2>1, <2>2, <2>3 DEF ProInv
<1>3. ASSUME NEW s \in Subs, member!Pays(s) PROVE ProInv'
  <2>. DEFINE of(kind) == [kind |-> kind, sub |-> s, status |-> "active"]
  <2>1. of("checkout") \in member!Message /\ of("changed") \in member!Message  BY DEF member!Message, member!Live
  <2>2. PICK ms \in {<<of("checkout"), of("changed")>>, <<of("changed"), of("checkout")>>} : member!Tell(ms)
        BY <1>3 DEF member!Pays
  <2>3. ms \in Seq(member!Message) /\ ms # <<>> /\ ms[Len(ms)].sub = s /\ ms[Len(ms)].status = "active"
    <3>1. CASE ms = <<of("checkout"), of("changed")>>  BY <2>1, <3>1
    <3>2. CASE ms = <<of("changed"), of("checkout")>>  BY <2>1, <3>2
    <3>. QED  BY <2>2, <3>1, <3>2
  <2>4. /\ member_sent' # <<>> /\ member_sent'[Len(member_sent')] = ms[Len(ms)]
        /\ Len(member_sent') \in Nat /\ member_handled < Len(member_sent')
        BY <1>0, <2>2, <2>3, ToldMore
  <2>5. ~ member_jumbled' => InOrder' /\ RowFollows'  BY <1>0, <1>3, <2>4, OrderKept DEF member!Pays, ProInv
  <2>6. /\ member_state' = [member_state EXCEPT ![s] = "active"]
        /\ member_again' = (member_again \/ \E t \in Subs : member_state[t] \in member!Live)
        BY <1>3 DEF member!Pays
  <2>7. ~ member_again' => LastTells'
    <3>1. member_sent'[Len(member_sent')].sub = s /\ member_sent'[Len(member_sent')].status = "active"  BY <2>3, <2>4
    <3>2. ~ member_again' => \A t \in Subs : member_state[t] \notin member!Live  BY <1>a, <2>6
    <3>3. member_state'[s] = "active" /\ \A t \in Subs \ {s} : member_state'[t] = member_state[t]
          BY <1>0, <2>6 DEF member!TypeOK
    <3>. QED  BY <2>4, <3>1, <3>2, <3>3 DEF LastTells
  <2>. QED  BY <1>0, <2>5, <2>7 DEF ProInv
<1>4. ASSUME NEW s \in Subs, NEW to \in member!Live \cup {"canceled"}, member!Changes(s, to) PROVE ProInv'
  <2>. DEFINE ms == <<[kind |-> "changed", sub |-> s, status |-> to]>>
  <2>1. /\ ms \in Seq(member!Message) /\ ms # <<>> /\ ms[Len(ms)].sub = s /\ ms[Len(ms)].status = to
        BY DEF member!Message
  <2>2. member!Tell(ms)  BY <1>4 DEF member!Changes
  <2>. HIDE DEF ms
  <2>4. /\ member_sent' # <<>> /\ member_sent'[Len(member_sent')] = ms[Len(ms)]
        /\ Len(member_sent') \in Nat /\ member_handled < Len(member_sent')
        BY <1>0, <2>1, <2>2, ToldMore
  <2>5. ~ member_jumbled' => InOrder' /\ RowFollows'  BY <1>0, <1>4, <2>4, OrderKept DEF member!Changes, ProInv
  <2>6. /\ member_state[s] \in member!Live /\ member_state' = [member_state EXCEPT ![s] = to] /\ member_again' = member_again
        BY <1>4 DEF member!Changes
  <2>7. LastTells => \A t \in Subs : t = s \/ member_state[t] \notin member!Live
        BY <2>6 DEF LastTells, member!Live
  <2>8. LastTells => LastTells'
        BY <1>0, <2>1, <2>4, <2>6, <2>7 DEF LastTells, member!TypeOK
  <2>. QED  BY <1>0, <2>5, <2>6, <2>8 DEF ProInv
<1>5. ASSUME NEW h \in Handlers, member!Receive(h) PROVE ProInv'
  <2>1. PICK m \in DOMAIN member_sent :
          /\ member_handler' = [member_handler EXCEPT ![h] = [message |-> m, previous |-> member_row.status]]
          /\ member_jumbled' = (member_jumbled \/ m # member_handled + 1 \/ \E g \in Handlers : member_handler[g] # member!Idle)
          /\ member_handled' = IF m = member_handled + 1 THEN m ELSE member_handled
        BY <1>5 DEF member!Receive
  <2>2. UNCHANGED <<member_state, member_sent, member_row, member_again>>  BY <1>5 DEF member!Receive
  <2>3. m \in 1 .. Len(member_sent)  BY <1>0 DEF member!TypeOK
  <2>4. member_handler'[h] # member!Idle  BY <1>0, <2>1, <2>3 DEF member!TypeOK, member!Idle
  <2>5. RowFollows'  BY <2>4 DEF RowFollows, member!Settled
  <2>6. ~ member_jumbled' => InOrder'  BY <1>0, <2>1 DEF InOrder, member!TypeOK, member!Idle
  <2>7. ~ member_again' => LastTells'  BY <2>2 DEF ProInv, LastTells
  <2>. QED  BY <1>0, <2>5, <2>6, <2>7 DEF ProInv
<1>6. ASSUME NEW h \in Handlers, member!Save(h) \/ member!Fails(h) PROVE ProInv'
  <2>1. /\ member_handler[h] # member!Idle /\ member_handler' = [member_handler EXCEPT ![h] = member!Idle]
        /\ UNCHANGED <<member_state, member_sent, member_jumbled, member_again>>
        BY <1>6 DEF member!Save, member!Fails
  <2>2. member_handler[h].message \in 1 .. Len(member_sent)
        BY <1>0, <2>1 DEF MemberTypes, HoldsMessage, member!TypeOK
  <2>3. ~ member_jumbled => member_handler[h].message = member_handled /\ \A g \in Handlers : g = h \/ member_handler[g] = member!Idle
        BY <2>1 DEF ProInv, InOrder
  <2>4. ~ member_jumbled => \A g \in Handlers : member_handler'[g] = member!Idle
        BY <1>0, <2>1, <2>3 DEF member!TypeOK
  <2>5. ~ member_jumbled' => InOrder'  BY <2>1, <2>4 DEF InOrder
  <2>6. ~ member_jumbled' => RowFollows'
    <3>. SUFFICES ASSUME ~ member_jumbled, member!Settled' PROVE RowFollows'  BY <2>1 DEF RowFollows
    <3>1. member_handler[h].message = member_handled /\ member_handled' = Len(member_sent) /\ member_sent' = member_sent
          BY <2>1, <2>3 DEF member!Settled
    <3>2. member!Save(h)  BY <1>6, <1>a, <3>1 DEF member!Fails
    <3>3. member_handled' = member_handled /\ member_row'.status = member_sent[member_handled].status  BY <3>1, <3>2 DEF member!Save
    <3>4. member_handled = Len(member_sent)  BY <3>1, <3>3
    <3>5. member_sent # <<>>
      <4>1. Len(member_sent) # 0  BY <1>a, <2>2
      <4>. QED  BY <4>1
    <3>. QED  BY <3>1, <3>3, <3>4, <3>5 DEF RowFollows
  <2>7. ~ member_again' => LastTells'  BY <2>1 DEF ProInv, LastTells
  <2>. QED  BY <1>0, <2>5, <2>6, <2>7 DEF ProInv
<1>. QED  BY <1>1, <1>2, <1>3, <1>4, <1>5, <1>6 DEF member!Next

LEMMA ProInit == ASSUME MembershipAssumption PROVE member!Init => ProInv
<1>. SUFFICES ASSUME member!Init PROVE ProInv  OBVIOUS
<1>. USE DEF member!Init, MembershipAssumption
<1>1. member_sent = <<>> /\ member_sent \in Seq(member!Message) /\ Len(member_sent) = 0  OBVIOUS
<1>2. member_handler \in [Handlers -> [message : 0 .. Len(member_sent), previous : member!Live \cup {"none", "canceled"}]]
      BY <1>1 DEF member!Idle
<1>3. member_mails \in [{"started", "failed", "ended"} -> 0 .. MaxMessages]  OBVIOUS
<1>4. member_state \in [Subs -> member!Live \cup {"none", "open", "canceled"}] /\ member_handled \in 0 .. Len(member_sent)
      BY <1>1
<1>5. member_row \in [status : member!Live \cup {"none", "canceled"}, sub : Subs \cup {0}]  BY DEF member!NoRow
<1>6. MemberTypes  BY <1>1, <1>2, <1>3, <1>4, <1>5 DEF MemberTypes, member!TypeOK, HoldsMessage
<1>. QED  BY <1>1, <1>6 DEF ProInv, InOrder, RowFollows, LastTells, member!IsPro, member!NoRow

\* SaveSubscription and Subscribe: once Stripe's messages were handled, in the order of
\* what they tell, the member is Pro by the row if a subscription is paid for and not
\* otherwise, as long as none was taken out while another was live.
THEOREM PayingIsPro == ASSUME MembershipAssumption PROVE member!Spec => [](member!TypeOK /\ member!WhoPaysIsPro)
<1>1. member!Init => ProInv  BY ProInit
<1>2. MembershipAssumption /\ ProInv /\ [member!Next]_(member!vars) => ProInv'  BY ProStep
<1>3. ProInv => member!TypeOK /\ member!WhoPaysIsPro
  <2>. SUFFICES ASSUME ProInv, member!Settled, ~ member_jumbled, ~ member_again
       PROVE  member!IsPro(member_row.status) <=> \E s \in Subs : member_state[s] = "active"
       BY DEF ProInv, MemberTypes, member!WhoPaysIsPro
  <2>1. CASE member_sent = <<>>  BY <2>1 DEF ProInv, RowFollows, LastTells
  <2>2. CASE member_sent # <<>>
    <3>1. member_sent[Len(member_sent)] \in member!Message  BY <2>2 DEF ProInv, MemberTypes, member!TypeOK
    <3>. QED  BY <2>2, <3>1 DEF ProInv, RowFollows, LastTells, member!IsPro, member!Message, member!Live
  <2>. QED  BY <2>1, <2>2
<1>. QED  BY <1>1, <1>2, <1>3, PTL DEF member!Spec
-----------------------------------------------------------------------------
\* The mail a message is about,
Kinds == {"started", "failed", "ended"}
Tells(kind, message) ==
    IF kind = "started" THEN message.kind = "checkout"
    ELSE /\ message.kind = "changed"
         /\ message.status = IF kind = "failed" THEN "past_due" ELSE "canceled"

\* those among the first n messages,
Telling(kind, n) == {m \in 1 .. n : m \in DOMAIN member_sent /\ Tells(kind, member_sent[m])}

\* and how many messages were handled to the end.
Through == IF \A h \in Handlers : member_handler[h] = member!Idle THEN member_handled ELSE member_handled - 1

\* While the messages come in order, each mail is one that a message was about.
MailsFollow == \A kind \in Kinds : member_mails[kind] <= Cardinality(Telling(kind, Through))

\* A subscription that was paid was told of by one checkout.
CheckoutOnce ==
    \A m \in DOMAIN member_sent : member_sent[m].kind = "checkout" =>
        /\ member_state[member_sent[m].sub] \notin {"none", "open"}
        /\ \A n \in DOMAIN member_sent :
               member_sent[n].kind = "checkout" /\ member_sent[n].sub = member_sent[m].sub => n = m

MailInv ==
    /\ ProInv /\ CheckoutOnce
    /\ ~ member_jumbled => MailsFollow

LEMMA TellingFinite ==
    ASSUME NEW kind, NEW n \in Nat
    PROVE  IsFiniteSet(Telling(kind, n)) /\ Cardinality(Telling(kind, n)) \in Nat
<1>1. IsFiniteSet(1 .. n) /\ Telling(kind, n) \subseteq 1 .. n  BY FS_Interval DEF Telling
<1>. QED  BY <1>1, FS_Subset, FS_CardinalityType

\* One message more to the end is one mail more at the most.
LEMMA TellingMore ==
    ASSUME NEW kind, NEW n \in Nat, n + 1 \in DOMAIN member_sent
    PROVE  /\ Cardinality(Telling(kind, n)) <= Cardinality(Telling(kind, n + 1))
           /\ Tells(kind, member_sent[n + 1]) =>
                  Cardinality(Telling(kind, n + 1)) = Cardinality(Telling(kind, n)) + 1
<1>1. /\ IsFiniteSet(Telling(kind, n)) /\ IsFiniteSet(Telling(kind, n + 1))
      /\ Cardinality(Telling(kind, n)) \in Nat
      BY TellingFinite
<1>2. Telling(kind, n) \subseteq Telling(kind, n + 1)  BY DEF Telling
<1>3. Cardinality(Telling(kind, n)) <= Cardinality(Telling(kind, n + 1))  BY <1>1, <1>2, FS_Subset
<1>4. ASSUME Tells(kind, member_sent[n + 1])
      PROVE  Telling(kind, n + 1) = Telling(kind, n) \cup {n + 1} /\ n + 1 \notin Telling(kind, n)
      BY <1>4 DEF Telling
<1>. QED  BY <1>1, <1>3, <1>4, FS_AddElement

\* Nothing was handled to the end and no mail was sent.
LEMMA MailsKept ==
    ASSUME MemberTypes, MailsFollow, member_mails' = member_mails, Through' = Through, Through \in Nat,
           Through <= Len(member_sent), \A m \in DOMAIN member_sent : m \in DOMAIN member_sent' /\ member_sent'[m] = member_sent[m]
    PROVE  MailsFollow'
<1>1. ASSUME NEW kind PROVE Telling(kind, Through)' = Telling(kind, Through)
  <2>1. \A m \in 1 .. Through : m \in DOMAIN member_sent  BY DEF MemberTypes, member!TypeOK
  <2>. QED  BY <2>1 DEF Telling
<1>. QED  BY <1>1 DEF MailsFollow

\* Two messages follow those that were sent.
LEMMA TwoMore ==
    ASSUME NEW S, NEW q \in Seq(S), NEW p \in Seq(S), Len(p) = 2
    PROVE  /\ DOMAIN (q \o p) = 1 .. Len(q) + 2
           /\ \A m \in DOMAIN q : (q \o p)[m] = q[m]
           /\ \A i \in {1, 2} : (q \o p)[Len(q) + i] = p[i]
<1>1. /\ q \o p \in Seq(S) /\ Len(q \o p) = Len(q) + Len(p)
      /\ \A i \in 1 .. Len(q) + Len(p) :
             (q \o p)[i] = IF i <= Len(q) THEN q[i] ELSE p[i - Len(q)]
      BY ConcatProperties
<1>2. Len(q) \in Nat /\ DOMAIN q = 1 .. Len(q)  BY LenProperties
<1>3. DOMAIN (q \o p) = 1 .. Len(q) + 2  BY <1>1, LenProperties
<1>4. \A m \in DOMAIN q : (q \o p)[m] = q[m]  BY <1>1, <1>2
<1>5. ASSUME NEW i \in {1, 2} PROVE (q \o p)[Len(q) + i] = p[i]
  <2>1. /\ Len(q) + i \in 1 .. Len(q) + Len(p) /\ ~ (Len(q) + i <= Len(q))
        /\ (Len(q) + i) - Len(q) = i
        BY <1>2
  <2>. QED  BY <1>1, <2>1
<1>. QED  BY <1>3, <1>4, <1>5

\* A checkout is told of when a subscription is paid, and it is paid once.
LEMMA CheckoutStep ==
    ASSUME MembershipAssumption, MemberTypes, CheckoutOnce, [member!Next]_(member!vars) PROVE CheckoutOnce'
<1>. USE DEF MemberTypes, member!TypeOK
<1>0. \A m \in DOMAIN member_sent : member_sent[m] \in member!Message  OBVIOUS
<1>a. Len(member_sent) \in Nat /\ DOMAIN member_sent = 1 .. Len(member_sent)  OBVIOUS
<1>1. CASE UNCHANGED member!vars  BY <1>1 DEF member!vars, CheckoutOnce
<1>2. ASSUME NEW s \in Subs, member!Subscribe(s) PROVE CheckoutOnce'
      BY <1>0, <1>2 DEF member!Subscribe, CheckoutOnce, member!Message
<1>3. ASSUME NEW s \in Subs, member!Pays(s) PROVE CheckoutOnce'
  <2>. DEFINE of(kind) == [kind |-> kind, sub |-> s, status |-> "active"]
  <2>1. PICK ms \in {<<of("checkout"), of("changed")>>, <<of("changed"), of("checkout")>>} : member!Tell(ms)
        BY <1>3 DEF member!Pays
  <2>2. PICK c \in {1, 2} : /\ ms[c] = of("checkout") /\ ms[3 - c] = of("changed")
                           /\ ms \in Seq({of("checkout"), of("changed")}) /\ Len(ms) = 2
    <3>1. CASE ms = <<of("checkout"), of("changed")>>  BY <3>1
    <3>2. CASE ms = <<of("changed"), of("checkout")>>  BY <3>2
    <3>. QED  BY <2>1, <3>1, <3>2
  <2>3. member_sent' = member_sent \o ms  BY <2>1 DEF member!Tell
  <2>4. /\ DOMAIN member_sent' = 1 .. Len(member_sent) + 2
        /\ \A m \in DOMAIN member_sent : member_sent'[m] = member_sent[m]
        /\ member_sent'[Len(member_sent) + c] = of("checkout") /\ member_sent'[Len(member_sent) + (3 - c)] = of("changed")
    <3>2. ms \in Seq(member!Message)
      <4>1. of("checkout") \in member!Message /\ of("changed") \in member!Message  BY DEF member!Message, member!Live
      <4>2. CASE ms = <<of("checkout"), of("changed")>>  BY <4>1, <4>2
      <4>3. CASE ms = <<of("changed"), of("checkout")>>  BY <4>1, <4>3
      <4>. QED  BY <2>1, <4>2, <4>3
    <3>3. c \in {1, 2} /\ 3 - c \in {1, 2} /\ Len(ms) = 2  BY <2>2
    <3>4. member_sent \in Seq(member!Message)  OBVIOUS
    <3>5. /\ DOMAIN member_sent' = 1 .. Len(member_sent) + 2
          /\ \A m \in DOMAIN member_sent : member_sent'[m] = member_sent[m]
          /\ member_sent'[Len(member_sent) + c] = ms[c] /\ member_sent'[Len(member_sent) + (3 - c)] = ms[3 - c]
          BY <2>3, <3>2, <3>3, <3>4, TwoMore
    <3>. QED  BY <2>2, <3>5
  <2>5. \A m \in DOMAIN member_sent' : \/ m \in DOMAIN member_sent /\ member_sent'[m] = member_sent[m]
                                \/ m = Len(member_sent) + c
                                \/ member_sent'[m].kind = "changed"
    <3>1. \A m \in 1 .. Len(member_sent) + 2 : \/ m \in 1 .. Len(member_sent)
                                        \/ m = Len(member_sent) + c \/ m = Len(member_sent) + (3 - c)
          BY <1>a, <2>2
    <3>2. member_sent'[Len(member_sent) + (3 - c)].kind = "changed"  BY <2>4
    <3>. QED  BY <1>a, <2>4, <3>1, <3>2
  <2>6. member_state[s] = "open" /\ member_state' = [member_state EXCEPT ![s] = "active"]  BY <1>3 DEF member!Pays
  <2>7. \A m \in DOMAIN member_sent : member_sent[m].kind = "checkout" => member_sent[m].sub # s
        BY <2>6 DEF CheckoutOnce
  <2>8. Len(member_sent) + c \notin DOMAIN member_sent  BY <1>a
  <2>. QED  BY <1>0, <2>4, <2>5, <2>6, <2>7, <2>8 DEF CheckoutOnce, member!Message
<1>4. ASSUME NEW s \in Subs, NEW to \in member!Live \cup {"canceled"}, member!Changes(s, to) PROVE CheckoutOnce'
  <2>. DEFINE k == [kind |-> "changed", sub |-> s, status |-> to]
  <2>1. member_sent' = member_sent \o <<k>>  BY <1>4 DEF member!Changes, member!Tell
  <2>2. \A m \in DOMAIN member_sent' : \/ m \in DOMAIN member_sent /\ member_sent'[m] = member_sent[m]
                                \/ member_sent'[m].kind = "changed"
        BY <1>a, <2>1
  <2>3. member_state[s] \in member!Live /\ member_state' = [member_state EXCEPT ![s] = to]  BY <1>4 DEF member!Changes
  <2>. QED  BY <1>0, <2>2, <2>3 DEF CheckoutOnce, member!Message, member!Live
<1>5. ASSUME NEW h \in Handlers, member!Receive(h) \/ member!Save(h) \/ member!Fails(h) PROVE CheckoutOnce'
      BY <1>5 DEF member!Receive, member!Save, member!Fails, CheckoutOnce
<1>. QED  BY <1>1, <1>2, <1>3, <1>4, <1>5 DEF member!Next

\* A mail goes out with the step that handles its message to the end.
LEMMA MailStep ==
    ASSUME MembershipAssumption, MailInv, [member!Next]_(member!vars) PROVE MailInv'
<1>0. ProInv /\ ProInv' /\ MemberTypes /\ member!TypeOK /\ member!TypeOK'  BY ProStep DEF MailInv, ProInv, MemberTypes
<1>1. CheckoutOnce'  BY <1>0, CheckoutStep DEF MailInv
<1>2. ~ member_jumbled' => MailsFollow'
  <2>. SUFFICES ASSUME ~ member_jumbled' PROVE MailsFollow'  OBVIOUS
  <2>0. ~ member_jumbled  BY <1>0 DEF member!Next, member!vars, member!Subscribe, member!Pays, member!Changes, member!Receive, member!Save, member!Fails, member!TypeOK
  <2>1. InOrder /\ MailsFollow  BY <2>0 DEF MailInv, ProInv
  <2>2. Len(member_sent) \in Nat /\ member_handled \in 0 .. Len(member_sent) /\ DOMAIN member_sent = 1 .. Len(member_sent)
        BY <1>0 DEF member!TypeOK
  <2>3. \A h \in Handlers : member_handler[h] = member!Idle \/ (member_handler[h].message = member_handled /\ member_handled >= 1)
        BY <1>0, <2>1, <2>2 DEF InOrder, MemberTypes, HoldsMessage
  <2>4. Through \in Nat /\ Through <= Len(member_sent)  BY <2>2, <2>3 DEF Through
  <2>5. CASE UNCHANGED member!vars
    <3>1. /\ member_mails' = member_mails /\ Through' = Through /\ member_sent' = member_sent  BY <2>5 DEF member!vars, Through
    <3>. QED  BY <1>0, <2>1, <2>4, <3>1, MailsKept
  <2>6. ASSUME NEW s \in Subs, member!Subscribe(s) \/ member!Pays(s) \/ \E to \in member!Live \cup {"canceled"} : member!Changes(s, to)
        PROVE  MailsFollow'
    <3>1. member_mails' = member_mails /\ Through' = Through  BY <2>6 DEF member!Subscribe, member!Pays, member!Changes, Through
    <3>2. \A m \in DOMAIN member_sent : m \in DOMAIN member_sent' /\ member_sent'[m] = member_sent[m]
      <4>1. member_sent' = member_sent \/ \E ms \in Seq(member!Message) : member_sent' = member_sent \o ms
        <5>. DEFINE of(kind) == [kind |-> kind, sub |-> s, status |-> "active"]
                    ch(to) == [kind |-> "changed", sub |-> s, status |-> to]
        <5>1. of("checkout") \in member!Message /\ of("changed") \in member!Message
              /\ \A to \in member!Live \cup {"canceled"} : ch(to) \in member!Message
              BY DEF member!Message, member!Live
        <5>2. CASE member!Subscribe(s)  BY <5>2 DEF member!Subscribe
        <5>3. CASE member!Pays(s)
          <6>1. member_sent' = member_sent \o <<of("checkout"), of("changed")>>
                \/ member_sent' = member_sent \o <<of("changed"), of("checkout")>>
                BY <5>3 DEF member!Pays, member!Tell
          <6>2. /\ <<of("checkout"), of("changed")>> \in Seq(member!Message)
                /\ <<of("changed"), of("checkout")>> \in Seq(member!Message)
                BY <5>1
          <6>. QED  BY <6>1, <6>2
        <5>4. ASSUME NEW to \in member!Live \cup {"canceled"}, member!Changes(s, to)
              PROVE  \E ms \in Seq(member!Message) : member_sent' = member_sent \o ms
          <6>1. member_sent' = member_sent \o <<ch(to)>>  BY <5>4 DEF member!Changes, member!Tell
          <6>2. <<ch(to)>> \in Seq(member!Message)  BY <5>1
          <6>. QED  BY <6>1, <6>2
        <5>. QED  BY <2>6, <5>2, <5>3, <5>4
      <4>2. member_sent \in Seq(member!Message)  BY <1>0 DEF member!TypeOK
      <4>3. ASSUME NEW q \in Seq(member!Message), NEW p \in Seq(member!Message)
            PROVE  \A m \in DOMAIN q : m \in DOMAIN (q \o p) /\ (q \o p)[m] = q[m]
            BY <4>3
      <4>. QED  BY <4>1, <4>2, <4>3
    <3>. QED  BY <1>0, <2>1, <2>4, <3>1, <3>2, MailsKept
  <2>7. ASSUME NEW h \in Handlers, member!Receive(h) PROVE MailsFollow'
    <3>1. PICK m \in DOMAIN member_sent :
            /\ member_handler' = [member_handler EXCEPT ![h] = [message |-> m, previous |-> member_row.status]]
            /\ member_jumbled' = (member_jumbled \/ m # member_handled + 1 \/ \E g \in Handlers : member_handler[g] # member!Idle)
            /\ member_handled' = IF m = member_handled + 1 THEN m ELSE member_handled
          BY <2>7 DEF member!Receive
    <3>2. /\ \A g \in Handlers : member_handler[g] = member!Idle
          /\ member_handled' = member_handled + 1
          BY <3>1
    <3>3. member_handler'[h] # member!Idle  BY <1>0, <2>2, <3>1 DEF member!TypeOK, member!Idle
    <3>4. Through' = Through  BY <2>2, <3>2, <3>3 DEF Through
    <3>5. member_mails' = member_mails /\ member_sent' = member_sent  BY <2>7 DEF member!Receive
    <3>. QED  BY <1>0, <2>1, <2>4, <3>4, <3>5, MailsKept
  <2>8. ASSUME NEW h \in Handlers, member!Save(h) \/ member!Fails(h)
        PROVE  /\ member_handler[h].message = member_handled /\ member_handled \in DOMAIN member_sent
               /\ Through = member_handled - 1 /\ Through' = member_handled' /\ member_sent' = member_sent
    <3>1. /\ member_handler[h] # member!Idle /\ member_handler' = [member_handler EXCEPT ![h] = member!Idle] /\ member_sent' = member_sent
          BY <2>8 DEF member!Save, member!Fails
    <3>2. \A g \in Handlers : g = h \/ member_handler[g] = member!Idle  BY <2>1, <3>1 DEF InOrder
    <3>3. \A g \in Handlers : member_handler'[g] = member!Idle  BY <1>0, <3>1, <3>2 DEF member!TypeOK
    <3>. QED  BY <2>2, <2>3, <3>1, <3>3 DEF Through
  <2>9. ASSUME NEW h \in Handlers, member!Fails(h) PROVE MailsFollow'
    <3>1. Through' = Through /\ member_mails' = member_mails /\ member_sent' = member_sent  BY <2>2, <2>8, <2>9 DEF member!Fails
    <3>. QED  BY <1>0, <2>1, <2>4, <3>1, MailsKept
  <2>10. ASSUME NEW h \in Handlers, member!Save(h) PROVE MailsFollow'
    <3>. DEFINE m == member_sent[member_handled]  n == Through
    <3>1. m \in member!Message /\ n + 1 = member_handled /\ n \in Nat /\ n + 1 \in DOMAIN member_sent
          BY <1>0, <2>2, <2>4, <2>8, <2>10 DEF member!TypeOK
    <3>2. Through' = n + 1 /\ member_sent' = member_sent  BY <2>8, <2>10, <3>1 DEF member!Save
    <3>3. member_mails' = [k \in DOMAIN member_mails |->
              IF k \in member!Mail(m.kind, member_handler[h].previous, m.status) THEN member!Least(member_mails[k] + 1, MaxMessages)
              ELSE member_mails[k]]
          BY <2>8, <2>10 DEF member!Save
    <3>4. ASSUME NEW k \in Kinds PROVE member_mails'[k] <= Cardinality(Telling(k, Through))'
      <4>1. member_mails[k] \in Nat /\ member_mails[k] <= Cardinality(Telling(k, n))
            /\ Cardinality(Telling(k, n)) \in Nat /\ Cardinality(Telling(k, n + 1)) \in Nat
        <5>1. member_mails \in [Kinds -> 0 .. MaxMessages]  BY <1>0 DEF member!TypeOK, Kinds
        <5>. QED  BY <2>1, <3>1, <5>1, TellingFinite DEF MailsFollow, MembershipAssumption
      <4>2. Telling(k, Through)' = Telling(k, n + 1)  BY <3>2 DEF Telling
      <4>3. k \in member!Mail(m.kind, member_handler[h].previous, m.status) => Tells(k, m)
            BY <3>1 DEF member!Mail, Tells, member!Message, Kinds
      <4>4. /\ Cardinality(Telling(k, n)) <= Cardinality(Telling(k, n + 1))
            /\ Tells(k, member_sent[n + 1]) =>
                  Cardinality(Telling(k, n + 1)) = Cardinality(Telling(k, n)) + 1
            BY <3>1, TellingMore
      <4>5. /\ member_mails'[k] \in {member_mails[k], member!Least(member_mails[k] + 1, MaxMessages)}
            /\ member_mails'[k] = member_mails[k] \/ Tells(k, m)
        <5>1. k \in DOMAIN member_mails  BY <1>0 DEF member!TypeOK, Kinds
        <5>. QED  BY <3>3, <4>3, <5>1
      <4>6. member!Least(member_mails[k] + 1, MaxMessages) <= member_mails[k] + 1 /\ member!Least(member_mails[k] + 1, MaxMessages) \in Nat
            BY <4>1 DEF member!Least, MembershipAssumption
      <4>7. member_sent[n + 1] = m  BY <3>1
      <4>. HIDE DEF m, n
      <4>. QED  BY <4>1, <4>2, <4>4, <4>5, <4>6, <4>7
    <3>. QED  BY <3>4 DEF MailsFollow
  <2>. QED  BY <2>5, <2>6, <2>7, <2>9, <2>10 DEF member!Next
<1>. QED  BY <1>0, <1>1, <1>2 DEF MailInv

LEMMA MailInit == ASSUME MembershipAssumption PROVE member!Init => MailInv
<1>. SUFFICES ASSUME member!Init PROVE MailInv  OBVIOUS
<1>1. ProInv  BY ProInit
<1>2. CheckoutOnce  BY DEF member!Init, CheckoutOnce
<1>3. Through = 0  BY DEF member!Init, Through
<1>4. ASSUME NEW kind \in Kinds PROVE member_mails[kind] <= Cardinality(Telling(kind, Through))
  <2>1. member_mails[kind] = 0  BY DEF member!Init, Kinds
  <2>2. Cardinality(Telling(kind, 0)) \in Nat  BY TellingFinite
  <2>. QED  BY <1>3, <2>1, <2>2
<1>. QED  BY <1>1, <1>2, <1>4 DEF MailInv, MailsFollow

\* As many checkouts were told of as subscriptions were paid, at the most.
LEMMA CheckoutsFewer ==
    ASSUME MailInv, IsFiniteSet(Subs)
    PROVE  Cardinality(Telling("started", Len(member_sent)))
               <= Cardinality({s \in Subs : member_state[s] \notin {"none", "open"}})
<1>. DEFINE S == Telling("started", Len(member_sent))
            T == {s \in Subs : member_state[s] \notin {"none", "open"}}
            f == [m \in S |-> member_sent[m].sub]
<1>1. \A m \in DOMAIN member_sent : member_sent[m] \in member!Message  BY DEF MailInv, ProInv, MemberTypes, member!TypeOK
<1>2. \A m \in S : m \in DOMAIN member_sent /\ member_sent[m].kind = "checkout"  BY DEF Telling, Tells
<1>3. f \in [S -> T]  BY <1>1, <1>2 DEF MailInv, CheckoutOnce, member!Message
<1>4. \A a, b \in S : f[a] = f[b] => a = b  BY <1>2 DEF MailInv, CheckoutOnce
<1>5. IsFiniteSet(T)  BY FS_Subset
<1>. HIDE DEF S, T, f
<1>6. f \in Injection(S, T)  BY <1>3, <1>4, Fun_IsInj
<1>7. Cardinality(S) <= Cardinality(T)  BY <1>5, <1>6, FS_Injection
<1>. QED  BY <1>7 DEF S, T

\* Membership counts as this module does.
LEMMA MembersCount == \A S : member!Cardinality(S) = Cardinality(S)
BY Zenon DEF member!Cardinality, Cardinality

\* subscriptionStarted and subscriptionChanged: the row is read before it is saved, and no
\* more mails go out than memberships began, payments failed and memberships ended, though
\* a request may fail after it saved and be repeated.
THEOREM MailedOnce ==
    ASSUME MembershipAssumption, IsFiniteSet(Subs) PROVE member!Spec => []member!NoMailTwice
<1>1. member!Init => MailInv  BY MailInit
<1>2. MailInv /\ [member!Next]_(member!vars) => MailInv'  BY MailStep
<1>3. MailInv => member!NoMailTwice
  <2>. SUFFICES ASSUME MailInv, member!Settled, ~ member_jumbled
       PROVE  /\ member_mails.started <= Cardinality({s \in Subs : member_state[s] \notin {"none", "open"}})
              /\ member_mails.failed <= member!Told("past_due") /\ member_mails.ended <= member!Told("canceled")
       BY MembersCount DEF member!NoMailTwice
  <2>1. Through = Len(member_sent) /\ Len(member_sent) \in Nat /\ DOMAIN member_sent = 1 .. Len(member_sent)
        BY DEF member!Settled, Through, MailInv, ProInv, MemberTypes, member!TypeOK
  <2>2. \A kind \in Kinds : member_mails[kind] <= Cardinality(Telling(kind, Len(member_sent)))
        BY <2>1 DEF MailInv, MailsFollow
  <2>3. /\ member!Told("past_due") = Cardinality(Telling("failed", Len(member_sent)))
        /\ member!Told("canceled") = Cardinality(Telling("ended", Len(member_sent)))
    <3>1. Telling("failed", Len(member_sent)) =
              {m \in 1 .. Len(member_sent) : member_sent[m].kind = "changed" /\ member_sent[m].status = "past_due"}
          BY <2>1 DEF Telling, Tells
    <3>2. Telling("ended", Len(member_sent)) =
              {m \in 1 .. Len(member_sent) : member_sent[m].kind = "changed" /\ member_sent[m].status = "canceled"}
          BY <2>1 DEF Telling, Tells
    <3>. QED  BY <3>1, <3>2, MembersCount DEF member!Told
  <2>4. /\ Cardinality(Telling("started", Len(member_sent))) \in Nat
        /\ Cardinality({s \in Subs : member_state[s] \notin {"none", "open"}}) \in Nat
    <3>1. IsFiniteSet({s \in Subs : member_state[s] \notin {"none", "open"}})  BY FS_Subset
    <3>. QED  BY <2>1, <3>1, TellingFinite, FS_CardinalityType
  <2>5. member_mails.started \in Nat /\ member_mails.failed \in Nat /\ member_mails.ended \in Nat
    <3>1. member_mails \in [Kinds -> 0 .. MaxMessages]
          BY DEF MailInv, ProInv, MemberTypes, member!TypeOK, Kinds
    <3>. QED  BY <3>1 DEF Kinds, MembershipAssumption
  <2>6. member_mails.started <= Cardinality({s \in Subs : member_state[s] \notin {"none", "open"}})
    <3>1. member_mails.started <= Cardinality(Telling("started", Len(member_sent)))  BY <2>2 DEF Kinds
    <3>. QED  BY <2>4, <2>5, <3>1, CheckoutsFewer
  <2>7. member_mails.failed <= member!Told("past_due") /\ member_mails.ended <= member!Told("canceled")
        BY <2>2, <2>3 DEF Kinds
  <2>. QED  BY <2>6, <2>7
<1>. QED  BY <1>1, <1>2, <1>3, PTL DEF member!Spec

-----------------------------------------------------------------------------
\* A request that has counted came with a key, and is one of those `ahead` remembers.
CapInv ==
    /\ cap!TypeOK
    /\ \A r \in cap!Counted : cap_request[r].key \in Keys
    /\ Cardinality(cap!Counted) <= cap_ahead
    /\ cap!PassedOnlyTogether

-----------------------------------------------------------------------------
\* OpenCap counts as this module does.
LEMMA SameCount == \A S : cap!Cardinality(S) = Cardinality(S)
BY Zenon DEF cap!Cardinality, Cardinality

\* Open rows and requests that have counted are finitely many.
LEMMA CapNumbers ==
    ASSUME CapAssumption
    PROVE  /\ IsFiniteSet(cap!Open) /\ IsFiniteSet(cap!Counted)
           /\ Cardinality(cap!Open) \in Nat /\ Cardinality(cap!Counted) \in Nat
<1>1. cap!Open \subseteq Keys /\ cap!Counted \subseteq Requests  BY DEF cap!Open, cap!Counted
<1>2. IsFiniteSet(cap!Open) /\ IsFiniteSet(cap!Counted)  BY <1>1, FS_Subset DEF CapAssumption
<1>. QED  BY <1>2, FS_CardinalityType

\* What a request goes to, and how many have counted then.
LEMMA GotoCounts ==
    ASSUME CapAssumption, CapInv, NEW r \in Requests, NEW to, cap!Goto(r, to),
           to \in [step : {"idle", "counted"}, key : Keys \cup {0}]
    PROVE  /\ cap_request' = [cap_request EXCEPT ![r] = to]
           /\ cap_request' \in [Requests -> [step : {"idle", "counted"}, key : Keys \cup {0}]]
           /\ cap!Counted' = IF to.step = "counted" THEN cap!Counted \cup {r} ELSE cap!Counted \ {r}
           /\ Cardinality(cap!Counted') \in Nat /\ IsFiniteSet(cap!Counted')
           /\ Cardinality(cap!Counted') <= Cardinality(Requests)
           /\ cap_ahead' \in 0 .. Cardinality(Requests)
           /\ Cardinality(cap!Counted') <= cap_ahead' /\ cap_ahead <= cap_ahead'
           /\ cap_ahead' = IF Cardinality(cap!Counted') > cap_ahead THEN Cardinality(cap!Counted') ELSE cap_ahead
<1>1. cap_request' = [cap_request EXCEPT ![r] = to]  BY DEF cap!Goto
<1>2. cap_request' \in [Requests -> [step : {"idle", "counted"}, key : Keys \cup {0}]]
      BY <1>1 DEF CapInv, cap!TypeOK
<1>3. cap!Counted' = IF to.step = "counted" THEN cap!Counted \cup {r} ELSE cap!Counted \ {r}
      BY <1>1 DEF CapInv, cap!TypeOK, cap!Counted
<1>4. cap!Counted' \subseteq Requests  BY DEF cap!Counted
<1>5. /\ Cardinality(cap!Counted') \in Nat /\ IsFiniteSet(cap!Counted')
      /\ Cardinality(Requests) \in Nat /\ Cardinality(cap!Counted') <= Cardinality(Requests)
      BY <1>4, FS_Subset, FS_CardinalityType DEF CapAssumption
<1>6. cap_ahead' = IF Cardinality(cap!Counted') > cap_ahead THEN Cardinality(cap!Counted') ELSE cap_ahead
      BY SameCount DEF cap!Goto, cap!Counted
<1>7. cap_ahead \in 0 .. Cardinality(Requests)  BY SameCount DEF CapInv, cap!TypeOK
<1>. QED  BY <1>1, <1>2, <1>3, <1>5, <1>6, <1>7

\* A step by which no more rows are open and requests counted, together, than before.
LEMMA NoneAdded ==
    ASSUME CapAssumption, CapInv, cap!TypeOK', cap_ahead' = cap_ahead,
           \A r \in cap!Counted' : r \in cap!Counted /\ cap_request'[r] = cap_request[r],
           Cardinality(cap!Counted') \in Nat, Cardinality(cap!Open') \in Nat,
           Cardinality(cap!Counted') <= Cardinality(cap!Counted),
           Cardinality(cap!Open') + Cardinality(cap!Counted') <= Cardinality(cap!Open) + Cardinality(cap!Counted)
    PROVE  CapInv'
<1>1. Cardinality(cap!Open) \in Nat /\ Cardinality(cap!Counted) \in Nat  BY CapNumbers
<1>2. cap_ahead \in Nat
  <2>1. Cardinality(Requests) \in Nat  BY FS_CardinalityType DEF CapAssumption
  <2>. QED  BY <2>1 DEF CapInv, cap!TypeOK
<1>3. OpenLimit \in Nat  BY DEF CapAssumption
<1>4. cap!PassedOnlyTogether'  BY <1>1, <1>2, <1>3, SameCount DEF CapInv, cap!PassedOnlyTogether
<1>5. Cardinality(cap!Counted') <= cap_ahead'  BY <1>1, <1>2 DEF CapInv
<1>. QED  BY <1>4, <1>5 DEF CapInv

\* Nobody has counted before anybody came.
LEMMA CapInit == ASSUME CapAssumption PROVE cap!Init => CapInv
<1>. SUFFICES ASSUME cap!Init PROVE CapInv  OBVIOUS
<1>1. Cardinality(Requests) \in Nat  BY FS_CardinalityType DEF CapAssumption
<1>2. cap!TypeOK  BY <1>1, SameCount DEF cap!Init, cap!TypeOK, cap!Idle
<1>3. cap!Counted = {}  BY DEF cap!Init, cap!Idle, cap!Counted
<1>4. Cardinality(cap!Counted) = 0  BY <1>3, FS_EmptySet
<1>. QED  BY <1>2, <1>3, <1>4 DEF CapInv, cap!Init, cap!PassedOnlyTogether

\* Counting takes one of the rows the cap has room for, or makes one more that counted
\* at once; storing turns a count into a row, and everything else gives something up.
LEMMA CapStep == ASSUME CapAssumption PROVE CapInv /\ [cap!Next]_(cap!vars) => CapInv'
<1>. SUFFICES ASSUME CapInv, [cap!Next]_(cap!vars) PROVE CapInv'  OBVIOUS
<1>0. /\ IsFiniteSet(cap!Open) /\ IsFiniteSet(cap!Counted)
      /\ Cardinality(cap!Open) \in Nat /\ Cardinality(cap!Counted) \in Nat
      BY CapNumbers
<1>a. Cardinality(Requests) \in Nat /\ OpenLimit \in Nat  BY FS_CardinalityType DEF CapAssumption
<1>b. cap_ahead \in Nat /\ cap!TypeOK  BY <1>a DEF CapInv, cap!TypeOK
<1>1. CASE UNCHANGED cap!vars
      BY <1>1 DEF cap!vars, CapInv, cap!TypeOK, cap!Counted, cap!Open, cap!PassedOnlyTogether
<1>2. ASSUME NEW r \in Requests, cap!Count(r) PROVE CapInv'
  <2>1. PICK k \in Keys : cap!Goto(r, [step |-> "counted", key |-> k])  BY <1>2 DEF cap!Count
  <2>. DEFINE to == [step |-> "counted", key |-> k]
  <2>2. to \in [step : {"idle", "counted"}, key : Keys \cup {0}] /\ to.step = "counted"  OBVIOUS
  <2>3. /\ cap_request' = [cap_request EXCEPT ![r] = to]
        /\ cap_request' \in [Requests -> [step : {"idle", "counted"}, key : Keys \cup {0}]]
        /\ cap!Counted' = cap!Counted \cup {r}
        /\ Cardinality(cap!Counted') \in Nat /\ Cardinality(cap!Counted') <= cap_ahead'
        /\ cap_ahead' \in 0 .. Cardinality(Requests)
        BY <2>1, <2>2, GotoCounts
  <2>4. cap!Open' = cap!Open /\ cap_rows' = cap_rows  BY <1>2 DEF cap!Count, cap!Open
  <2>5. Cardinality(cap!Open) + 1 <= OpenLimit  BY <1>0, <1>2, <1>a, SameCount DEF cap!Count
  <2>6. cap!TypeOK'  BY SameCount, <1>b, <2>3, <2>4 DEF cap!TypeOK
  <2>7. cap!PassedOnlyTogether'
        BY <1>0, <1>a, <2>3, <2>4, <2>5, SameCount DEF cap!PassedOnlyTogether
  <2>8. \A s \in cap!Counted' : cap_request'[s].key \in Keys
        BY <1>b, <2>3 DEF CapInv, cap!TypeOK
  <2>. QED  BY <2>3, <2>6, <2>7, <2>8 DEF CapInv
<1>3. ASSUME NEW r \in Requests, r \in cap!Counted, cap!Goto(r, cap!Idle)
      PROVE  /\ cap_request' \in [Requests -> [step : {"idle", "counted"}, key : Keys \cup {0}]]
             /\ cap!Counted' = cap!Counted \ {r} /\ cap_ahead' = cap_ahead
             /\ Cardinality(cap!Counted') = Cardinality(cap!Counted) - 1
             /\ Cardinality(cap!Counted') \in Nat
             /\ \A s \in cap!Counted' : s \in cap!Counted /\ cap_request'[s] = cap_request[s]
  <2>1. cap!Idle \in [step : {"idle", "counted"}, key : Keys \cup {0}] /\ cap!Idle.step # "counted"
        BY DEF cap!Idle
  <2>2. /\ cap_request' = [cap_request EXCEPT ![r] = cap!Idle]
        /\ cap_request' \in [Requests -> [step : {"idle", "counted"}, key : Keys \cup {0}]]
        /\ cap!Counted' = cap!Counted \ {r}
        /\ cap_ahead' = IF Cardinality(cap!Counted') > cap_ahead THEN Cardinality(cap!Counted') ELSE cap_ahead
        /\ Cardinality(cap!Counted') \in Nat
        BY <1>3, <2>1, GotoCounts
  <2>3. Cardinality(cap!Counted') = Cardinality(cap!Counted) - 1
        BY <1>0, <1>3, <2>2, FS_RemoveElement
  <2>4. cap_ahead' = cap_ahead  BY <1>0, <1>b, <2>2, <2>3 DEF CapInv
  <2>. QED  BY <1>b, <2>2, <2>3, <2>4 DEF cap!TypeOK
<1>4. ASSUME NEW r \in Requests, cap!Create(r) PROVE CapInv'
  <2>. DEFINE k == cap_request[r].key
  <2>1. r \in cap!Counted /\ k \in Keys  BY <1>4 DEF cap!Create, cap!Counted, CapInv
  <2>2. cap_rows' = [cap_rows EXCEPT ![k] = IF @ = "none" THEN "open" ELSE @]  BY <1>4 DEF cap!Create
  <2>3. /\ cap_request' \in [Requests -> [step : {"idle", "counted"}, key : Keys \cup {0}]]
        /\ cap_ahead' = cap_ahead /\ Cardinality(cap!Counted') = Cardinality(cap!Counted) - 1
        /\ Cardinality(cap!Counted') \in Nat
        /\ \A s \in cap!Counted' : s \in cap!Counted /\ cap_request'[s] = cap_request[s]
        BY <1>3, <1>4, <2>1 DEF cap!Create
  <2>. HIDE DEF k
  <2>4. cap!Open' \subseteq cap!Open \cup {k} /\ cap!Open' \subseteq Keys
        BY <1>b, <2>1, <2>2 DEF cap!Open, cap!TypeOK
  <2>5. Cardinality(cap!Open') \in Nat /\ Cardinality(cap!Open') <= Cardinality(cap!Open) + 1
    <3>1. /\ IsFiniteSet(cap!Open \cup {k})
          /\ Cardinality(cap!Open \cup {k}) \in Nat
          /\ Cardinality(cap!Open \cup {k}) <= Cardinality(cap!Open) + 1
      <4>1. /\ IsFiniteSet(cap!Open \cup {k})
            /\ Cardinality(cap!Open \cup {k}) =
                   IF k \in cap!Open THEN Cardinality(cap!Open) ELSE Cardinality(cap!Open) + 1
            BY <1>0, FS_AddElement
      <4>. QED  BY <1>0, <4>1
    <3>. QED  BY <2>4, <3>1, <1>0, FS_Subset, FS_CardinalityType
  <2>6. cap!TypeOK'  BY SameCount, <1>b, <2>1, <2>2, <2>3 DEF cap!TypeOK
  <2>. QED  BY <1>0, <2>3, <2>5, <2>6, NoneAdded
<1>5. ASSUME NEW r \in Requests, cap!Die(r) PROVE CapInv'
  <2>1. r \in cap!Counted /\ cap_rows' = cap_rows  BY <1>5 DEF cap!Die, cap!Counted
  <2>2. /\ cap_request' \in [Requests -> [step : {"idle", "counted"}, key : Keys \cup {0}]]
        /\ cap_ahead' = cap_ahead /\ Cardinality(cap!Counted') = Cardinality(cap!Counted) - 1
        /\ Cardinality(cap!Counted') \in Nat
        /\ \A s \in cap!Counted' : s \in cap!Counted /\ cap_request'[s] = cap_request[s]
        BY <1>3, <1>5, <2>1 DEF cap!Die
  <2>3. cap!Open' = cap!Open  BY <2>1 DEF cap!Open
  <2>4. cap!TypeOK'  BY SameCount, <1>b, <2>1, <2>2 DEF cap!TypeOK
  <2>. QED  BY <1>0, <2>2, <2>3, <2>4, NoneAdded
<1>6. ASSUME NEW k \in Keys, cap!Ends(k) PROVE CapInv'
  <2>1. cap!Counted' = cap!Counted /\ cap_request' = cap_request /\ cap_ahead' = cap_ahead  BY <1>6 DEF cap!Ends, cap!Counted
  <2>2. cap!Open' \subseteq cap!Open  BY <1>6, <1>b DEF cap!Ends, cap!Open, cap!TypeOK
  <2>3. Cardinality(cap!Open') \in Nat /\ Cardinality(cap!Open') <= Cardinality(cap!Open)
        BY <1>0, <2>2, FS_Subset, FS_CardinalityType
  <2>4. cap!TypeOK'  BY <1>6, <1>b DEF cap!Ends, cap!TypeOK
  <2>. QED  BY <1>0, <2>1, <2>3, <2>4, NoneAdded
<1>. QED  BY <1>1, <1>2, <1>4, <1>5, <1>6 DEF cap!Next

\* CountActive and Create: a cap on open rows is passed by no more than the requests that
\* counted at once beyond the first, whatever dies, ends or is repeated.
THEOREM CapsPassedOnlyTogether ==
    ASSUME CapAssumption PROVE cap!Spec => [](cap!TypeOK /\ cap!PassedOnlyTogether)
<1>1. cap!Init => CapInv  BY CapInit
<1>2. CapInv /\ [cap!Next]_(cap!vars) => CapInv'  BY CapStep
<1>3. CapInv => cap!TypeOK /\ cap!PassedOnlyTogether  BY DEF CapInv
<1>. QED  BY <1>1, <1>2, <1>3, PTL DEF cap!Spec

-----------------------------------------------------------------------------
\* A behaviour of the whole is one of each part.
LEMMA PartsRun == MoneySpec => Spec /\ pay!Spec /\ member!Spec /\ cap!Spec /\ [](part \in Parts)
<1>1. MoneyInit => Init /\ pay!Init /\ member!Init /\ cap!Init /\ part \in Parts
      BY DEF MoneyInit
<1>2. [MoneyNext]_MoneyVars => [Next]_vars
      BY DEF MoneyNext, MoneyVars
<1>3. [MoneyNext]_MoneyVars => [pay!Next]_(pay!vars)
      BY DEF MoneyNext, MoneyVars, payVars, pay!vars
<1>4. [MoneyNext]_MoneyVars => [member!Next]_(member!vars)
      BY DEF MoneyNext, MoneyVars, memberVars, member!vars
<1>5. [MoneyNext]_MoneyVars => [cap!Next]_(cap!vars)
      BY DEF MoneyNext, MoneyVars, capVars, cap!vars
<1>6. part \in Parts /\ [MoneyNext]_MoneyVars => (part \in Parts)'
      BY DEF MoneyNext, MoneyVars
<1>. QED  BY <1>1, <1>2, <1>3, <1>4, <1>5, <1>6, PTL DEF MoneySpec, Spec, pay!Spec, member!Spec, cap!Spec

\* Whatever part a behaviour is about, its variables stay what they are declared to be.
THEOREM MoneyTypeCorrect == MoneySpec => []AllTypes
<1>1. /\ UsageAssumption /\ Percent >= 100 /\ Jobs # {}
      /\ PackAssumption /\ IsFiniteSet(Handlers)
      /\ MembershipAssumption /\ IsFiniteSet(Subs) /\ CapAssumption
      BY MoneyAssumption
<1>2. UsageInv => TypeOK  BY DEF UsageInv
<1>3. TypeOK /\ pay!TypeOK /\ member!TypeOK /\ cap!TypeOK => AllTypes  BY DEF AllTypes
<1>. QED  BY <1>1, <1>2, <1>3, PartsRun, UsageInvariant, PacksAreAddedOnce, PayingIsPro,
             CapsPassedOnlyTogether, PTL

\* JobBiller, Paid and Refunded: the two ways of paying and the refunds of a pack keep
\* every credit and point accounted for, for any prices, limits, packs and times.
THEOREM MoneyIsAccountedFor == MoneySpec => []MoneyAddsUp
<1>1. /\ UsageAssumption /\ Percent >= 100 /\ Jobs # {}
      /\ PackAssumption /\ IsFiniteSet(Handlers)
      /\ MembershipAssumption /\ IsFiniteSet(Subs) /\ CapAssumption
      BY MoneyAssumption
<1>2. /\ WindowsAddUp /\ CreditsAddUp /\ CreditsFollowOutcome /\ PointsFollowOutcome
      /\ pay!PackIsAddedOnce /\ pay!NeverSaysTooMuch /\ pay!RefundTakesItsShare
      => MoneyAddsUp
      BY DEF MoneyAddsUp
<1>. QED  BY <1>1, <1>2, PartsRun, ChargesAddUp, CreditsFollow, PointsFollow, PacksAreAddedOnce,
             RowNeverLeads, RefundsTakeTheirShare, PTL

\* Reserve, checkDailyLimit, CountActive and the handling of Stripe's messages: what each
\* limit and plan promises holds for any limits, subscriptions and requests at once.
THEOREM LimitsAreKept == MoneySpec => PlansAndLimitsHold
<1>1. /\ UsageAssumption /\ Percent >= 100 /\ Jobs # {}
      /\ PackAssumption /\ IsFiniteSet(Handlers)
      /\ MembershipAssumption /\ IsFiniteSet(Subs) /\ CapAssumption
      BY MoneyAssumption
<1>. QED  BY <1>1, PartsRun, WindowsOvershoot, OverageUnderCap, PayingIsPro, MailedOnce,
             CapsPassedOnlyTogether, DayLimitKept, RefundsAreFinal, PTL DEF PlansAndLimitsHold
=============================================================================
