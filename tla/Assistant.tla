------------------------------- MODULE Assistant -------------------------------
(* The studio's assistant (hooks/use-assistant.ts) and the panel that shows it:    *)
(* one message at a time, whose answer edits the timeline and may ask to watch a    *)
(* clip, to make a scene or to remember a fact; and the wait for a scene's job      *)
(* (lib/go-api/wait-for-job.ts) by pushes, a slow check and a deadline.             *)
(*                                                                                *)
(* Each opening of the AI tab is a panel of its own with an empty chat; what the    *)
(* panel before was waiting for goes on without it.  A message is known by the      *)
(* card its answer may propose.                                                     *)
EXTENDS Integers, Sequences

CONSTANTS
    Asks,       \* messages the person sends, and the cards they lead to
    Scenes,     \* bound: messages whose answer may propose a scene
    Facts,      \* bound: messages whose answer may propose a fact
    MaxPanels,  \* bound: openings of the tab
    MaxLooks    \* bound: looks at one job that wait for an answer at once


VARIABLES
    panel, shown,   \* the latest opening of the tab, and whether it is on screen
    busy,           \* a message of this panel is being worked on
    sent,           \* sent[a] : the panel message a was sent from, 0 before
    step,           \* step[a] : what its send waits for
    todo,           \* todo[a] : the requests of its answer still to handle, in order
    card, fact,     \* the scene and the memory the answer proposes
    keeping, kept,  \* facts on their way to the server, and those it keeps
    flow,           \* flow[a] : what confirmScene waits for
    looks,          \* looks[a] : looks at the job under way
    job,            \* job[a] : the scene's job at the server
    clips,          \* the scenes on the timeline
    late,           \* history: waits that ran out of time, or whose job could not be read
    rejected        \* history: messages one of whose calls never reached the server

vars == <<panel, shown, busy, sent, step, todo, card, fact, keeping, kept, flow, looks,
          job, clips, late, rejected>>
chat == <<panel, shown, busy, sent, step, todo>>
memory == <<fact, keeping, kept>>
scene == <<card, flow, looks, job, clips, late>>

CardStates == {"none", "ready", "working", "done", "failed", "dismissed", "gone"}
FactStates == {"none", "ready", "saving", "saved", "failed", "dismissed", "gone"}
Answered == {<<>>, <<"watch">>, <<"scene">>, <<"watch", "scene">>, <<"scene", "watch">>}

TypeOK ==
    /\ panel \in 0 .. MaxPanels /\ shown \in BOOLEAN /\ busy \in BOOLEAN
    /\ sent \in [Asks -> 0 .. MaxPanels]
    /\ step \in [Asks -> {"idle", "asking", "handling"}]
    /\ todo \in [Asks -> Answered]
    /\ keeping \subseteq Asks /\ kept \subseteq Asks /\ clips \subseteq Asks
    /\ card \in [Asks -> CardStates] /\ fact \in [Asks -> FactStates]
    /\ flow \in [Asks -> {"idle", "starting", "waiting", "copying"}]
    /\ looks \in [Asks -> 0 .. MaxLooks]
    /\ job \in [Asks -> {"none", "working", "done", "failed"}]
    /\ late \subseteq Asks /\ rejected \subseteq Asks

-----------------------------------------------------------------------------
\* The panel of message a is the one on screen: what it shows can still change.
Alive(a) == shown /\ sent[a] = panel

\* setMessages on the list of a panel: a message that was cleared stays away.
Patched(f, a, s) == IF Alive(a) /\ f[a] # "gone" THEN [f EXCEPT ![a] = s] ELSE f
Dropped(f) == [a \in Asks |-> IF f[a] = "none" THEN "none" ELSE "gone"]

OpenTab ==
    /\ ~ shown /\ panel < MaxPanels
    /\ panel' = panel + 1 /\ shown' = TRUE /\ busy' = FALSE
    /\ UNCHANGED <<sent, step, todo, memory, scene, rejected>>

CloseTab ==
    /\ shown /\ shown' = FALSE
    /\ card' = Dropped(card) /\ fact' = Dropped(fact)
    /\ UNCHANGED <<panel, busy, sent, step, todo, keeping, kept, flow, looks, job, clips, late, rejected>>

Clear ==
    /\ shown
    /\ card' = Dropped(card) /\ fact' = Dropped(fact)
    /\ UNCHANGED <<chat, keeping, kept, flow, looks, job, clips, late, rejected>>

-----------------------------------------------------------------------------
(* A message *)

Send(a) ==
    /\ shown /\ ~ busy /\ sent[a] = 0
    /\ busy' = TRUE
    /\ sent' = [sent EXCEPT ![a] = panel] /\ step' = [step EXCEPT ![a] = "asking"]
    /\ UNCHANGED <<panel, shown, todo, memory, scene, rejected>>

Ended(a) ==
    /\ step' = [step EXCEPT ![a] = "idle"]
    /\ busy' = IF Alive(a) THEN FALSE ELSE busy

Refused(a) ==
    /\ step[a] = "asking"
    /\ Ended(a)
    /\ UNCHANGED <<panel, shown, sent, todo, memory, scene, rejected>>

\* The answer's edits go to the project as it is by now, as one step of its history
\* (Editor's Edit); its requests wait in line.
Answer(a) ==
    /\ step[a] = "asking"
    /\ \E f \in {"none"} \cup (IF a \in Facts THEN {"ready"} ELSE {}) :
          fact' = IF Alive(a) THEN [fact EXCEPT ![a] = f] ELSE fact
    /\ \E q \in IF a \in Scenes THEN Answered ELSE {<<>>, <<"watch">>} :
          /\ todo' = [todo EXCEPT ![a] = q]
          /\ IF q = <<>> THEN Ended(a) ELSE step' = [step EXCEPT ![a] = "handling"] /\ UNCHANGED busy
    /\ UNCHANGED <<panel, shown, sent, keeping, kept, scene, rejected>>

\* One request after the other: a clip is watched, a scene is priced and proposed.
Handle(a) ==
    /\ step[a] = "handling"
    /\ todo' = [todo EXCEPT ![a] = Tail(@)]
    /\ card' = IF Head(todo[a]) = "scene" /\ Alive(a) THEN [card EXCEPT ![a] = "ready"] ELSE card
    /\ IF Len(todo[a]) = 1 THEN Ended(a) ELSE UNCHANGED <<step, busy>>
    /\ UNCHANGED <<panel, shown, sent, memory, flow, looks, job, clips, late, rejected>>

\* A call that never reaches the server is rejected, and nothing clears `busy`.
SendRejected(a) ==
    /\ step[a] # "idle"
    /\ step' = [step EXCEPT ![a] = "idle"] /\ todo' = [todo EXCEPT ![a] = <<>>]
    /\ rejected' = rejected \cup {a}
    /\ UNCHANGED <<panel, shown, busy, sent, memory, scene>>

-----------------------------------------------------------------------------
(* A fact to remember: the card offers both buttons until it is kept or dismissed,  *)
(* the first one not while it is being saved                                        *)

ConfirmRemember(a) ==
    /\ shown /\ fact[a] \in {"ready", "failed"}
    /\ fact' = [fact EXCEPT ![a] = "saving"]
    /\ keeping' = keeping \cup {a}
    /\ UNCHANGED <<chat, kept, scene, rejected>>

DismissRemember(a) ==
    /\ shown /\ fact[a] \in {"ready", "saving", "failed"}
    /\ fact' = [fact EXCEPT ![a] = "dismissed"]
    /\ UNCHANGED <<chat, keeping, kept, scene, rejected>>

\* The answer is shown on the card whatever it says by then, "dismissed" included.
Remembered(a) ==
    /\ a \in keeping /\ keeping' = keeping \ {a}
    /\ \/ kept' = kept \cup {a} /\ fact' = Patched(fact, a, "saved")
       \/ kept' \in {kept, kept \cup {a}} /\ fact' = Patched(fact, a, "failed")
    /\ UNCHANGED <<chat, scene, rejected>>

-----------------------------------------------------------------------------
(* A scene *)

ConfirmScene(a) ==
    /\ shown /\ card[a] = "ready"
    /\ card' = [card EXCEPT ![a] = "working"]
    /\ flow' = [flow EXCEPT ![a] = "starting"]
    /\ UNCHANGED <<chat, memory, looks, job, clips, late, rejected>>

DismissScene(a) ==
    /\ shown /\ card[a] = "ready"
    /\ card' = [card EXCEPT ![a] = "dismissed"]
    /\ UNCHANGED <<chat, memory, flow, looks, job, clips, late, rejected>>

Failing(a) ==
    /\ flow' = [flow EXCEPT ![a] = "idle"]
    /\ card' = Patched(card, a, "failed")

\* The job is started under the card's own key; the first look comes at once.
Started(a) ==
    /\ flow[a] = "starting"
    /\ job' = [job EXCEPT ![a] = "working"]
    /\ \/ /\ flow' = [flow EXCEPT ![a] = "waiting"]
          /\ looks' = [looks EXCEPT ![a] = 1]
          /\ UNCHANGED card
       \/ Failing(a) /\ UNCHANGED looks
    /\ UNCHANGED <<chat, memory, clips, late, rejected>>

NotStarted(a) ==
    /\ flow[a] = "starting"
    /\ Failing(a)
    /\ UNCHANGED <<chat, memory, looks, job, clips, late, rejected>>

\* A push, or the slow check: another look, or the end of the wait if nobody is there.
Look(a) ==
    /\ flow[a] = "waiting"
    /\ IF Alive(a)
       THEN looks[a] < MaxLooks /\ looks' = [looks EXCEPT ![a] = @ + 1] /\ UNCHANGED flow
       ELSE flow' = [flow EXCEPT ![a] = "idle"] /\ UNCHANGED looks
    /\ UNCHANGED <<chat, memory, card, job, clips, late, rejected>>

Push(a) == job[a] # "none" /\ Look(a)

Backstop(a) == Look(a)

\* A look is answered: only the first that finds the end of the job counts.
Learn(a) ==
    /\ looks[a] > 0
    /\ looks' = [looks EXCEPT ![a] = @ - 1]
    /\ \/ /\ flow[a] = "waiting" /\ job[a] = "done"
          /\ flow' = [flow EXCEPT ![a] = "copying"] /\ UNCHANGED <<card, late>>
       \/ /\ flow[a] = "waiting" /\ job[a] = "failed"
          /\ Failing(a) /\ UNCHANGED late
       \/ /\ flow[a] = "waiting"
          /\ Failing(a) /\ late' = late \cup {a}
       \/ /\ flow[a] # "waiting" \/ job[a] = "working"
          /\ UNCHANGED <<card, flow, late>>
    /\ UNCHANGED <<chat, memory, job, clips, rejected>>

\* A look that is rejected is swallowed: the next push or check looks again.
LookLost(a) ==
    /\ looks[a] > 0
    /\ looks' = [looks EXCEPT ![a] = @ - 1]
    /\ UNCHANGED <<chat, memory, card, flow, job, clips, late, rejected>>

Deadline(a) ==
    /\ flow[a] = "waiting"
    /\ Failing(a) /\ late' = late \cup {a}
    /\ UNCHANGED <<chat, memory, looks, job, clips, rejected>>

Copied(a) ==
    /\ flow[a] = "copying"
    /\ clips' = clips \cup {a}
    /\ flow' = [flow EXCEPT ![a] = "idle"]
    /\ card' = Patched(card, a, "done")
    /\ UNCHANGED <<chat, memory, looks, job, late, rejected>>

\* Mutation of NotCopied: the scene is taken to be there once its job is done.
NotCopied_Done(a) ==
    /\ flow[a] = "copying"
    /\ flow' = [flow EXCEPT ![a] = "idle"] /\ card' = Patched(card, a, "done")
    /\ UNCHANGED <<chat, memory, looks, job, clips, late, rejected>>

NotCopied(a) ==
    /\ flow[a] = "copying"
    /\ Failing(a)
    /\ UNCHANGED <<chat, memory, looks, job, clips, late, rejected>>

\* A call of confirmScene that is rejected leaves its card working for good.
SceneRejected(a) ==
    /\ flow[a] \in {"starting", "copying"}
    /\ flow' = [flow EXCEPT ![a] = "idle"]
    /\ rejected' = rejected \cup {a}
    /\ UNCHANGED <<chat, memory, card, looks, job, clips, late>>

Run(a) ==
    /\ job[a] = "working"
    /\ \E s \in {"done", "failed"} : job' = [job EXCEPT ![a] = s]
    /\ UNCHANGED <<chat, memory, card, flow, looks, clips, late, rejected>>

Init ==
    /\ panel = 0 /\ shown = FALSE /\ busy = FALSE
    /\ sent = [a \in Asks |-> 0] /\ step = [a \in Asks |-> "idle"]
    /\ todo = [a \in Asks |-> <<>>]
    /\ card = [a \in Asks |-> "none"] /\ fact = [a \in Asks |-> "none"]
    /\ keeping = {} /\ kept = {}
    /\ flow = [a \in Asks |-> "idle"] /\ looks = [a \in Asks |-> 0]
    /\ job = [a \in Asks |-> "none"] /\ clips = {} /\ late = {} /\ rejected = {}

SendEnds(a) == Refused(a) \/ Answer(a) \/ Handle(a) \/ SendRejected(a)
CallEnds(a) == Started(a) \/ NotStarted(a) \/ Copied(a) \/ NotCopied(a) \/ SceneRejected(a)
LookEnds(a) == Learn(a) \/ LookLost(a)

Next ==
    \/ OpenTab \/ CloseTab \/ Clear
    \/ \E a \in Asks :
          \/ Send(a) \/ SendEnds(a)
          \/ ConfirmRemember(a) \/ DismissRemember(a) \/ Remembered(a)
          \/ ConfirmScene(a) \/ DismissScene(a) \/ CallEnds(a)
          \/ Push(a) \/ Backstop(a) \/ LookEnds(a) \/ Deadline(a)
          \/ Run(a)

Spec == Init /\ [][Next]_vars

\* Calls end; the slow check comes round, and not every look of it can be lost.
FairSpec ==
    /\ Spec
    /\ \A a \in Asks :
          /\ WF_vars(SendEnds(a)) /\ WF_vars(CallEnds(a)) /\ WF_vars(LookEnds(a))
          /\ WF_vars(Backstop(a)) /\ SF_vars(Learn(a))

-----------------------------------------------------------------------------
\* A skipped scene is never made, and a scene is made only for a card that was
\* confirmed (scene-card.tsx: "Nothing is made or charged until the person presses
\* Generate").
SkippedIsNeverMade ==
    \A a \in Asks : card[a] \in {"ready", "dismissed"} => job[a] = "none" /\ flow[a] = "idle"

\* A card that says the scene was added tells the truth, and one that still says it
\* is being made has someone waiting for it; a fact that is shown as saved was kept.
CardTellsTheTruth ==
    \A a \in Asks :
       /\ card[a] = "done" => a \in clips
       /\ card[a] = "working" => flow[a] # "idle" \/ a \in rejected
       /\ fact[a] = "saved" => a \in kept

\* A missed push only delays the answer (wait-for-job.ts): a finished scene that is
\* waited for is copied and placed, or its card says why not.
MissedPushOnlyDelays ==
    \A a \in Asks :
       flow[a] = "waiting" /\ job[a] = "done" ~>
          a \in clips \/ card[a] \in {"failed", "gone"} \/ a \in rejected

\* The panel takes the next message again, whatever the answer asked for, unless a
\* call of the message before never reached the server.
BusyEnds == \A a \in Asks : step[a] # "idle" ~> step[a] = "idle" /\ (a \in rejected \/ ~ Alive(a) \/ ~ busy)
=============================================================================
