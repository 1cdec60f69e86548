------------------------------ MODULE AvatarClip ------------------------------
(* The studio's Avatar panel (panels/avatar-panel.tsx, hooks/use-avatar-video.ts): *)
(* a script is spoken by one of the person's avatars, and the finished video is    *)
(* put at the end of the timeline.  Each opening of the tab is a panel of its own, *)
(* and what a press of the button waits for goes on when the tab is closed.        *)
(* Presses are numbered; each starts a job under a key of its own.                 *)
EXTENDS Integers, FiniteSets

CONSTANTS
    Projects,    \* projects of the person
    MaxPresses,  \* bound: presses of the button
    MaxPanels    \* bound: openings of the tab

Presses == 1 .. MaxPresses
None == 0

VARIABLES
    held,        \* the project in the store
    panel, shown, \* the latest opening of the tab, and whether it is on screen
    avatars,     \* what the panel knows of the avatars that can speak
    script,      \* what they are to say
    phase,       \* what the panel says of the video
    by, asked,   \* by[p] : the panel of press p, asked[p] : the project it was made in
    step,        \* step[p] : what its make waits for
    past,        \* presses whose ten minutes are over
    job,         \* job[p] : the job of press p at the server
    landed,      \* landed[p] : the project that holds the clip
    lost         \* history: presses one of whose calls never reached the server

vars == <<held, panel, shown, avatars, script, phase, by, asked, step, past, job, landed, lost>>
form == <<panel, shown, avatars, script>>
press == <<by, asked>>

TypeOK ==
    /\ held \in Projects /\ panel \in 0 .. MaxPanels /\ shown \in BOOLEAN
    /\ avatars \in {"loading", "none", "some"} /\ script \in {"blank", "words"}
    /\ phase \in {"idle", "working", "done", "failed"}
    /\ by \in [Presses -> 0 .. MaxPanels] /\ asked \in [Presses -> Projects \cup {None}]
    /\ step \in [Presses -> {"unpressed", "starting", "looking", "copying", "over"}]
    /\ past \subseteq Presses /\ lost \subseteq Presses
    /\ job \in [Presses -> {"none", "working", "done", "failed"}]
    /\ landed \in [Presses -> Projects \cup {None}]

-----------------------------------------------------------------------------
\* The panel press p was made in is the one on screen (the ref `alive`).
Alive(p) == shown /\ by[p] = panel

\* setState of a panel that has gone is nothing.
Says(p, s) == phase' = IF Alive(p) THEN s ELSE phase

Over(p) == step' = [step EXCEPT ![p] = "over"]

\* The tool is picked: a fresh panel asks for the avatars.
OpenTab ==
    /\ ~ shown /\ panel < MaxPanels
    /\ panel' = panel + 1 /\ shown' = TRUE
    /\ UNCHANGED <<held, avatars, script, phase, press, step, past, job, landed, lost>>

\* What a panel shows goes with it.
Closed == shown' = FALSE /\ avatars' = "loading" /\ script' = "blank" /\ phase' = "idle"

\* Another tool is picked.
CloseTab ==
    /\ shown /\ Closed
    /\ UNCHANGED <<held, panel, press, step, past, job, landed, lost>>

\* Another project is opened in the studio, with a screen of its own.
Enter(q) ==
    /\ q # held /\ held' = q
    /\ Closed
    /\ UNCHANGED <<panel, press, step, past, job, landed, lost>>

\* The avatars are read once; a read that is refused is an empty list.
Listed ==
    /\ shown /\ avatars = "loading"
    /\ avatars' \in {"none", "some"}
    /\ UNCHANGED <<held, panel, shown, script, phase, press, step, past, job, landed, lost>>

\* A change of the words takes the outcome of the video before off the screen.
Type(s) ==
    /\ shown /\ avatars = "some" /\ phase # "working"
    /\ script' = s /\ phase' = "idle"
    /\ UNCHANGED <<held, panel, shown, avatars, press, step, past, job, landed, lost>>

-----------------------------------------------------------------------------
(* make *)

Make(p) ==
    /\ shown /\ avatars = "some" /\ script = "words" /\ phase # "working"
    /\ step[p] = "unpressed" /\ \A o \in Presses : o < p => step[o] # "unpressed"
    /\ phase' = "working"
    /\ by' = [by EXCEPT ![p] = panel] /\ asked' = [asked EXCEPT ![p] = held]
    /\ step' = [step EXCEPT ![p] = "starting"]
    /\ UNCHANGED <<held, form, past, job, landed, lost>>

\* The head of the loop: the next look, while the panel is there and there is time.
Again(p) ==
    IF Alive(p) /\ p \notin past THEN step' = [step EXCEPT ![p] = "looking"] /\ UNCHANGED phase
                                 ELSE Over(p) /\ Says(p, "failed")

Started(p) ==
    /\ step[p] = "starting"
    /\ job' = [job EXCEPT ![p] = "working"]
    /\ Again(p)
    /\ UNCHANGED <<held, form, press, past, landed, lost>>

\* Refused, or started but its answer was lost on the way.
NotStarted(p) ==
    /\ step[p] = "starting"
    /\ \E s \in {"none", "working"} : job' = [job EXCEPT ![p] = s]
    /\ Over(p) /\ Says(p, "failed")
    /\ UNCHANGED <<held, form, press, past, landed, lost>>

\* Every four seconds a look at the job; one that is refused counts as "not yet".
Look(p) ==
    /\ step[p] = "looking"
    /\ \/ job[p] = "failed" /\ Over(p) /\ Says(p, "failed")
       \/ job[p] = "done" /\ step' = [step EXCEPT ![p] = "copying"] /\ UNCHANGED phase
       \/ Again(p)
    /\ UNCHANGED <<held, form, press, past, job, landed, lost>>

\* adoptVideo, then placeGeneratedVideo in the project the store holds by now.
Placed(p) ==
    /\ step[p] = "copying"
    /\ landed' = [landed EXCEPT ![p] = held]
    /\ Over(p) /\ Says(p, "done")
    /\ UNCHANGED <<held, form, press, past, job, lost>>

\* The copy is refused, or the timeline takes no clip.
NotPlaced(p) ==
    /\ step[p] = "copying"
    /\ Over(p) /\ Says(p, "failed")
    /\ UNCHANGED <<held, form, press, past, job, landed, lost>>

\* A call that never reaches the server is rejected, and nothing changes the phase.
Rejected(p) ==
    /\ step[p] \in {"starting", "looking", "copying"}
    /\ Over(p) /\ lost' = lost \cup {p}
    /\ UNCHANGED <<held, form, phase, press, past, job, landed>>

Deadline(p) ==
    /\ step[p] = "looking" /\ p \notin past
    /\ past' = past \cup {p}
    /\ UNCHANGED <<held, form, phase, press, step, job, landed, lost>>

Run(p) ==
    /\ job[p] = "working"
    /\ \E s \in {"done", "failed"} : job' = [job EXCEPT ![p] = s]
    /\ UNCHANGED <<held, form, phase, press, step, past, landed, lost>>

Init ==
    /\ held \in Projects /\ panel = 0 /\ shown = FALSE
    /\ avatars = "loading" /\ script = "blank" /\ phase = "idle"
    /\ by = [p \in Presses |-> 0] /\ asked = [p \in Presses |-> None]
    /\ step = [p \in Presses |-> "unpressed"] /\ past = {} /\ lost = {}
    /\ job = [p \in Presses |-> "none"] /\ landed = [p \in Presses |-> None]

CallEnds(p) == Started(p) \/ NotStarted(p) \/ Look(p) \/ Placed(p) \/ NotPlaced(p)

Next ==
    \/ OpenTab \/ CloseTab \/ Listed
    \/ \E q \in Projects : Enter(q)
    \/ \E s \in {"blank", "words"} : Type(s)
    \/ \E p \in Presses : Make(p) \/ CallEnds(p) \/ Rejected(p) \/ Deadline(p) \/ Run(p)

Spec == Init /\ [][Next]_vars

\* Calls are answered or rejected, and ten minutes pass.  Nothing says that a job ends.
FairSpec == Spec /\ \A p \in Presses : WF_vars(CallEnds(p)) /\ WF_vars(Deadline(p))

-----------------------------------------------------------------------------
UnderWay(p) == step[p] \in {"starting", "looking", "copying"}

\* One panel has one video made at a time: what is typed meanwhile, and the outcome
\* of a call that was lost, do not let a second be paid for beside it.
OneAtATime ==
    /\ \A p, o \in Presses : UnderWay(p) /\ UnderWay(o) /\ by[p] = by[o] => p = o
    /\ \A p \in Presses : UnderWay(p) /\ Alive(p) => phase = "working"

\* avatar-panel.tsx: "Added to the end of your video" is only said of a clip that is
\* there, in the project that is open.
AddedIsThere ==
    shown /\ phase = "done" =>
       \E p \in Presses : by[p] = panel /\ step[p] = "over" /\ landed[p] = held /\ asked[p] = held

\* The panel stops saying "Making your video", whatever becomes of the job, unless
\* a call never reached the server.
MakingEnds ==
    \A p \in Presses : UnderWay(p) ~> ~ UnderWay(p) /\ (p \in lost \/ ~ Alive(p) \/ phase # "working")

\* Nothing is looked for on behalf of a panel that was closed, beyond the look that
\* was under way.
ClosedPanelIsNotFollowed ==
    [][\A p \in Presses : step[p] \in {"starting", "looking"} /\ ~ Alive(p) /\ step'[p] # step[p]
          => step'[p] # "looking"]_vars

\* avatar-panel.tsx:102: "This usually takes a few minutes. You can keep editing."  No
\* run: picking another tool closes the panel, and the video it was making is paid
\* for and never arrives.
KeepEditing ==
    \A p \in Presses : UnderWay(p) /\ job[p] = "done" ~>
       landed[p] # None \/ held # asked[p] \/ (Alive(p) /\ phase = "failed") \/ p \in lost
=============================================================================
