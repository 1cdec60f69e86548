------------------------------- MODULE AvatarPack -------------------------------
(* An asset group filled and used: the live avatar flow (features/live-avatar-flow: *)
(* group, assets, brief, prompt) and the page of one group (features/asset-groups). *)
(* Every upload writes all the slots of the group at once, from the copy of the     *)
(* group the screen holds.                                                          *)
EXTENDS Integers, FiniteSets

CONSTANTS
    Groups,      \* the groups of the user
    Slots,       \* the slots of a group
    MaxFiles,    \* bound: files uploaded
    MaxUnder     \* bound: reads of picked groups, and tasks, under way at once

VARIABLES
    page,        \* "flow", "group": the page of one group, or "editor"
    stored,      \* stored[g] : the group at the server: slots, and what was consented to
    files,       \* files uploaded so far
    step,        \* the step of the flow
    continuing,  \* Continue was pressed and its timer runs
    group,       \* the group picked, as it was listed
    listing,     \* the groups as the group step has listed them
    picks,       \* reads of a picked group under way
    linked,      \* the group of the address the flow was opened by, while it is read, or None
    detail,      \* the flow's copy of the group
    mine,        \* the uploads step's own copy, or the group page's
    tasks,       \* uploads, consents and clones under way
    voice,       \* a voice was cloned or chosen; it stays when another group is picked
    brief,       \* the brief has an objective and an audience
    made,        \* the group the video asked for is made of, or None
    jumped,      \* history: a step was picked while the timer ran
    misled       \* history: the screen holds a copy of another group, or one that is not
                 \* the server's any more: a read failed or overtook another, the linked
                 \* group overtook the one picked, or the uploads step opened on an old
                 \* listing or with a task under way

vars == <<page, stored, files, step, continuing, group, listing, picks, linked, detail, mine,
          tasks, voice, brief, made, jumped, misled>>

Last == 3                       \* STEPS: group, assets, brief, prompt
None == "none"
Empty == [s \in Slots |-> 0]
NoCopy == [id |-> None, slots |-> Empty]
Copies == [id : Groups \cup {None}, slots : [Slots -> 0 .. MaxFiles]]
Copy(g) == [id |-> g, slots |-> stored[g].slots]
Unasked == [s \in Slots |-> FALSE]
NoView == [id |-> None, slots |-> Empty, consent |-> Unasked]
View(g) == [id |-> g, slots |-> stored[g].slots, consent |-> stored[g].consent]
Tasks == [what : {"upload", "consent", "clone"}, slot : Slots, id : Groups, here : BOOLEAN,
          base : [Slots -> 0 .. MaxFiles], done : BOOLEAN]

TypeOK ==
    /\ page \in {"flow", "group", "editor"}
    /\ \A g \in Groups : Copy(g) \in Copies /\ stored[g].consent \in [Slots -> BOOLEAN]
    /\ files \in 0 .. MaxFiles /\ step \in 0 .. Last + 1 /\ continuing \in BOOLEAN
    /\ group \in Copies /\ detail \in Copies
    /\ mine \in [id : Groups \cup {None}, slots : [Slots -> 0 .. MaxFiles], consent : [Slots -> BOOLEAN]]
    /\ \A g \in Groups : listing[g] \in Copies
    /\ picks \subseteq Groups /\ linked \in Groups \cup {None} /\ tasks \subseteq Tasks
    /\ voice \in BOOLEAN /\ brief \in BOOLEAN
    /\ made \in Groups \cup {None}
    /\ jumped \in BOOLEAN /\ misled \in BOOLEAN

-----------------------------------------------------------------------------
\* What the group step lists.
Listed == [g \in Groups |-> Copy(g)]

\* The steps. Leaving the uploads step forgets its copy of the group; opening the
\* group step lists the groups afresh.
GoTo(n, odd) ==
    /\ step' = n
    /\ mine' = IF step = 1 /\ n # 1 THEN NoView ELSE mine
    /\ tasks' = IF step = 1 /\ n # 1 THEN {[t EXCEPT !.here = FALSE] : t \in tasks} ELSE tasks
    /\ misled' = (misled \/ odd \/ (n = 1 /\ step # 1 /\ group # NoCopy
                            /\ (tasks # {} \/ group.slots # stored[group.id].slots)))
    /\ listing' = IF n = 0 /\ step # 0 THEN Listed ELSE listing

Ready ==
    CASE step = 0 -> group # NoCopy
      [] step = 1 -> detail # NoCopy /\ (\A s \in {"face", "voice"} : detail.slots[s] # 0) /\ voice
      [] step = 2 -> brief
      [] OTHER -> TRUE

handleContinue ==
    /\ page = "flow" /\ step < Last /\ Ready /\ ~ continuing
    /\ continuing' = TRUE
    /\ UNCHANGED <<page, stored, files, step, group, listing, picks, linked, detail, mine,
                   tasks, voice, brief, made, jumped, misled>>

Continued ==
    /\ page = "flow" /\ continuing /\ continuing' = FALSE
    /\ GoTo(step + 1, FALSE)
    /\ UNCHANGED <<page, stored, files, group, picks, linked, detail, voice, brief, made, jumped>>

CanOpen(n) == n = 0 \/ (n = 1 /\ group # NoCopy) \/ (n > 1 /\ detail # NoCopy)
PickStep(n) ==
    /\ page = "flow" /\ CanOpen(n) /\ n # step
    /\ GoTo(n, FALSE) /\ jumped' = (jumped \/ continuing)
    /\ UNCHANGED <<page, stored, files, continuing, group, picks, linked, detail, voice, brief, made>>

Brief ==
    /\ page = "flow" /\ step = 2 /\ brief' = ~ brief
    /\ UNCHANGED <<page, stored, files, step, continuing, group, listing, picks, linked, detail, mine, tasks,
                   voice, made, jumped, misled>>

Back ==
    /\ page = "flow" /\ step > 0 /\ ~ continuing
    /\ GoTo(step - 1, FALSE)
    /\ UNCHANGED <<page, stored, files, continuing, group, picks, linked, detail, voice, brief, made,
                   jumped>>

\* The group picked is shown at once, its detail is read, and the assets step opens
\* whether or not the read succeeded.
enterAssets(g) ==
    /\ page = "flow" /\ step = 0
    /\ group' = listing[g] /\ picks' = picks \cup {g} /\ Cardinality(picks') <= MaxUnder
    /\ UNCHANGED <<page, stored, files, step, continuing, listing, linked, detail, mine, tasks,
                   voice, brief, made, jumped, misled>>

Entered(g, ok) ==
    /\ page = "flow" /\ g \in picks /\ picks' = picks \ {g}
    /\ detail' = IF ok THEN Copy(g) ELSE detail
    /\ GoTo(1, ~ ok \/ group.id # g)
    /\ UNCHANGED <<page, stored, files, continuing, group, linked, voice, brief, made, jumped>>

\* The group of the address opens the assets step when it is read, whatever was picked
\* meanwhile; if it cannot be read, nothing happens.
Linked(ok) ==
    /\ page = "flow" /\ linked # None /\ linked' = None
    /\ IF ok THEN /\ group' = Copy(linked) /\ detail' = group'
                  /\ GoTo(1, group # NoCopy /\ group.id # linked)
             ELSE UNCHANGED <<group, detail, step, mine, tasks, misled, listing>>
    /\ UNCHANGED <<page, stored, files, continuing, picks, voice, brief, made>>
    /\ jumped' = (jumped \/ (ok /\ continuing))

-----------------------------------------------------------------------------
\* The uploads step and the group page: one task at a time while they stay open.
Here == IF page = "flow" THEN group ELSE mine
Idle == /\ page = "group" \/ (page = "flow" /\ step = 1 /\ group # NoCopy)
        /\ \A t \in tasks : ~ t.here
        /\ Cardinality(tasks) < MaxUnder
Held == IF mine # NoView THEN mine.slots ELSE Here.slots
Begin(what, s) ==
    /\ tasks' = tasks \cup {[what |-> what, slot |-> s, id |-> Here.id, here |-> TRUE,
                             base |-> Held, done |-> FALSE]}

upload(s) ==
    /\ Idle /\ files + Cardinality({t \in tasks : t.what = "upload" /\ ~ t.done}) < MaxFiles
    /\ Begin("upload", s)
    /\ UNCHANGED <<page, stored, files, step, continuing, group, listing, picks, linked, detail, mine,
                   voice, brief, made, jumped, misled>>

\* Consent is asked for a face or a voice that is attached and has none on record.
consent(s) ==
    /\ Idle /\ s \in {"face", "voice"} /\ Held[s] # 0
    /\ mine = NoView \/ ~ mine.consent[s]
    /\ Begin("consent", s)
    /\ UNCHANGED <<page, stored, files, step, continuing, group, listing, picks, linked, detail, mine,
                   voice, brief, made, jumped, misled>>

clone ==
    /\ page = "flow" /\ Idle /\ Held["voice"] # 0
    /\ Begin("clone", "voice")
    /\ UNCHANGED <<page, stored, files, step, continuing, group, listing, picks, linked, detail, mine,
                   voice, brief, made, jumped, misled>>

\* The server's part. The slots written are those of the copy, with the new file.
Landed(t) == (tasks \ {t}) \cup {[t EXCEPT !.done = TRUE]}
Written(t) == [t.base EXCEPT ![t.slot] = files + 1]

Uploaded(t) ==
    /\ page # "editor" /\ t.what = "upload" /\ ~ t.done
    /\ files' = files + 1
    /\ stored' = [stored EXCEPT ![t.id].slots = Written(t)]
    /\ tasks' = Landed(t)
    /\ UNCHANGED <<page, step, continuing, group, listing, picks, linked, detail, mine, voice, brief, made,
                   jumped, misled>>

Consented(t) ==
    /\ page # "editor" /\ t.what = "consent" /\ ~ t.done
    /\ stored' = [stored EXCEPT ![t.id].consent[t.slot] = TRUE]
    /\ tasks' = Landed(t)
    /\ UNCHANGED <<page, files, step, continuing, group, listing, picks, linked, detail, mine, voice, brief,
                   made, jumped, misled>>

Cloned(t) ==
    /\ page # "editor" /\ t.what = "clone" /\ ~ t.done
    /\ stored[t.id].consent["voice"]
    /\ voice' = TRUE /\ tasks' = Landed(t)
    /\ UNCHANGED <<page, stored, files, step, continuing, group, listing, picks, linked, detail, mine, brief,
                   made, jumped, misled>>

\* Refused at any point: nothing was written.
Refused(t) ==
    /\ page # "editor" /\ t \in tasks /\ ~ t.done /\ tasks' = tasks \ {t}
    /\ UNCHANGED <<page, stored, files, step, continuing, group, listing, picks, linked, detail, mine,
                   voice, brief, made, jumped, misled>>

\* After a task the group is read again. A step that was left keeps nothing, but the
\* flow takes the answer all the same; a read that fails leaves the copies as they are.
refresh(t, ok) ==
    /\ page # "editor" /\ t \in tasks /\ t.done /\ tasks' = tasks \ {t}
    /\ mine' = IF ok /\ t.here THEN View(t.id) ELSE mine
    /\ detail' = IF ok /\ page = "flow" THEN Copy(t.id) ELSE detail
    /\ misled' = (misled \/ ~ ok \/ (page = "flow" /\ group.id # t.id))
    /\ UNCHANGED <<page, stored, files, step, continuing, group, listing, picks, linked, voice, brief,
                   made, jumped>>

\* The prompt step asks for a video of the flow's copy; the server wants both consents.
Generate ==
    /\ page = "flow" /\ step = 3 /\ detail # NoCopy /\ voice
    /\ stored[detail.id].consent["face"] /\ stored[detail.id].consent["voice"]
    /\ made' = detail.id /\ page' = "editor"
    /\ UNCHANGED <<stored, files, step, continuing, group, listing, picks, linked, detail, mine,
                   tasks, voice, brief, jumped, misled>>

Init ==
    /\ page \in {"flow", "group"}
    /\ stored = [g \in Groups |-> [slots |-> Empty, consent |-> Unasked]]
    /\ files = 0 /\ step = 0 /\ continuing = FALSE
    /\ group = NoCopy /\ listing = Listed /\ picks = {}
    /\ linked \in (IF page = "flow" THEN Groups \cup {None} ELSE {None})
    /\ detail = NoCopy /\ tasks = {} /\ voice = FALSE /\ brief = FALSE /\ made = None
    /\ IF page = "flow" THEN mine = NoView ELSE \E g \in Groups : mine = View(g)
    /\ jumped = FALSE /\ misled = FALSE

Next ==
    \/ handleContinue \/ Continued \/ Back \/ Brief
    \/ \E n \in 0 .. Last : PickStep(n)
    \/ \E g \in Groups : enterAssets(g) \/ \E ok \in BOOLEAN : Entered(g, ok)
    \/ \E ok \in BOOLEAN : Linked(ok)
    \/ \E s \in Slots : upload(s) \/ consent(s)
    \/ clone
    \/ \E t \in tasks : Uploaded(t) \/ Consented(t) \/ Cloned(t) \/ Refused(t) \/ \E ok \in BOOLEAN : refresh(t, ok)
    \/ Generate

Spec == Init /\ [][Next]_vars

-----------------------------------------------------------------------------
\* A filled slot is never emptied by filling another, unless the screen was misled about
\* what the group holds.
SightedUploadsKeepSlots ==
    [][~ misled => \A g \in Groups, s \in Slots : stored[g].slots[s] # 0 => stored'[g].slots[s] # 0]_vars

\* Once its read is answered, the flow's copy is of the group picked, unless the screen
\* was misled: a video is made of the group the person picked.
CopyIsOfTheGroupPicked ==
    ~ misled /\ picks = {} /\ detail # NoCopy => detail.id = group.id

\* The flow shows one of its four steps, unless a step was picked while Continue's
\* timer ran.
StepExists == jumped \/ step <= Last

\* uploads-step.tsx:125: "Everything saves into the group as you go."
FilledSlotsStay ==
    [][page = "flow" =>
         \A g \in Groups, s \in Slots : stored[g].slots[s] # 0 => stored'[g].slots[s] # 0]_vars
=============================================================================
