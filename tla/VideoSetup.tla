------------------------------- MODULE VideoSetup -------------------------------
(* The form a video is configured in (features/generate-form), with what the new    *)
(* video page leaves for it in the tab's storage (own-idea-panel.tsx,               *)
(* analysis-view.tsx). The form quotes the request, asks to confirm, starts a paid  *)
(* job with a new key each time, and then makes the project that follows it.        *)
EXTENDS Integers, FiniteSets

CONSTANTS
    Texts,      \* ideas and scripts
    MaxJobs,    \* bound: jobs started, less one
    MaxQuotes   \* bound: quotes under way

VARIABLES
    page,       \* "new", "form" or "editor"
    draft,      \* storage: the form as last saved, or None
    idea,       \* storage: the idea described, or None
    script,     \* storage: the script approved, or None
    brought,    \* history: what the form was opened for, or None
    text,       \* the texts the form holds
    who,        \* "clip", or "avatar": a saved avatar speaks
    step, continuing,
    uploading,  \* a first frame is being uploaded
    quotes,     \* quotes under way: [req, live]
    credits,    \* the request whose price is on screen, or NoPrice
    confirming, starting,
    sends,      \* requests under way: [req, stage, here]
    jobs,       \* paid jobs started
    again,      \* history: an error was shown, or the review step was left, since a send
    jumped      \* history: a step was picked while Continue's timer ran

form == <<text, who, step, continuing, uploading, quotes, credits, confirming, starting>>
vars == <<page, draft, idea, script, brought, form, sends, jobs, again, jumped>>

Last == 4                        \* STEPS: objective, format, script, assets, review
None == {}
Saved == [kept : BOOLEAN, text : SUBSET Texts]
NoDraft == [kept |-> FALSE, text |-> {}]
Requests == [who : {"clip", "avatar"}, text : SUBSET Texts]
NoPrice == [who |-> "none", text |-> {}]
\* A clip is priced by its length, an avatar's video by its words.
Priced(w, t) == IF w = "avatar" THEN [who |-> w, text |-> t] ELSE [who |-> "clip", text |-> {}]

TypeOK ==
    /\ page \in {"new", "form", "editor"} /\ draft \in Saved
    /\ idea \in SUBSET Texts /\ script \in SUBSET Texts /\ brought \in SUBSET Texts
    /\ text \in SUBSET Texts /\ who \in {"clip", "avatar"}
    /\ step \in 0 .. Last + 1 /\ continuing \in BOOLEAN /\ uploading \in BOOLEAN
    /\ quotes \subseteq [req : Requests, live : BOOLEAN] /\ credits \in Requests \cup {NoPrice}
    /\ confirming \in BOOLEAN /\ starting \in BOOLEAN
    /\ sends \subseteq [req : Requests, stage : {"asked", "started"}, here : BOOLEAN]
    /\ jobs \in 0 .. MaxJobs + 1 /\ again \in BOOLEAN /\ jumped \in BOOLEAN

-----------------------------------------------------------------------------
\* The quote effect runs when the review step opens and when what it prices changes:
\* it forgets the price, asks anew unless the avatar has no words, and cancels the
\* quote before. Leaving the step cancels it too, and forgets the confirmation.
Cancelled == {[q EXCEPT !.live = FALSE] : q \in quotes}
Review(n, w, t) ==
    LET opens == n = Last /\ step # Last
        leaves == n # Last /\ step = Last
        changes == n = Last /\ step = Last /\ Priced(w, t) # Priced(who, text)
        asks == (opens \/ changes) /\ ~ (w = "avatar" /\ t = {})
    IN /\ step' = n /\ who' = w /\ text' = t
       /\ quotes' = (IF opens \/ leaves \/ changes THEN Cancelled ELSE quotes)
                    \cup (IF asks THEN {[req |-> Priced(w, t), live |-> TRUE]} ELSE {})
       /\ Cardinality(quotes') <= MaxQuotes
       /\ credits' = IF opens \/ leaves \/ changes THEN NoPrice ELSE credits
       /\ confirming' = IF opens \/ leaves THEN FALSE ELSE confirming
       /\ starting' = IF opens \/ leaves THEN FALSE ELSE starting
       /\ sends' = IF leaves THEN {[s EXCEPT !.here = FALSE] : s \in sends} ELSE sends
       /\ again' = (again \/ (leaves /\ sends # {}))
       /\ draft' = [kept |-> TRUE, text |-> t]

\* Opening the form: a draft is taken up as it is, and otherwise the idea and the
\* script that are stored; the form is saved at once.
Prefilled(d, i, s) == IF d.kept THEN d.text ELSE i \cup s
Open(d, i, s, choice) ==
    /\ page' = "form" /\ brought' = choice
    /\ text' = Prefilled(d, i, s)
    /\ draft' = [kept |-> TRUE, text |-> text']
    /\ idea' = i /\ script' = s
    /\ who' = "clip" /\ step' = 0 /\ continuing' = FALSE
    /\ uploading' = FALSE /\ quotes' = {} /\ credits' = NoPrice
    /\ confirming' = FALSE /\ starting' = FALSE
    /\ UNCHANGED <<sends, jobs, again, jumped>>

\* Describing an idea drops the draft and the approved script.
OwnIdea(t) == page = "new" /\ Open(NoDraft, {t}, None, {t})

\* Approving a script stores it; Continue drops the draft and the idea.
Approve(t) ==
    /\ page = "new" /\ script' = {t}
    /\ UNCHANGED <<page, draft, idea, brought, form, sends, jobs, again, jumped>>
ContinueToSetup == page = "new" /\ script # None /\ Open(NoDraft, None, script, script)

\* Opened by its address.
Visit == page = "new" /\ Open(draft, idea, script, None)

\* Left with nothing on its way.
Leave ==
    /\ page = "form" /\ sends = {} /\ ~ uploading /\ page' = "new"
    /\ UNCHANGED <<draft, idea, script, brought, form, sends, jobs, again, jumped>>

-----------------------------------------------------------------------------
handleContinue ==
    /\ page = "form" /\ ~ continuing /\ step < Last
    /\ continuing' = TRUE
    /\ UNCHANGED <<page, draft, idea, script, brought, text, who, step, uploading, quotes, credits,
                   confirming, starting, sends, jobs, again, jumped>>

Continued ==
    /\ page = "form" /\ continuing /\ continuing' = FALSE
    /\ Review(step + 1, who, text)
    /\ UNCHANGED <<page, idea, script, brought, uploading, jobs, jumped>>

PickStep(n) ==
    /\ page = "form" /\ n # step
    /\ Review(n, who, text) /\ jumped' = (jumped \/ continuing)
    /\ UNCHANGED <<page, idea, script, brought, continuing, uploading, jobs>>

Back ==
    /\ page = "form" /\ step > 0 /\ ~ continuing
    /\ Review(step - 1, who, text)
    /\ UNCHANGED <<page, idea, script, brought, continuing, uploading, jobs, jumped>>

\* What is typed in a step changes the form, and the form is saved.
Type(t) ==
    /\ page = "form" /\ text # {t}
    /\ Review(step, who, {t})
    /\ brought' = None
    /\ UNCHANGED <<page, idea, script, continuing, uploading, jobs, jumped>>

StepObjective(t) == step = 0 /\ Type(t)
StepFormat(t) == step = 1 /\ Type(t)
StepScript(t) == step = 2 /\ Type(t)

\* The assets step: a saved avatar, or a picture that is uploaded first. The upload
\* goes on when the step is left, and its end switches the avatar off.
SavedAvatar(w) ==
    /\ page = "form" /\ step = 3 /\ w # who
    /\ Review(step, w, text)
    /\ UNCHANGED <<page, idea, script, brought, continuing, uploading, jobs, jumped>>

upload ==
    /\ page = "form" /\ step = 3 /\ who = "clip" /\ ~ uploading /\ uploading' = TRUE
    /\ UNCHANGED <<page, draft, idea, script, brought, text, who, step, continuing, quotes, credits,
                   confirming, starting, sends, jobs, again, jumped>>

UploadEnds(ok) ==
    /\ page = "form" /\ uploading /\ uploading' = FALSE
    /\ Review(step, IF ok THEN "clip" ELSE who, text)
    /\ UNCHANGED <<page, idea, script, brought, continuing, jobs, jumped>>

-----------------------------------------------------------------------------
\* Mutation of Quoted: a cancelled quote is shown.
Quoted_Late(q, ok) ==
    /\ page = "form" /\ q \in quotes /\ quotes' = quotes \ {q}
    /\ credits' = IF ok THEN q.req ELSE credits
    /\ UNCHANGED <<page, draft, idea, script, brought, text, who, step, continuing, uploading,
                   confirming, starting, sends, jobs, again, jumped>>

Quoted(q, ok) ==
    /\ page = "form" /\ q \in quotes /\ quotes' = quotes \ {q}
    /\ credits' = IF q.live /\ ok THEN q.req ELSE credits
    /\ UNCHANGED <<page, draft, idea, script, brought, text, who, step, continuing, uploading,
                   confirming, starting, sends, jobs, again, jumped>>

\* After an error, the estimate is asked for again.
RetryQuote ==
    /\ page = "form" /\ step = Last /\ credits = NoPrice /\ \A q \in quotes : ~ q.live
    /\ ~ (who = "avatar" /\ text = {})
    /\ quotes' = quotes \cup {[req |-> Priced(who, text), live |-> TRUE]}
    /\ Cardinality(quotes') <= MaxQuotes
    /\ UNCHANGED <<page, draft, idea, script, brought, text, who, step, continuing, uploading, credits,
                   confirming, starting, sends, jobs, again, jumped>>

Confirm(yes) ==
    /\ page = "form" /\ step = Last /\ confirming # yes
    /\ IF yes THEN credits # NoPrice ELSE ~ starting
    /\ confirming' = yes
    /\ UNCHANGED <<page, draft, idea, script, brought, text, who, step, continuing, uploading, quotes,
                   credits, starting, sends, jobs, again, jumped>>

\* "Confirm and generate" asks for what the form holds by now.
generate ==
    /\ page = "form" /\ step = Last /\ confirming /\ ~ starting
    /\ jobs + Cardinality(sends) <= MaxJobs
    /\ confirming' = FALSE /\ starting' = TRUE
    /\ sends' = sends \cup {[req |-> [who |-> who, text |-> text], stage |-> "asked", here |-> TRUE]}
    /\ UNCHANGED <<page, draft, idea, script, brought, text, who, step, continuing, uploading, quotes,
                   credits, jobs, again, jumped>>

Ended(s) ==
    /\ starting' = IF s.here THEN FALSE ELSE starting
    /\ sends' = sends \ {s}

\* The job is started; its answer may be lost, or it may be refused.
Started(s, told) ==
    /\ s \in sends /\ s.stage = "asked"
    /\ jobs' = jobs + 1
    /\ IF told THEN /\ sends' = (sends \ {s}) \cup {[s EXCEPT !.stage = "started"]}
                    /\ UNCHANGED <<starting, again>>
               ELSE Ended(s) /\ again' = TRUE
    /\ UNCHANGED <<page, draft, idea, script, brought, text, who, step, continuing, uploading, quotes,
                   credits, confirming, jumped>>

NotStarted(s) ==
    /\ s \in sends /\ s.stage = "asked"
    /\ Ended(s)
    /\ UNCHANGED <<page, draft, idea, script, brought, text, who, step, continuing, uploading, quotes,
                   credits, confirming, jobs, again, jumped>>

\* The project is made and opened, from wherever the person is by now; without one
\* the form says so and can be sent again.
ProjectMade(s) ==
    /\ s \in sends /\ s.stage = "started"
    /\ page' = "editor" /\ sends' = {}
    /\ UNCHANGED <<draft, idea, script, brought, form, jobs, again, jumped>>

ProjectRefused(s) ==
    /\ s \in sends /\ s.stage = "started"
    /\ Ended(s) /\ again' = TRUE
    /\ UNCHANGED <<page, draft, idea, script, brought, text, who, step, continuing, uploading, quotes,
                   credits, confirming, jobs, jumped>>

Init ==
    /\ page = "new" /\ draft = NoDraft /\ idea = None /\ script = None /\ brought = None
    /\ text = {} /\ who = "clip" /\ step = 0 /\ continuing = FALSE /\ uploading = FALSE
    /\ quotes = {} /\ credits = NoPrice /\ confirming = FALSE /\ starting = FALSE
    /\ sends = {} /\ jobs = 0 /\ again = FALSE /\ jumped = FALSE

Next ==
    \/ \E t \in Texts : OwnIdea(t) \/ Approve(t)
    \/ \E t \in Texts : StepObjective(t) \/ StepFormat(t) \/ StepScript(t)
    \/ ContinueToSetup \/ Visit \/ Leave
    \/ handleContinue \/ Continued \/ Back \/ upload \/ RetryQuote \/ generate
    \/ \E n \in 0 .. Last : PickStep(n)
    \/ \E w \in {"clip", "avatar"} : SavedAvatar(w)
    \/ \E b \in BOOLEAN : UploadEnds(b) \/ Confirm(b)
    \/ \E q \in quotes, ok \in BOOLEAN : Quoted(q, ok)
    \/ \E s \in sends : \/ \E told \in BOOLEAN : Started(s, told)
                        \/ NotStarted(s) \/ ProjectMade(s) \/ ProjectRefused(s)

Spec == Init /\ [][Next]_vars

-----------------------------------------------------------------------------
\* The price on the review step is that of the request the form would send, whatever
\* quote comes late and whatever an upload changes behind it.
PriceIsOfTheRequest ==
    page = "form" /\ step = Last /\ credits # NoPrice => credits = Priced(who, text)

\* One confirmation pays for one video, unless an error told the person to try again
\* or they left the review step while it was being started.
OneVideoPerConfirmation == again \/ jobs + Cardinality({s \in sends : s.stage = "asked"}) <= 1

\* The form holds the idea that was described, or the script that was approved, on the
\* way to it, whatever an earlier visit had left in the storage.
ChoiceArrives == page = "form" /\ brought # None => text = brought

\* The form shows one of its five steps, unless a step was picked while Continue's
\* timer ran.
SetupStepExists == jumped \/ step <= Last
=============================================================================
