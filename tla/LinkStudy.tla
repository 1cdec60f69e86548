-------------------------------- MODULE LinkStudy --------------------------------
(* The new video page's ways to study a video (features/new-video): a pasted link   *)
(* is fetched, watched and only then analysed; a trending search is analysed at     *)
(* once. A fetch or an analysis is a job: the screen starts it under a new key when *)
(* it mounts, or picks up the one the address names, and follows it until it ends,  *)
(* fails or takes too long. Drafts in the sidebar lead to the same page with        *)
(* another job in the address, and the page's components stay mounted.              *)
EXTENDS Integers, Sequences, FiniteSets

CONSTANTS
    Links,      \* videos on a platform
    Drafts,     \* the jobs the sidebar lists to begin with: [kind, link, state]
    MaxJobs     \* bound: jobs, with those on their way

VARIABLES
    route,      \* the address: the panel, and the job it names or 0
    submitted,  \* the link pasted, NoLink for a resumed fetch, or NotYet
    approved,   \* what an analysis was asked for, NoLink for a resumed one, or NotYet
    searching, found,   \* the trending search
    shown,      \* the job whose video or analysis is on screen, or 0
    drafted,    \* the analysis the script being edited came from, or 0
    failed,     \* an error is on screen
    tasks,      \* effects under way: [kind, link, job, phase, live]
    jobs,       \* the jobs, in the order they were made
    script,     \* the analyses behind the script that was approved, and on screen then
    seen,       \* history: links whose video was on screen when they were approved
    swapped,    \* history: a draft was opened in place of another link since the page was mounted
    kept,       \* history: what was on screen when a draft was opened in its place
    spinning    \* history: a resumed analysis whose first read was lost

screen == <<shown, drafted, failed>>
vars == <<route, submitted, approved, searching, found, screen, tasks, jobs, script, seen, swapped,
          kept, spinning>>

NoLink == "no link"
NotYet == "not yet"
NoScript == [text |-> 0, shown |-> 0, swapped |-> FALSE]
Kinds == {"preview", "analysis"}
Tasks == [kind : Kinds, link : Links \cup {NoLink}, job : 0 .. MaxJobs, phase : {"ask", "read", "watch"},
          live : BOOLEAN]

TypeOK ==
    /\ route \in [panel : {"link", "trending"}, job : 0 .. MaxJobs]
    /\ submitted \in Links \cup {NoLink, NotYet} /\ approved \in Links \cup {NoLink, NotYet}
    /\ searching \in BOOLEAN /\ found \subseteq Links
    /\ shown \in 0 .. MaxJobs /\ drafted \in 0 .. MaxJobs /\ failed \in BOOLEAN
    /\ tasks \subseteq Tasks
    /\ jobs \in Seq([kind : Kinds, link : Links, state : {"open", "done", "failed"}])
    /\ script \in [text : 0 .. MaxJobs, shown : 0 .. MaxJobs, swapped : BOOLEAN]
    /\ seen \subseteq Links /\ swapped \in BOOLEAN /\ kept \in 0 .. MaxJobs /\ spinning \in BOOLEAN

-----------------------------------------------------------------------------
At == IF approved # NotYet THEN "analysis"
      ELSE IF submitted # NotYet THEN "preview" ELSE "form"

\* The job the address names is passed on to the screen of its own stage.
Resumes(r, kind) == IF r.job # 0 /\ jobs[r.job].kind = kind THEN r.job ELSE 0

\* Mutation of Cancelled: what a screen waits for is not cancelled with it.
Cancelled_Not == tasks

\* Requests that are out may still start a job; nobody waits for the rest.
Cancelled == {[t EXCEPT !.live = FALSE] : t \in {u \in tasks : u.phase = "ask"}}
Effect(r, kind, link) ==
    LET j == Resumes(r, kind)
    IN [kind |-> kind, link |-> IF j = 0 THEN link ELSE NoLink, job |-> j, live |-> TRUE,
        phase |-> IF j = 0 THEN "ask" ELSE IF kind = "preview" THEN "watch" ELSE "read"]

\* A look that was out when an analysis was cancelled is not called back, and the screen,
\* when it stays mounted, still hears a refusal.
LateLooks == {[t EXCEPT !.live = FALSE] : t \in {u \in tasks : u.kind = "analysis" /\ u.phase = "watch"}}
IsLate(t) == t.phase = "watch" /\ ~ t.live
Room == Len(jobs) + Cardinality({t \in Cancelled : t.link # NoLink}) < MaxJobs

\* A screen is mounted afresh: nothing on it, and its effect begins.
Mount(r, kind, link) ==
    /\ tasks' = Cancelled \cup {Effect(r, kind, link)}
    /\ Resumes(r, kind) = 0 /\ link # NoLink => Room
    /\ shown' = 0 /\ drafted' = 0 /\ failed' = FALSE /\ kept' = 0 /\ spinning' = FALSE

Unmount ==
    /\ tasks' = Cancelled
    /\ shown' = 0 /\ drafted' = 0 /\ failed' = FALSE /\ kept' = 0 /\ spinning' = FALSE

-----------------------------------------------------------------------------
\* The option tiles: another panel is mounted, or this one anew.
PickOption(p) ==
    /\ route' = [panel |-> p, job |-> 0]
    /\ submitted' = NotYet /\ approved' = NotYet /\ searching' = FALSE /\ found' = {}
    /\ swapped' = FALSE
    /\ Unmount
    /\ UNCHANGED <<jobs, script, seen>>

\* A draft that is running, or has lately completed, is opened from the sidebar.
Draftworthy(j) == jobs[j].state # "failed"
OpenDraft(j) ==
    /\ route.panel # "link" /\ Draftworthy(j)
    /\ route' = [panel |-> "link", job |-> j] /\ swapped' = FALSE
    /\ searching' = FALSE /\ found' = {}
    /\ submitted' = IF jobs[j].kind = "preview" THEN NoLink ELSE NotYet
    /\ approved' = IF jobs[j].kind = "analysis" THEN NoLink ELSE NotYet
    /\ Mount(route', jobs[j].kind, NoLink)
    /\ UNCHANGED <<jobs, script, seen>>

\* In place of another link: the panel keeps its state, and the screen's effect runs
\* again only if the job it is given has changed.
OpenDraftInPlace(j) ==
    /\ route.panel = "link" /\ Draftworthy(j) /\ j # route.job
    /\ route' = [route EXCEPT !.job = j] /\ swapped' = TRUE
    /\ IF At # "form" /\ Resumes(route, At) # Resumes(route', At)
       THEN LET link == IF At = "preview" THEN submitted ELSE approved
            IN /\ tasks' = Cancelled \cup LateLooks \cup {Effect(route', At, link)}
               /\ Resumes(route', At) = 0 /\ link # NoLink => Room
               /\ kept' = shown /\ spinning' = FALSE
       ELSE UNCHANGED <<tasks, kept, spinning>>
    /\ UNCHANGED <<submitted, approved, searching, found, screen, jobs, script, seen>>

\* "Preview video" in the link form.
submit(l) ==
    /\ route.panel = "link" /\ At = "form"
    /\ submitted' = l
    /\ Mount(route, "preview", l)
    /\ UNCHANGED <<route, approved, searching, found, jobs, script, seen, swapped>>

\* "Analyze video": the address the fetch resolved, which is what is on screen.
CanonicalUrl == jobs[shown].link
onApprove ==
    /\ route.panel = "link" /\ At = "preview" /\ ~ failed /\ shown # 0
    /\ approved' = CanonicalUrl
    /\ seen' = seen \cup {jobs[shown].link}
    /\ Mount(route, "analysis", approved')
    /\ UNCHANGED <<route, submitted, searching, found, jobs, script, swapped>>

\* Back from an analysis mounts the preview anew, which fetches again.
onBack ==
    /\ At # "form"
    /\ IF At = "analysis" THEN approved' = NotYet /\ UNCHANGED submitted
                          ELSE submitted' = NotYet /\ UNCHANGED approved
    /\ IF At = "analysis" /\ submitted # NotYet THEN Mount(route, "preview", submitted) ELSE Unmount
    /\ UNCHANGED <<route, searching, found, jobs, script, seen, swapped>>

-----------------------------------------------------------------------------
\* The trending panel: one search at a time, and a result is picked to be analysed.
search ==
    /\ route.panel = "trending" /\ At = "form" /\ ~ searching
    /\ searching' = TRUE /\ found' = {}
    /\ UNCHANGED <<route, submitted, approved, screen, tasks, jobs, script, seen, swapped, kept, spinning>>

SearchEnds(ls) ==
    /\ route.panel = "trending" /\ searching
    /\ searching' = FALSE /\ found' = ls
    /\ UNCHANGED <<route, submitted, approved, screen, tasks, jobs, script, seen, swapped, kept, spinning>>

onAnalyze(l) ==
    /\ route.panel = "trending" /\ At = "form" /\ l \in found
    /\ approved' = l /\ seen' = seen \cup {l}
    /\ Mount(route, "analysis", l)
    /\ UNCHANGED <<route, submitted, searching, found, jobs, script, swapped>>

-----------------------------------------------------------------------------
\* The server takes a request for a link and makes its job; the answer may be lost.
\* It refuses one without a link.
Started(t, told) ==
    /\ t \in tasks /\ t.phase = "ask" /\ t.link # NoLink
    /\ jobs' = Append(jobs, [kind |-> t.kind, link |-> t.link, state |-> "open"])
    /\ tasks' = (tasks \ {t}) \cup IF told /\ t.live
                                   THEN {[t EXCEPT !.job = Len(jobs'), !.phase = "watch"]} ELSE {}
    /\ failed' = (failed \/ (t.live /\ ~ told))
    /\ UNCHANGED <<route, submitted, approved, searching, found, shown, drafted, script, seen, swapped,
                   kept, spinning>>

Refused(t) ==
    /\ t \in tasks /\ t.phase = "ask"
    /\ tasks' = tasks \ {t}
    /\ failed' = (failed \/ t.live)
    /\ UNCHANGED <<route, submitted, approved, searching, found, shown, drafted, jobs, script, seen,
                   swapped, kept, spinning>>

Ends(j, how) ==
    /\ jobs[j].state = "open" /\ jobs' = [jobs EXCEPT ![j].state = how]
    /\ UNCHANGED <<route, submitted, approved, searching, found, screen, tasks, script, seen, swapped,
                   kept, spinning>>

\* The job is read: its result is put on screen, or its failure. The editor of a
\* script takes its text from the first analysis it is given.
Apply(t) ==
    /\ shown' = IF jobs[t.job].state = "done" THEN t.job ELSE shown
    /\ drafted' = IF jobs[t.job].state = "done" /\ t.kind = "analysis" /\ drafted = 0 THEN t.job ELSE drafted
    /\ failed' = (failed \/ jobs[t.job].state = "failed")
Seen(t) ==
    /\ t \in tasks /\ t.phase \in {"read", "watch"} /\ t.live /\ jobs[t.job].state # "open"
    /\ tasks' = tasks \ {t}
    /\ Apply(t)
    /\ UNCHANGED <<route, submitted, approved, searching, found, jobs, script, seen, swapped, kept, spinning>>

\* The first read of a resumed analysis: the job still runs, the read is refused, or
\* it is lost, and then nobody looks again.
StillOpen(t) ==
    /\ t \in tasks /\ t.phase = "read" /\ jobs[t.job].state = "open"
    /\ tasks' = (tasks \ {t}) \cup {[t EXCEPT !.phase = "watch"]}
    /\ UNCHANGED <<route, submitted, approved, searching, found, screen, jobs, script, seen, swapped,
                   kept, spinning>>
ReadLost(t) ==
    /\ t \in tasks /\ t.phase = "read"
    /\ tasks' = tasks \ {t} /\ spinning' = TRUE
    /\ UNCHANGED <<route, submitted, approved, searching, found, screen, jobs, script, seen, swapped, kept>>

\* A refused read, or the time a job may take is over.
GivenUp(t) ==
    /\ t \in tasks /\ t.phase \in {"read", "watch"} /\ t.live
    /\ tasks' = tasks \ {t} /\ failed' = TRUE
    /\ UNCHANGED <<route, submitted, approved, searching, found, shown, drafted, jobs, script, seen,
                   swapped, kept, spinning>>

\* The answer of a late look: a job is dropped, a refusal is put on screen.
LateAnswer(t) ==
    /\ t \in tasks /\ IsLate(t)
    /\ tasks' = tasks \ {t} /\ failed' \in {failed, TRUE}
    /\ UNCHANGED <<route, submitted, approved, searching, found, shown, drafted, jobs, script, seen,
                   swapped, kept, spinning>>

\* "Approve script" stores what the editor holds.
ApproveScript ==
    /\ At = "analysis" /\ ~ failed /\ shown # 0
    /\ script' = [text |-> drafted, shown |-> shown, swapped |-> swapped]
    /\ UNCHANGED <<route, submitted, approved, searching, found, screen, tasks, jobs, seen, swapped,
                   kept, spinning>>

Init ==
    /\ route \in [panel : {"link", "trending"}, job : {0}]
    /\ submitted = NotYet /\ approved = NotYet /\ searching = FALSE /\ found = {}
    /\ shown = 0 /\ drafted = 0 /\ failed = FALSE /\ tasks = {} /\ jobs = Drafts
    /\ script = NoScript /\ seen = {} /\ swapped = FALSE /\ kept = 0 /\ spinning = FALSE

Next ==
    \/ \E p \in {"link", "trending"} : PickOption(p)
    \/ \E j \in DOMAIN jobs : OpenDraft(j) \/ OpenDraftInPlace(j) \/ Ends(j, "done") \/ Ends(j, "failed")
    \/ \E l \in Links : submit(l) \/ onAnalyze(l)
    \/ onApprove \/ onBack \/ search \/ ApproveScript
    \/ \E ls \in SUBSET Links : SearchEnds(ls)
    \/ \E t \in tasks : \/ \E told \in BOOLEAN : Started(t, told)
                        \/ Refused(t) \/ Seen(t) \/ StillOpen(t) \/ ReadLost(t) \/ GivenUp(t)
                        \/ LateAnswer(t)

Spec == Init /\ [][Next]_vars

-----------------------------------------------------------------------------
\* What the screen is for: the job the address names, or else the link that was
\* submitted or approved.
IsFor(job, link) ==
    LET j == Resumes(route, At)
    IN IF j # 0 THEN job = j ELSE link = IF At = "preview" THEN submitted ELSE approved

\* A video or an analysis that was not on screen before is what the screen is for: late
\* results for a screen that was left, or for the draft before, are dropped.
LateResultsAreDropped == shown \notin {0, kept} => IsFor(shown, jobs[shown].link)

\* An error that appears is of what the screen is for, with one exception: the refusal of
\* a look that was already out at an analysis when a draft was opened in its place
\* (analysis-view.tsx:75 does not ask whether it was cancelled, as :71 and :62 do).
ErrorsAreOfTheScreen ==
    [][failed' /\ ~ failed =>
          \E t \in tasks \ tasks' : IF IsLate(t) THEN swapped ELSE t.kind = At /\ IsFor(t.job, t.link)]_vars

\* No job analyses a video the person had not on screen when they asked for it.
NothingAnalysedUnseen ==
    \A j \in DOMAIN jobs : j > Len(Drafts) /\ jobs[j].kind = "analysis" => jobs[j].link \in seen

\* The script that is approved is a draft of the analysis it was read beside, unless
\* drafts were opened in one another's place.
ScriptIsOfItsAnalysis == script.swapped \/ script.text = script.shown

\* A screen that waits for its job is followed by an effect, which ends in a result or
\* an error within the time a job may take, unless the one read that a resumed analysis
\* begins with was lost.
Waiting == At # "form" /\ shown = 0 /\ ~ failed
WaitingIsFollowed == Waiting /\ ~ spinning => \E t \in tasks : t.live

\* What the page says of the video it plays.
PastedLinkIsShown ==
    At = "preview" /\ shown # 0 /\ submitted # NoLink => jobs[shown].link = submitted
=============================================================================
