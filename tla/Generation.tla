------------------------------ MODULE Generation ------------------------------
(* A video made for a project (components/live-avatar-job.tsx): the page that     *)
(* opens the project (app/editor/[id]/page.tsx), the watcher it shows while the    *)
(* video is made, the copy into the person's own files, the clip on the timeline,  *)
(* and the paid retry of one that failed.                                          *)
(*                                                                                *)
(* The store outlives the screen, and so do the calls a screen is waiting for:     *)
(* `mount` counts the openings of the studio and each has its own watcher.  Jobs   *)
(* are numbered in the order they are started; job 1 was started with the project. *)
EXTENDS Integers, FiniteSets

CONSTANTS
    Home,       \* the project the videos are made for
    Elsewhere,  \* another project of the same person
    MaxJobs,    \* bound: videos paid for
    MaxMounts   \* bound: openings of the studio

Jobs == 1 .. MaxJobs
Mounts == 1 .. MaxMounts
Projects == {Home, Elsewhere}

VARIABLES
    job,        \* job[j] : what the server says of it
    stored,     \* stored[p] : the document the server has
    held, doc,  \* the project in the store, and its document
    mount, open, \* the opening of the studio, and the project it shows
    view,       \* what the watcher on screen shows
    adopting,   \* adopting[m] : the ref that keeps finish to one call at a time
    call,       \* call[m] : the step finish waits for, and for which job
    retry,      \* retry[m] : the step a retry waits for
    rejected    \* history: a call of finish failed to reach the server at all

vars == <<job, stored, held, doc, mount, open, view, adopting, call, retry, rejected>>
watcher == <<view, adopting, call, retry, rejected>>
page == <<held, mount, open>>

None == 0
\* `record` is the job the document names, `clips` counts the clips of each video.
Documents == [record : {None} \cup Jobs, clips : [Jobs -> 0 .. 2]]
View == [job : {None} \cup Jobs, finished : BOOLEAN, failed : BOOLEAN,
         retrying : BOOLEAN, confirm : BOOLEAN]
Nothing == [job |-> None, finished |-> FALSE, failed |-> FALSE, retrying |-> FALSE, confirm |-> FALSE]
Idle == [step |-> "idle", job |-> None]

TypeOK ==
    /\ job \in [Jobs -> {"none", "working", "done", "failed"}]
    /\ stored \in [Projects -> Documents] /\ held \in Projects \cup {None} /\ doc \in Documents
    /\ mount \in 0 .. MaxMounts /\ open \in Projects \cup {None} /\ view \in View
    /\ adopting \in [Mounts -> BOOLEAN]
    /\ call \in [Mounts -> [step : {"idle", "status", "copy"}, job : {None} \cup Jobs]]
    /\ retry \in [Mounts -> [step : {"idle", "checking", "starting"}, job : {None} \cup Jobs]]
    /\ rejected \in BOOLEAN

-----------------------------------------------------------------------------
Blank == [record |-> None, clips |-> [j \in Jobs |-> 0]]

\* A project with nothing in it but the record of its job is given to the screen as
\* an empty project: the record goes to the watcher and not into the store.
ToScreen(d) == IF d.clips = Blank.clips THEN Blank ELSE d

\* placeGeneratedVideo: the end of the video track is free, so it is placed, once.
Placed(d, j) == IF d.clips[j] > 0 THEN d ELSE [d EXCEPT !.clips[j] = 1]

\* saveGenerationState: only the project that names the expected job is changed.
Recorded(d, next, expected) == IF d.record # expected THEN d ELSE [d EXCEPT !.record = next]

\* setState of a screen that has gone is nothing.
Shown(m, v) == IF m = mount /\ open # None THEN v ELSE view

-----------------------------------------------------------------------------
(* The studio *)

Enter(p) ==
    /\ open = None /\ mount < MaxMounts
    /\ mount' = mount + 1 /\ open' = p /\ held' = p
    /\ doc' = IF held = p THEN doc ELSE ToScreen(stored[p])
    /\ view' = [Nothing EXCEPT !.job = stored[p].record]
    /\ UNCHANGED <<job, stored, adopting, call, retry, rejected>>

Leave ==
    /\ open # None /\ open' = None
    /\ view' = Nothing
    /\ UNCHANGED <<job, stored, held, doc, mount, adopting, call, retry, rejected>>

\* The person edits, and the studio saves what it holds (module Autosave).
Save ==
    /\ open # None
    /\ stored' = [stored EXCEPT ![open] = doc]
    /\ UNCHANGED <<job, doc, page, watcher>>

Delete(j) ==
    /\ open # None /\ doc.clips[j] > 0
    /\ doc' = [doc EXCEPT !.clips[j] = 0]
    /\ UNCHANGED <<job, stored, page, watcher>>

-----------------------------------------------------------------------------
(* The watcher *)

Watching == open # None /\ view.job # None /\ ~ view.finished

\* By the interval, a reconnect or a push that the job is complete.
Finish ==
    /\ Watching
    /\ ~ adopting[mount]
    /\ adopting' = [adopting EXCEPT ![mount] = TRUE]
    /\ call' = [call EXCEPT ![mount] = [step |-> "status", job |-> view.job]]
    /\ UNCHANGED <<job, stored, doc, page, view, retry, rejected>>

Failing(m) ==
    /\ call' = [call EXCEPT ![m] = Idle]
    /\ adopting' = [adopting EXCEPT ![m] = FALSE]
    /\ view' = Shown(m, [view EXCEPT !.finished = TRUE, !.failed = TRUE])
    /\ UNCHANGED <<job, stored, doc, page, retry, rejected>>

\* sceneStatus answers: what the server says, or an error that reads as a failure.
StatusFailed(m) ==
    /\ call[m].step = "status"
    /\ Failing(m)

StatusWorking(m) ==
    /\ call[m].step = "status" /\ job[call[m].job] = "working"
    /\ call' = [call EXCEPT ![m] = Idle]
    /\ adopting' = [adopting EXCEPT ![m] = FALSE]
    /\ view' = Shown(m, [view EXCEPT !.failed = FALSE])
    /\ UNCHANGED <<job, stored, doc, page, retry, rejected>>

StatusDone(m) ==
    /\ call[m].step = "status" /\ job[call[m].job] = "done"
    /\ call' = [call EXCEPT ![m].step = "copy"]
    /\ UNCHANGED <<job, stored, doc, page, view, adopting, retry, rejected>>

\* The copy is made: the clip goes into whatever project the store holds by now, and
\* the ref stays set.
Copied(m) ==
    /\ call[m].step = "copy"
    /\ doc' = Recorded(Placed(doc, call[m].job), call[m].job, call[m].job)
    /\ call' = [call EXCEPT ![m] = Idle]
    /\ view' = Shown(m, [view EXCEPT !.finished = TRUE, !.failed = FALSE])
    /\ UNCHANGED <<job, stored, page, adopting, retry, rejected>>

NotCopied(m) == call[m].step = "copy" /\ Failing(m)

\* The call itself is rejected (the page is offline): nothing catches it, and the ref
\* stays set.
Rejected(m) ==
    /\ call[m].step # "idle"
    /\ call' = [call EXCEPT ![m] = Idle]
    /\ rejected' = TRUE
    /\ UNCHANGED <<job, stored, doc, page, view, adopting, retry>>

\* A push that the job has failed needs no look.
PushFailed ==
    /\ Watching /\ job[view.job] = "failed"
    /\ view' = [view EXCEPT !.finished = TRUE, !.failed = TRUE]
    /\ UNCHANGED <<job, stored, doc, page, adopting, call, retry, rejected>>

-----------------------------------------------------------------------------
(* The retry *)

PrepareRetry ==
    /\ open # None /\ view.failed /\ ~ view.retrying /\ ~ view.confirm
    /\ view' = [view EXCEPT !.retrying = TRUE]
    /\ retry' = [retry EXCEPT ![mount] = [step |-> "checking", job |-> view.job]]
    /\ UNCHANGED <<job, stored, doc, page, adopting, call, rejected>>

Settle(m, v) ==
    /\ retry' = [retry EXCEPT ![m] = Idle]
    /\ view' = Shown(m, [v EXCEPT !.retrying = FALSE])

\* The job is looked at again, and only one that has failed is priced.  A screen that
\* has gone goes on all the same.
Recheck(m) ==
    /\ retry[m].step = "checking"
    /\ UNCHANGED <<job, stored, doc, page, rejected>>
    /\ \/ /\ job[retry[m].job] = "done"
          /\ Settle(m, [view EXCEPT !.finished = FALSE, !.failed = FALSE])
          /\ adopting' = [adopting EXCEPT ![m] = TRUE]
          /\ call' = [call EXCEPT ![m] = [step |-> "status", job |-> retry[m].job]]
       \/ /\ job[retry[m].job] = "working"
          /\ Settle(m, [view EXCEPT !.finished = FALSE, !.failed = FALSE])
          /\ UNCHANGED <<adopting, call>>
       \/ /\ job[retry[m].job] = "failed"
          /\ Settle(m, [view EXCEPT !.confirm = TRUE])
          /\ UNCHANGED <<adopting, call>>

CancelRetry ==
    /\ open # None /\ view.confirm /\ ~ view.retrying
    /\ view' = [view EXCEPT !.confirm = FALSE]
    /\ UNCHANGED <<job, stored, doc, page, adopting, call, retry, rejected>>

RetryGeneration ==
    /\ open # None /\ view.failed /\ view.confirm /\ ~ view.retrying
    /\ view' = [view EXCEPT !.retrying = TRUE, !.confirm = FALSE]
    /\ retry' = [retry EXCEPT ![mount] = [step |-> "starting", job |-> view.job]]
    /\ UNCHANGED <<job, stored, doc, page, adopting, call, rejected>>

Unused == CHOOSE j \in Jobs : job[j] = "none" /\ \A i \in 1 .. j - 1 : job[i] # "none"

\* The server starts another job; the answer may be lost, and the key was used once.
Started(m) ==
    /\ retry[m].step = "starting"
    /\ \E j \in Jobs : job[j] = "none"
    /\ job' = [job EXCEPT ![Unused] = "working"]
    /\ \/ /\ doc' = Recorded(doc, Unused, retry[m].job)
          /\ Settle(m, [view EXCEPT !.job = Unused, !.finished = FALSE, !.failed = FALSE])
       \/ UNCHANGED doc /\ Settle(m, view)
    /\ UNCHANGED <<stored, page, adopting, call, rejected>>

\* The look, the price or the start is refused or rejected: caught, and shown.
NotStarted(m) ==
    /\ retry[m].step # "idle"
    /\ Settle(m, view)
    /\ UNCHANGED <<job, stored, doc, page, adopting, call, rejected>>

\* The server's side of a job.
Run(j) ==
    /\ job[j] = "working"
    /\ \E s \in {"done", "failed"} : job' = [job EXCEPT ![j] = s]
    /\ UNCHANGED <<stored, doc, page, watcher>>

Init ==
    /\ job = [j \in Jobs |-> IF j = 1 THEN "working" ELSE "none"]
    /\ stored = [p \in Projects |-> IF p = Home THEN [Blank EXCEPT !.record = 1] ELSE Blank]
    /\ held = None /\ doc = Blank
    /\ mount = 0 /\ open = None /\ view = Nothing
    /\ adopting = [m \in Mounts |-> FALSE] /\ call = [m \in Mounts |-> Idle]
    /\ retry = [m \in Mounts |-> Idle] /\ rejected = FALSE

Answers(m) ==
    \/ StatusFailed(m) \/ StatusWorking(m) \/ StatusDone(m)
    \/ Copied(m) \/ NotCopied(m) \/ Rejected(m)

Next ==
    \/ \E p \in Projects : Enter(p)
    \/ Leave
    \/ Save
    \/ \E j \in Jobs : Delete(j) \/ Run(j)
    \/ Finish \/ PushFailed
    \/ \E m \in Mounts : Answers(m) \/ Recheck(m) \/ Started(m) \/ NotStarted(m)
    \/ PrepareRetry \/ CancelRetry \/ RetryGeneration

Spec == Init /\ [][Next]_vars

\* The interval ticks, and every call is answered or rejected.
FairSpec ==
    /\ Spec
    /\ WF_vars(Finish)
    /\ \A m \in Mounts : WF_vars(Answers(m))

-----------------------------------------------------------------------------
\* A video is on the timeline once, however often the project is opened while it is
\* made and however many watchers saw it finish.
NoVideoTwice == \A j \in Jobs : doc.clips[j] <= 1

\* A retry is only paid for when the server has said that the video it replaces has
\* failed: not when it is still being made, nor when only the copy of it failed.
PaidAgainOnlyForAFailure ==
    [][\A m \in Mounts : retry[m].step = "starting" /\ retry'[m] = Idle /\ job' # job
            => job[retry[m].job] = "failed"]_vars

\* A watcher on screen brings the finished video to the timeline or says that it
\* could not, unless one of its calls never reached the server.
WatchedVideoArrives ==
    Watching /\ job[view.job] = "done" ~>
        \/ rejected
        \/ view.finished
        \/ ~ Watching

\* live-avatar-job.tsx:30: "Generation is running. You can leave and reopen this
\* project": whoever opens the project later sees its video arrive, or its failure.
ReopenedProjectGetsItsVideo ==
    open = Home /\ job[1] = "done" ~>
        \/ rejected
        \/ view.failed
        \/ open # Home
        \/ doc.clips[1] > 0
=============================================================================
