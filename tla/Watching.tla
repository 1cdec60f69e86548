---------------------------------- MODULE Watching ----------------------------------
(* What the web client waits for: film that plays, a recording, a job that is     *)
(* followed, a video made while the studio is closed and opened, and the studio's *)
(* assistant.  These parts share no variable: each behaviour is about one of      *)
(* them, which `screen` names, and what is fair is asked of that one alone.       *)
EXTENDS Integers

CONSTANTS
    MaxLength, Beyond, MaxRenewals, MaxActs,    \* see Playback
    MinSeconds, MaxSeconds, MaxOpens,           \* see TwinRecorder
    Prompts, Empty, MaxKeys, MaxReads,          \* see JobFollow
    Home, Elsewhere, MaxJobs, MaxMounts,        \* see Generation
    Asks, Scenes, Facts, MaxPanels, MaxLooks,   \* see Assistant
    ClipProjects, MaxPresses, MaxTabs           \* see AvatarClip

VARIABLES
    screen,     \* the part of the client this behaviour is about
    play_length, play_time, play_playing, play_link, play_source, play_sounding,
    play_changed, play_acts,
    rec_mounted, rec_left, rec_request, rec_pending, rec_live, rec_stream, rec_recorder,
    rec_stopping, rec_state, rec_seconds, rec_ref, rec_ticking, rec_recording, rec_sent,
    rec_unplugged,
    follow_panel, follow_jobs, follow_prompt, follow_key, follow_starting, follow_shown,
    follow_error, follow_socket, follow_pushes, follow_reads, follow_told,
    follow_misled, follow_unread,
    make_job, make_stored, make_held, make_doc, make_mount, make_open, make_view,
    make_adopting, make_call, make_retry, make_rejected,
    ask_panel, ask_shown, ask_busy, ask_sent, ask_step, ask_todo, ask_card, ask_fact,
    ask_keeping, ask_kept, ask_flow, ask_looks, ask_job, ask_clips, ask_late,
    ask_rejected,
    clip_held, clip_panel, clip_shown, clip_avatars, clip_script, clip_phase, clip_by,
    clip_asked, clip_step, clip_past, clip_job, clip_landed, clip_lost

playVars == <<play_length, play_time, play_playing, play_link, play_source,
    play_sounding, play_changed, play_acts>>
play == INSTANCE Playback WITH
    length <- play_length, time <- play_time, playing <- play_playing,
    link <- play_link, source <- play_source, sounding <- play_sounding,
    changed <- play_changed, acts <- play_acts

recVars == <<rec_mounted, rec_left, rec_request, rec_pending, rec_live, rec_stream,
    rec_recorder, rec_stopping, rec_state, rec_seconds, rec_ref, rec_ticking,
    rec_recording, rec_sent, rec_unplugged>>
rec == INSTANCE TwinRecorder WITH
    mounted <- rec_mounted, left <- rec_left, request <- rec_request,
    pending <- rec_pending, live <- rec_live, stream <- rec_stream,
    recorder <- rec_recorder, stopping <- rec_stopping,
    state <- rec_state, seconds <- rec_seconds, ref <- rec_ref, ticking <- rec_ticking,
    recording <- rec_recording, sent <- rec_sent, unplugged <- rec_unplugged

followVars == <<follow_panel, follow_jobs, follow_prompt, follow_key, follow_starting,
    follow_shown, follow_error, follow_socket, follow_pushes, follow_reads,
    follow_told, follow_misled, follow_unread>>
follow == INSTANCE JobFollow WITH
    panel <- follow_panel, jobs <- follow_jobs, prompt <- follow_prompt,
    key <- follow_key, starting <- follow_starting, shown <- follow_shown,
    error <- follow_error, socket <- follow_socket, pushes <- follow_pushes,
    reads <- follow_reads, told <- follow_told, misled <- follow_misled,
    unread <- follow_unread

makeVars == <<make_job, make_stored, make_held, make_doc, make_mount, make_open,
    make_view, make_adopting, make_call, make_retry, make_rejected>>
make == INSTANCE Generation WITH
    job <- make_job, stored <- make_stored, held <- make_held, doc <- make_doc, mount <- make_mount,
    open <- make_open, view <- make_view, adopting <- make_adopting, call <- make_call,
    retry <- make_retry, rejected <- make_rejected

askVars == <<ask_panel, ask_shown, ask_busy, ask_sent, ask_step, ask_todo, ask_card,
    ask_fact, ask_keeping, ask_kept, ask_flow, ask_looks, ask_job, ask_clips,
    ask_late, ask_rejected>>
ask == INSTANCE Assistant WITH
    panel <- ask_panel, shown <- ask_shown, busy <- ask_busy,
    sent <- ask_sent, step <- ask_step, todo <- ask_todo, card <- ask_card,
    fact <- ask_fact, keeping <- ask_keeping, kept <- ask_kept, flow <- ask_flow,
    looks <- ask_looks, job <- ask_job, clips <- ask_clips, late <- ask_late,
    rejected <- ask_rejected

clipVars == <<clip_held, clip_panel, clip_shown, clip_avatars, clip_script, clip_phase,
    clip_by, clip_asked, clip_step, clip_past, clip_job, clip_landed,
    clip_lost>>
clip == INSTANCE AvatarClip WITH
    Projects <- ClipProjects, MaxPanels <- MaxTabs, held <- clip_held,
    panel <- clip_panel, shown <- clip_shown, avatars <- clip_avatars,
    script <- clip_script, phase <- clip_phase, by <- clip_by, asked <- clip_asked,
    step <- clip_step, past <- clip_past, job <- clip_job, landed <- clip_landed,
    lost <- clip_lost

-----------------------------------------------------------------------------
(* What the parts take for granted of their parameters.                          *)

PlayAssumption ==
    MaxLength \in Nat /\ Beyond \in Nat /\ MaxRenewals \in Nat /\ MaxActs \in Nat

RecAssumption == MinSeconds \in Nat /\ MaxSeconds \in Nat /\ MaxOpens \in Nat

\* To ask for nothing is to give an empty prompt, and there is an attempt.
FollowAssumption == Empty \in Prompts /\ MaxKeys \in Nat \ {0} /\ MaxReads \in Nat

\* The project's first video is paid for already.
MakeAssumption == MaxJobs \in Nat \ {0} /\ MaxMounts \in Nat

\* The first look at a job comes with its start.
AskAssumption == MaxPanels \in Nat /\ MaxLooks \in Nat \ {0}

ClipAssumption == MaxPresses \in Nat /\ MaxTabs \in Nat

ASSUME PartsAssumption ==
    /\ PlayAssumption /\ RecAssumption /\ FollowAssumption
    /\ MakeAssumption /\ AskAssumption /\ ClipAssumption

-----------------------------------------------------------------------------
Screens == {"playback", "recorder", "job", "generation", "assistant", "clip"}

WatchingInit ==
    /\ screen \in Screens
    /\ play!Init /\ rec!Init /\ follow!Init /\ make!Init /\ ask!Init /\ clip!Init

WatchingNext ==
    /\ UNCHANGED screen
    /\ \/ screen = "playback" /\ play!Next
          /\ UNCHANGED <<recVars, followVars, makeVars, askVars, clipVars>>
       \/ screen = "recorder" /\ rec!Next
          /\ UNCHANGED <<playVars, followVars, makeVars, askVars, clipVars>>
       \/ screen = "job" /\ follow!Next
          /\ UNCHANGED <<playVars, recVars, makeVars, askVars, clipVars>>
       \/ screen = "generation" /\ make!Next
          /\ UNCHANGED <<playVars, recVars, followVars, askVars, clipVars>>
       \/ screen = "assistant" /\ ask!Next
          /\ UNCHANGED <<playVars, recVars, followVars, makeVars, clipVars>>
       \/ screen = "clip" /\ clip!Next
          /\ UNCHANGED <<playVars, recVars, followVars, makeVars, askVars>>

WatchingVars == <<screen, playVars, recVars, followVars, makeVars, askVars, clipVars>>
WatchingSpec == WatchingInit /\ [][WatchingNext]_WatchingVars

\* Which panel follows a job matters to its own screen only, and the project opened first
\* is as good as any other.
Start ==
    /\ WatchingInit
    /\ screen # "job" => follow_panel = "avatar"
    /\ clip_held = CHOOSE p \in ClipProjects : TRUE

FairWatching ==
    /\ Start /\ [][WatchingNext]_WatchingVars
    /\ WF_playVars(screen = "playback" /\ play!Frame)
    /\ WF_recVars(screen = "recorder" /\ rec!Tick)
    /\ \A r \in rec!Opens : WF_recVars(screen = "recorder" /\ rec!OnStop(r))
    /\ WF_followVars(screen = "job" /\ follow!Connect)
    /\ WF_followVars(screen = "job" /\ follow!Poll)
    /\ \A v \in follow!Views : WF_followVars(screen = "job" /\ follow!Push(v))
    /\ \A v \in follow!Views :
           WF_followVars(screen = "job" /\ (follow!ReadFails(v) \/ follow!Refresh(v)))
    /\ \A k \in follow!Keys : SF_followVars(screen = "job" /\ follow!Learn(k))
    /\ WF_makeVars(screen = "generation" /\ make!Finish)
    /\ \A m \in make!Mounts : WF_makeVars(screen = "generation" /\ make!Answers(m))
    /\ \A a \in Asks : WF_askVars(screen = "assistant" /\ ask!SendEnds(a))
    /\ \A a \in Asks : WF_askVars(screen = "assistant" /\ ask!CallEnds(a))
    /\ \A a \in Asks : WF_askVars(screen = "assistant" /\ ask!LookEnds(a))
    /\ \A a \in Asks : WF_askVars(screen = "assistant" /\ ask!Backstop(a))
    /\ \A a \in Asks : SF_askVars(screen = "assistant" /\ ask!Learn(a))
    /\ \A p \in clip!Presses : WF_clipVars(screen = "clip" /\ clip!CallEnds(p))
    /\ \A p \in clip!Presses : WF_clipVars(screen = "clip" /\ clip!Deadline(p))

-----------------------------------------------------------------------------
\* What no part's variables are ever outside of.
AllTypes ==
    CASE screen = "playback"   -> play!TypeOK   [] screen = "recorder"  -> rec!TypeOK
      [] screen = "job"        -> follow!TypeOK [] screen = "assistant" -> ask!TypeOK
      [] screen = "generation" -> make!TypeOK   [] screen = "clip"      -> clip!TypeOK

\* Nothing is paid for or placed twice.  After a lost answer at most one job is paid for
\* that was never on screen; a project's video is on its timeline once, and paid for
\* again only after one failed; a scene the person skipped is never made; one opening of
\* the avatar panel has one video made at a time.
NothingIsPaidTwice ==
    /\ [](screen = "job" => follow!AtMostOneUnseen)
    /\ [](screen = "generation" => make!NoVideoTwice)
    /\ [](screen = "assistant" => ask!SkippedIsNeverMade)
    /\ [](screen = "clip" => clip!OneAtATime)
    /\ make!PaidAgainOnlyForAFailure

\* What is said is so.  A scene's card says what became of the scene, and "added" is said
\* of a clip that is on the timeline; a recording is handed on with the length that was
\* counted, and a camera that is on belongs to the screen that shows it; a renewed link
\* does not interrupt the film that plays; nothing is followed for an avatar panel that
\* was closed.
WhatIsSaidIsSo ==
    /\ [](screen = "assistant" => ask!CardTellsTheTruth)
    /\ [](screen = "clip" => clip!AddedIsThere)
    /\ [](screen = "recorder" => rec!HandedOnAsCounted /\ rec!NoCameraLeft)
    /\ play!RenewalDoesNotInterrupt
    /\ clip!ClosedPanelIsNotFollowed

\* Waiting ends.  Film stops at its end, and is silent then; a recording is handed on; a
\* job that is over does not stay "working" on screen; a finished video that is watched
\* reaches the timeline; a scene whose push was lost is still found, and the assistant
\* takes the next message; the avatar panel stops saying that it works.
WaitingEnds ==
    /\ play!PlayingEnds /\ play!StoppedIsSilent
    /\ rec!RecordingEnds
    /\ follow!FollowedToTheEnd
    /\ make!WatchedVideoArrives
    /\ ask!MissedPushOnlyDelays
    /\ ask!BusyEnds
    /\ clip!MakingEnds

=============================================================================
