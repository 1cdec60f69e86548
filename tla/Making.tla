----------------------------------- MODULE Making ----------------------------------
(* What a person makes in the web client, and the way to it: the timeline of the  *)
(* studio, its files, captions and times, the avatar and video forms, the study   *)
(* of a link, and the sign-in before them all.  These parts share no variable:    *)
(* each behaviour is about one of them, which `screen` names, and one run checks  *)
(* them all.                                                                      *)
EXTENDS Timeline, Sequences

CONSTANTS
    Files, Life, Period, AtOnce, MaxFetches, MaxFails,  \* see Media
    Offsets, Shifts, Reach,                             \* see WallClock
    MaxWords, Lengths, Gaps, MaxSpoken, Clips,          \* see Captions
    Groups, Slots, MaxFiles, MaxUnder,                  \* see AvatarPack
    Texts, MaxStarts, MaxQuotes,                        \* see VideoSetup
    Links, Drafts, MaxStudies,                          \* see LinkStudy
    Throttled, Attempts, Window, LastTick,               \* see SignIn
    Hours, Leads                                        \* see PostRow

VARIABLES
    screen,     \* the part of the client this behaviour is about
    media_mounted, media_uploading, media_stored, media_assets, media_left, media_known,
    media_timer, media_fetches, media_fails, media_missed,
    clock_zone, clock_local,
    caps_clip, caps_words,
    pack_page, pack_stored, pack_files, pack_step, pack_continuing, pack_group,
    pack_listing, pack_picks, pack_linked, pack_detail, pack_mine, pack_tasks,
    pack_voice, pack_brief, pack_made, pack_jumped, pack_misled,
    setup_page, setup_draft, setup_idea, setup_script, setup_brought, setup_text,
    setup_who, setup_step, setup_continuing, setup_uploading, setup_quotes,
    setup_credits, setup_confirming, setup_starting, setup_sends, setup_jobs,
    setup_again, setup_jumped,
    link_route, link_submitted, link_approved, link_searching, link_found, link_shown,
    link_drafted, link_failed, link_tasks, link_jobs, link_script, link_seen,
    link_swapped, link_kept, link_spinning,
    sign_page, sign_asked, sign_form, sign_sent, sign_reply, sign_session, sign_bucket,
    sign_now, sign_tried, sign_wanted,
    row_here, row_there, row_post, row_seen, row_shown, row_editing, row_when, row_call,
    row_sent, row_outcome, row_told, row_others, row_moved

mediaVars == <<media_mounted, media_uploading, media_stored, media_assets, media_left,
    media_known, media_timer, media_fetches, media_fails, media_missed>>
media == INSTANCE Media WITH
    mounted <- media_mounted, uploading <- media_uploading,
    stored <- media_stored, assets <- media_assets, left <- media_left,
    known <- media_known, timer <- media_timer, fetches <- media_fetches,
    fails <- media_fails, missed <- media_missed

clockVars == <<clock_zone, clock_local>>
clock == INSTANCE WallClock WITH
    zone <- clock_zone, local <- clock_local

capsVars == <<caps_clip, caps_words>>
caps == INSTANCE Captions WITH
    clip <- caps_clip, words <- caps_words

packVars == <<pack_page, pack_stored, pack_files, pack_step, pack_continuing,
    pack_group, pack_listing, pack_picks, pack_linked, pack_detail, pack_mine,
    pack_tasks, pack_voice, pack_brief, pack_made, pack_jumped, pack_misled>>
pack == INSTANCE AvatarPack WITH
    page <- pack_page, stored <- pack_stored, files <- pack_files,
    step <- pack_step, continuing <- pack_continuing, group <- pack_group,
    listing <- pack_listing, picks <- pack_picks, linked <- pack_linked,
    detail <- pack_detail, mine <- pack_mine, tasks <- pack_tasks, voice <- pack_voice,
    brief <- pack_brief, made <- pack_made, jumped <- pack_jumped, misled <- pack_misled

setupVars == <<setup_page, setup_draft, setup_idea, setup_script, setup_brought,
    setup_text, setup_who, setup_step, setup_continuing, setup_uploading,
    setup_quotes, setup_credits, setup_confirming, setup_starting,
    setup_sends, setup_jobs, setup_again, setup_jumped>>
setup == INSTANCE VideoSetup WITH
    MaxJobs <- MaxStarts, page <- setup_page,
    draft <- setup_draft, idea <- setup_idea, script <- setup_script,
    brought <- setup_brought, text <- setup_text, who <- setup_who, step <- setup_step,
    continuing <- setup_continuing, uploading <- setup_uploading,
    quotes <- setup_quotes, credits <- setup_credits, confirming <- setup_confirming,
    starting <- setup_starting, sends <- setup_sends, jobs <- setup_jobs,
    again <- setup_again, jumped <- setup_jumped

linkVars == <<link_route, link_submitted, link_approved, link_searching, link_found,
    link_shown, link_drafted, link_failed, link_tasks, link_jobs, link_script,
    link_seen, link_swapped, link_kept, link_spinning>>
link == INSTANCE LinkStudy WITH
    MaxJobs <- MaxStudies, route <- link_route,
    submitted <- link_submitted, approved <- link_approved, searching <- link_searching,
    found <- link_found, shown <- link_shown, drafted <- link_drafted,
    failed <- link_failed, tasks <- link_tasks, jobs <- link_jobs,
    script <- link_script, seen <- link_seen, swapped <- link_swapped,
    kept <- link_kept, spinning <- link_spinning

signVars == <<sign_page, sign_asked, sign_form, sign_sent, sign_reply, sign_session,
    sign_bucket, sign_now, sign_tried, sign_wanted>>
sign == INSTANCE SignIn WITH
    Keys <- Throttled, Limit <- Attempts, MaxTime <- LastTick, page <- sign_page,
    asked <- sign_asked, form <- sign_form, sent <- sign_sent, reply <- sign_reply,
    session <- sign_session, bucket <- sign_bucket, now <- sign_now,
    tried <- sign_tried, wanted <- sign_wanted

rowVars == <<row_here, row_there, row_post, row_seen, row_shown, row_editing, row_when,
    row_call, row_sent, row_outcome, row_told, row_others, row_moved>>
row == INSTANCE PostRow WITH
    Offsets <- Leads, here <- row_here, there <- row_there,
    post <- row_post, seen <- row_seen, shown <- row_shown, editing <- row_editing,
    when <- row_when, call <- row_call, sent <- row_sent, outcome <- row_outcome,
    told <- row_told, others <- row_others, moved <- row_moved

-----------------------------------------------------------------------------
(* What the parts take for granted of their parameters; see also the assumption of *)
(* Timeline.  Hours are counted up from none, zones lie either side of it.         *)

\* A link outlives the refresh, and no project has more files than one request signs.
MediaAssumption ==
    /\ Life \in Nat /\ Period \in Nat /\ Period < Life /\ AtOnce \in Nat /\ MaxFails \in Nat
    /\ IsFiniteSet(Files) /\ Cardinality(Files) <= AtOnce

\* No zone is further ahead or behind than twice the reach of the times.
ClockAssumption ==
    /\ Reach \in Nat /\ Offsets \subseteq Int /\ Shifts \subseteq Int
    /\ \A o \in Offsets : -2 * Reach <= o /\ o <= 2 * Reach
    /\ \A o \in Offsets, s \in Shifts : -2 * Reach <= o + s /\ o + s <= 2 * Reach
    /\ 0 \in Shifts

\* A word lasts, silences are never negative, and a clip plays some of its source.
CapsAssumption ==
    /\ Lengths \subseteq Nat \ {0} /\ Gaps \subseteq Nat
    /\ Clips \subseteq [start : Nat, trimIn : Nat, duration : Nat \ {0}]

\* A face and a voice are among the slots, and no group is the mark of none.
PackAssumption == MaxFiles \in Nat /\ {"face", "voice"} \subseteq Slots /\ pack!None \notin Groups

SetupAssumption == MaxStarts \in Nat

\* The drafts listed are jobs, and no link is one of the two marks.
Study == [kind : link!Kinds, link : Links, state : {"open", "done", "failed"}]
LinkAssumption ==
    /\ MaxStudies \in Nat /\ Drafts \in Seq(Study) /\ Len(Drafts) <= MaxStudies
    /\ link!NoLink \notin Links /\ link!NotYet \notin Links

\* A limit lets someone in, and a window lasts.
SignAssumption == Attempts \in Nat \ {0} /\ Window \in Nat \ {0} /\ LastTick \in Nat

RowAssumption == Hours \subseteq Nat /\ Leads \subseteq Int

ASSUME PartsAssumption ==
    /\ MediaAssumption /\ ClockAssumption /\ CapsAssumption /\ PackAssumption
    /\ SetupAssumption /\ LinkAssumption /\ SignAssumption /\ RowAssumption

-----------------------------------------------------------------------------
Screens == {"timeline", "media", "clock", "captions", "avatar", "setup", "link", "signin", "post"}

MakingInit ==
    /\ screen \in Screens
    /\ Init
    /\ media!Init /\ clock!Init /\ caps!Init /\ pack!Init /\ setup!Init /\ link!Init /\ sign!Init /\ row!Init

MakingNext ==
    /\ UNCHANGED screen
    /\ \/ screen = "timeline" /\ Next
          /\ UNCHANGED <<mediaVars, clockVars, capsVars, packVars, setupVars, linkVars,
                         signVars, rowVars>>
       \/ screen = "media" /\ media!Next
          /\ UNCHANGED <<project, clockVars, capsVars, packVars, setupVars, linkVars,
                         signVars, rowVars>>
       \/ screen = "clock" /\ clock!Next
          /\ UNCHANGED <<project, mediaVars, capsVars, packVars, setupVars, linkVars,
                         signVars, rowVars>>
       \/ screen = "captions" /\ caps!Next
          /\ UNCHANGED <<project, mediaVars, clockVars, packVars, setupVars, linkVars,
                         signVars, rowVars>>
       \/ screen = "avatar" /\ pack!Next
          /\ UNCHANGED <<project, mediaVars, clockVars, capsVars, setupVars, linkVars,
                         signVars, rowVars>>
       \/ screen = "setup" /\ setup!Next
          /\ UNCHANGED <<project, mediaVars, clockVars, capsVars, packVars, linkVars,
                         signVars, rowVars>>
       \/ screen = "link" /\ link!Next
          /\ UNCHANGED <<project, mediaVars, clockVars, capsVars, packVars, setupVars,
                         signVars, rowVars>>
       \/ screen = "signin" /\ sign!Next
          /\ UNCHANGED <<project, mediaVars, clockVars, capsVars, packVars, setupVars,
                         linkVars, rowVars>>
       \/ screen = "post" /\ row!Next
          /\ UNCHANGED <<project, mediaVars, clockVars, capsVars, packVars, setupVars,
                         linkVars, signVars>>

MakingVars == <<screen, project, mediaVars, clockVars, capsVars, packVars, setupVars,
                linkVars, signVars, rowVars>>
MakingSpec == MakingInit /\ [][MakingNext]_MakingVars

-----------------------------------------------------------------------------
\* What no part's variables are ever outside of.
AllTypes ==
    CASE screen = "timeline" -> TypeOK       [] screen = "media"  -> media!TypeOK
      [] screen = "clock"    -> clock!TypeOK [] screen = "avatar" -> pack!TypeOK
      [] screen = "setup"    -> setup!TypeOK [] screen = "link"   -> link!TypeOK
      [] screen = "signin"   -> sign!TypeOK  [] screen = "post"   -> row!TypeOK
      [] screen = "captions" -> caps!TypeOK

\* Times come out as they were meant.  A time chosen in a zone is the same time on the
\* wall when it is read back, and in the hour a clock change skips the later reading is
\* used, east of Greenwich; a post moved within one zone shows the hour that was typed;
\* every word a clip plays is in one caption, which overlaps the next only when it was
\* stretched to the shortest length and is not left on screen through a silence.
TimesComeOutAsMeant ==
    /\ screen = "clock" => clock!ReadsBack /\ clock!SkippedIsTheLaterEast
    /\ screen = "post" => row!SameZoneReadsBack
    /\ screen = "captions" =>
        caps!EveryWordIsShown /\ caps!OnlyStretchedOverlap /\ caps!NotLeftOnScreen

\* What is paid for is what the person was shown.  The price beside the button is that of
\* the request the form would send, one confirmation starts one video and the form holds
\* the idea or script it was opened for; the avatar is copied from the group that is
\* picked; no link is analysed whose video was not on screen, and the script approved
\* is of the analysis beside it.
PaidForWhatWasShown ==
    /\ screen = "setup" =>
        setup!PriceIsOfTheRequest /\ setup!OneVideoPerConfirmation /\ setup!ChoiceArrives
    /\ screen = "avatar" => pack!CopyIsOfTheGroupPicked
    /\ screen = "link" => link!NothingAnalysedUnseen /\ link!ScriptIsOfItsAnalysis

\* Screens keep up with what answers late.  Every file of the open project can be played
\* and was confirmed by the server, unless a request failed; a timer takes no form past
\* its last step; an upload to one slot empties no other, unless the screen was misled;
\* a late video or analysis of a link that was left is dropped, as is its error but for
\* the one the code lets through, and a screen that waits is followed;
\* a post's row lags behind only what others did, and a press on a stale row neither
\* moves nor takes back a post that is going out.
ScreensKeepUp ==
    /\ [](screen = "media" => media!LinksStayAlive /\ media!AssetsAreStored)
    /\ [](screen = "avatar" => pack!StepExists)
    /\ [](screen = "setup" => setup!SetupStepExists)
    /\ [](screen = "link" => link!LateResultsAreDropped /\ link!WaitingIsFollowed)
    /\ link!ErrorsAreOfTheScreen
    /\ [](screen = "post" => row!BehindOnlyByOthers)
    /\ pack!SightedUploadsKeepSlots
    /\ row!StaleRowDoesNoHarm

\* The way in keeps its word.  A sign-in ends on the page that was asked for; fewer than
\* twice the limit of attempts get through in any window's length, and nobody is refused
\* who has attempts left.
SignInKeepsItsWord ==
    /\ [](screen = "signin" => sign!BurstBounded /\ sign!LandsWhereAsked)
    /\ sign!RefusedOnlyWhenFull
=============================================================================
