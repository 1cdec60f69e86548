-------------------------------- MODULE Posting --------------------------------
(* Sending a finished video out: the studio's export dialog, which renders the     *)
(* project in the browser, saves the file or uploads it and posts it               *)
(* (components/export-dialog.tsx, hooks/use-export-flow.ts, lib/export.ts), and     *)
(* the library's form, which posts a video that exists already                     *)
(* (features/library/post-form.tsx).  Both name a post by a key of the form's, so   *)
(* that pressing twice posts once; the server keeps the first post of a key.        *)
EXTENDS Integers, FiniteSets

CONSTANTS
    Platforms,   \* where it may go
    File,        \* or the person's own computer
    MaxFrames,   \* bound: frames of the video
    MaxKeys      \* bound: keys drawn

VARIABLES
    form,       \* which of the two this is
    opened,     \* it is on screen
    chosen,     \* where the form says the video goes
    phase,
    frames,     \* frames drawn
    aborted,    \* the person has pressed Cancel
    to,         \* where the video under way goes
    key,        \* the key of the next post
    posts,      \* posts[k] : where the post of key k went, at the server
    answer,     \* of the post under way
    files,      \* the file was saved to the computer
    told        \* history: the posts the person was told of

vars == <<form, opened, chosen, phase, frames, aborted, to, key, posts, answer, files, told>>

Keys == 1 .. MaxKeys
Nowhere == "nowhere"
Phases == {"idle", "rendering", "finishing", "uploading", "posting", "stalled", "done", "failed"}
Destinations == IF form = "export" THEN Platforms \cup {File} ELSE Platforms

TypeOK ==
    /\ form \in {"export", "library"} /\ opened \in BOOLEAN
    /\ chosen \in Platforms \cup {File} /\ to \in Platforms \cup {File, Nowhere}
    /\ phase \in Phases /\ frames \in 0 .. MaxFrames /\ aborted \in BOOLEAN
    /\ key \in Keys /\ posts \in [Keys -> Platforms \cup {Nowhere}]
    /\ answer \in {"none", "ok", "refused"} /\ files \in BOOLEAN
    /\ told \subseteq Keys \X Platforms

UnderWay == phase \in {"rendering", "finishing", "uploading", "posting"}
Busy == UnderWay \/ phase = "stalled"

\* The server's posts with the one under way: the first post of a key stays.
Taken == IF posts[key] = Nowhere THEN [posts EXCEPT ![key] = to] ELSE posts

-----------------------------------------------------------------------------
\* The dialog's fields wait for what is under way; the library's do not.
Choose(d) ==
    /\ opened /\ phase # "done"
    /\ form = "export" => ~ Busy
    /\ chosen' = d
    /\ UNCHANGED <<form, opened, phase, frames, aborted, to, key, posts, answer, files, told>>

Open ==
    /\ ~ opened /\ opened' = TRUE
    /\ IF form = "library" THEN key < MaxKeys /\ key' = key + 1 ELSE UNCHANGED key
    /\ UNCHANGED <<form, chosen, phase, frames, aborted, to, posts, answer, files, told>>

\* The dialog stays while anything is under way.  The library's form can be left at any
\* time; what it sent may still arrive, and nobody is told.
Close ==
    /\ opened /\ opened' = FALSE
    /\ form = "export" => ~ Busy
    /\ phase' = "idle" /\ answer' = "none"
    /\ posts' \in IF phase \in {"posting", "stalled"} THEN {posts, Taken} ELSE {posts}
    /\ UNCHANGED <<form, chosen, frames, aborted, to, key, files, told>>

Submit ==
    /\ opened /\ ~ Busy /\ phase # "done"
    /\ form = "export" => key < MaxKeys
    /\ to' = chosen /\ aborted' = FALSE /\ frames' = 0 /\ answer' = "none"
    /\ phase' = IF form = "export" THEN "rendering" ELSE "posting"
    /\ UNCHANGED <<form, opened, chosen, key, posts, files, told>>

\* An empty timeline, a clip still loading, a browser that cannot encode.
Failed ==
    /\ UnderWay /\ answer = "none"
    /\ phase' = "failed"
    /\ UNCHANGED <<form, opened, chosen, frames, aborted, to, key, posts, answer, files, told>>

\* What the dialog waits for may never answer (lib/export.ts sets its loading no limit).
Stall ==
    /\ UnderWay /\ phase' = "stalled"
    /\ UNCHANGED <<form, opened, chosen, frames, aborted, to, key, posts, answer, files, told>>

Cancel ==
    /\ form = "export" /\ Busy /\ ~ aborted
    /\ aborted' = TRUE
    /\ UNCHANGED <<form, opened, chosen, phase, frames, to, key, posts, answer, files, told>>

\* Mutation of Frame: one frame too many is drawn.
Frame_OneMore ==
    /\ phase = "rendering"
    /\ IF aborted
       THEN phase' = "idle" /\ UNCHANGED frames
       ELSE /\ frames' = frames + 1
            /\ phase' = IF frames = MaxFrames THEN "finishing" ELSE phase
    /\ UNCHANGED <<form, opened, chosen, aborted, to, key, posts, answer, files, told>>

\* Mutation of Frame: the signal is not looked at.
Frame_Deaf ==
    /\ phase = "rendering"
    /\ frames' = frames + 1
    /\ phase' = IF frames' = MaxFrames THEN "finishing" ELSE phase
    /\ UNCHANGED <<form, opened, chosen, aborted, to, key, posts, answer, files, told>>

\* exportProject looks at the signal before each frame, and not after the last.
Frame ==
    /\ phase = "rendering"
    /\ IF aborted
       THEN phase' = "idle" /\ UNCHANGED frames
       ELSE /\ frames' = frames + 1
            /\ phase' = IF frames' = MaxFrames THEN "finishing" ELSE phase
    /\ UNCHANGED <<form, opened, chosen, aborted, to, key, posts, answer, files, told>>

Finalized ==
    /\ phase = "finishing"
    /\ IF to = File
       THEN files' = TRUE /\ phase' = "done"
       ELSE phase' = "uploading" /\ UNCHANGED files
    /\ UNCHANGED <<form, opened, chosen, frames, aborted, to, key, posts, answer, told>>

Uploaded ==
    /\ phase = "uploading"
    /\ phase' = "posting"
    /\ UNCHANGED <<form, opened, chosen, frames, aborted, to, key, posts, answer, files, told>>

\* The server's side: the first post of a key is the answer to every other.
Accept ==
    /\ phase = "posting" /\ answer = "none"
    /\ posts' = Taken
    /\ answer' \in {"ok", "refused"}
    /\ UNCHANGED <<form, opened, chosen, phase, frames, aborted, to, key, files, told>>

\* An answer that was lost reads as a refusal.
Answered ==
    /\ phase = "posting" /\ answer # "none"
    /\ answer' = "none"
    /\ IF answer = "ok"
       THEN /\ phase' = "done" /\ told' = told \cup {<<key, to>>}
            /\ key' = IF form = "export" THEN key + 1 ELSE key
       ELSE phase' = "failed" /\ UNCHANGED <<key, told>>
    /\ UNCHANGED <<form, opened, chosen, frames, aborted, to, posts, files>>

Init ==
    /\ form \in {"export", "library"} /\ opened = FALSE
    /\ chosen \in IF form = "export" THEN {File} ELSE Platforms
    /\ phase = "idle" /\ frames = 0 /\ aborted = FALSE /\ to = Nowhere
    /\ key = 1 /\ posts = [k \in Keys |-> Nowhere] /\ answer = "none"
    /\ files = FALSE /\ told = {}

Next ==
    \/ \E d \in Destinations : Choose(d)
    \/ Open \/ Close \/ Submit \/ Failed \/ Stall \/ Cancel
    \/ Frame \/ Finalized \/ Uploaded \/ Accept \/ Answered

Work == Failed \/ Frame \/ Finalized \/ Uploaded \/ Accept \/ Answered

Spec == Init /\ [][Next]_vars

\* Frames are drawn and calls end, one way or the other, unless they stall.
FairSpec == Spec /\ WF_vars(Work)

-----------------------------------------------------------------------------
\* Pressing again after an answer that was lost posts nothing more: at any time at
\* most one post is out that the person has not been told of, and that under the key
\* of the form on screen (use-export-flow.ts: "so a double press posts once").
AtMostOneUntold ==
    \A k \in Keys : posts[k] # Nowhere => k \in {t[1] : t \in told} \/ k = key \/ form = "library"

\* Cancel pressed while frames are still to be drawn brings the dialog back, without
\* the video going anywhere first, unless the drawing has stalled: Cancel is looked at
\* between the waits, and ends none of them.
CancelWhileDrawingStops ==
    aborted /\ phase = "rendering" ~> phase \in {"idle", "failed", "stalled"}

\* The dialog stays busy, with its close button refused, only on a wait that never ends.
ExportEnds == Busy ~> ~ UnderWay

\* use-export-flow.ts:51, post-form.tsx:25: a key stands for "the same post", so a
\* person who is told that the video is queued finds it where they sent it.
ToldIsPosted == \A t \in told : posts[t[1]] = t[2]
=============================================================================
