-------------------------------- MODULE Playback --------------------------------
(* Playing the project in the preview (hooks/use-playback.ts, preview-panel.tsx,   *)
(* use-shortcuts.ts): each animation frame moves the store's clock and steers the   *)
(* media elements to it.  One clip, [0, length) of the timeline, stands for all of  *)
(* them; its link is renewed from time to time (module Media).                      *)
EXTENDS Integers

CONSTANTS
    MaxLength,  \* bound: the longest project
    Beyond,     \* how far past the end the clock may be put (30 seconds)
    MaxRenewals, MaxActs    \* bounds: links made, and things the person does

VARIABLES
    length,     \* projectDuration
    time, playing,
    link,       \* the newest link of the file, 0 while it has none
    source,     \* the link its element loads from
    sounding,   \* the element is playing
    changed,    \* the project or its links changed since the last frame
    acts

vars == <<length, time, playing, link, source, sounding, changed, acts>>

TypeOK ==
    /\ length \in 0 .. MaxLength /\ time \in 0 .. MaxLength + Beyond
    /\ playing \in BOOLEAN /\ sounding \in BOOLEAN /\ changed \in BOOLEAN
    /\ link \in 0 .. MaxRenewals /\ source \in 0 .. MaxRenewals /\ acts \in 0 .. MaxActs

Act == acts < MaxActs /\ acts' = acts + 1
Lesser(a, b) == IF a < b THEN a ELSE b

\* An edit: the clip grows, shrinks or goes.
EditTo(n) ==
    /\ Act /\ n # length /\ length' = n /\ changed' = TRUE
    /\ UNCHANGED <<time, playing, link, source, sounding>>

Seek(t) ==
    /\ Act /\ time' = Lesser(t, length + Beyond)
    /\ UNCHANGED <<length, playing, link, source, sounding, changed>>

\* The play button starts again from the start when the clock is at the end.
Toggle ==
    /\ Act
    /\ playing' = (~ playing /\ length > 0)
    /\ time' = IF ~ playing /\ time >= length THEN 0 ELSE time
    /\ UNCHANGED <<length, link, source, sounding, changed>>

\* The space bar does not look at the clock.
Space ==
    /\ Act /\ playing' = ~ playing
    /\ UNCHANGED <<length, time, link, source, sounding, changed>>

Renew ==
    /\ link < MaxRenewals /\ link' = link + 1 /\ changed' = TRUE
    /\ UNCHANGED <<length, time, playing, source, sounding, acts>>

\* A renewed link replaces the old one only while paused.
Synced == IF changed /\ length > 0 /\ (source = 0 \/ ~ playing) THEN link
          ELSE IF length = 0 THEN 0 ELSE source

\* Mutation of Frame: the clock runs on past the end of the project.
Frame_RunsOn ==
    /\ source' = Synced /\ changed' = FALSE
    /\ time' = (IF playing THEN time + 1 ELSE time) /\ UNCHANGED playing
    /\ sounding' = (playing /\ time' < length /\ source' # 0)
    /\ UNCHANGED <<length, link, acts>>

Frame ==
    /\ source' = Synced /\ changed' = FALSE
    /\ IF ~ playing THEN UNCHANGED <<time, playing>>
       ELSE IF time + 1 >= length THEN time' = length /\ playing' = FALSE
       ELSE time' = time + 1 /\ UNCHANGED playing
    /\ sounding' = (playing /\ time' < length /\ source' # 0)
    /\ UNCHANGED <<length, link, acts>>

Init ==
    /\ length = 0 /\ time = 0 /\ playing = FALSE
    /\ link = 0 /\ source = 0 /\ sounding = FALSE /\ changed = TRUE /\ acts = 0

Next ==
    \/ \E n \in 0 .. MaxLength : EditTo(n)
    \/ \E t \in 0 .. MaxLength + Beyond : Seek(t)
    \/ Toggle \/ Space \/ Renew \/ Frame

Spec == Init /\ [][Next]_vars

\* The browser keeps drawing frames.
FairSpec == Spec /\ WF_vars(Frame)

-----------------------------------------------------------------------------
\* Playing comes to an end by itself, and leaves the clock on the end of the project,
\* also when the project was cut short or the clock put past its end meanwhile.
PlayingEnds == playing ~> ~ playing

\* What plays is heard from inside the clip, and stops with the clock.
StoppedIsSilent == ~ playing ~> ~ sounding \/ playing

\* A link renewed while the project plays does not interrupt it (use-playback.ts:
\* "so playback is never interrupted").
RenewalDoesNotInterrupt ==
    [][sounding /\ playing /\ length' = length /\ length > 0 => source' = source]_vars
=============================================================================
