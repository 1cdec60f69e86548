---------------------------- MODULE Watching_proofs ----------------------------
(* What the parts promise while one waits, for every value of the constants.  A   *)
(* behaviour of the whole is one of each part (PartsRun), and each part has an    *)
(* inductive invariant of its own.                                                *)
(*                                                                                *)
(* A recording: whatever runs or is due is of the newest request, and what is     *)
(* counted is what the recorder of that request records (OfTheNewest, Counted).   *)
(*                                                                                *)
(* A job that is followed: a start is under the key of now, and so is what is on  *)
(* screen until a late answer is noted (OfTheKey).                                *)
(*                                                                                *)
(* A project's video: an opening that is yet to come waits for nothing, and what  *)
(* the watcher on screen waits for is of the job it shows (CallsAre, ViewIs).     *)
(*                                                                                *)
(* The assistant: until its scene is proposed a message has none, and the cards   *)
(* of a panel go with it (CardsAre).  The avatar panel: all presses of one panel  *)
(* but one are over, and no project was changed under it (MadeHere, OneUnderWay). *)
EXTENDS Watching, Sequences, TLAPS

-----------------------------------------------------------------------------
(* Playback (play).                                                           *)

\* What is heard has a link it loads from.
PlayInv == play!TypeOK /\ (play_sounding => play_source # 0)

LEMMA PlayStarts == ASSUME PlayAssumption, play!Init PROVE PlayInv
<1>1. 0 \in 0 .. MaxLength /\ 0 \in 0 .. MaxLength + Beyond /\ 0 \in 0 .. MaxRenewals /\ 0 \in 0 .. MaxActs
      BY DEF PlayAssumption
<1>. QED  BY <1>1 DEF play!Init, PlayInv, play!TypeOK

LEMMA PlayFrameKeeps == ASSUME PlayAssumption, PlayInv, play!Frame PROVE PlayInv'
<1>1. play_source' \in 0 .. MaxRenewals
      BY DEF PlayAssumption, PlayInv, play!TypeOK, play!Frame, play!Synced
<1>2. play_time' \in 0 .. MaxLength + Beyond
  <2>1. CASE ~ play_playing
        BY <2>1 DEF PlayInv, play!TypeOK, play!Frame
  <2>2. CASE play_playing /\ play_time + 1 >= play_length
        BY <2>2 DEF PlayAssumption, PlayInv, play!TypeOK, play!Frame
  <2>3. CASE play_playing /\ ~ (play_time + 1 >= play_length)
        BY <2>3 DEF PlayAssumption, PlayInv, play!TypeOK, play!Frame
  <2>. QED  BY <2>1, <2>2, <2>3
<1>3. play_playing' \in BOOLEAN
      BY DEF PlayInv, play!TypeOK, play!Frame
<1>4. play_sounding' \in BOOLEAN /\ (play_sounding' => play_source' # 0)
      BY DEF play!Frame
<1>5. play_changed' = FALSE /\ UNCHANGED <<play_length, play_link, play_acts>>
      BY DEF play!Frame
<1>. QED  BY <1>1, <1>2, <1>3, <1>4, <1>5 DEF PlayInv, play!TypeOK

LEMMA PlayActKeeps ==
    ASSUME PlayAssumption, PlayInv, play!Act, UNCHANGED <<play_link, play_source, play_sounding>>,
           play_length' \in 0 .. MaxLength, play_time' \in 0 .. MaxLength + Beyond,
           play_playing' \in BOOLEAN, play_changed' \in BOOLEAN
    PROVE  PlayInv'
BY DEF PlayAssumption, PlayInv, play!TypeOK, play!Act

LEMMA PlayKeeps == ASSUME PlayAssumption, PlayInv, [play!Next]_(play!vars) PROVE PlayInv'
<1>1. ASSUME NEW n \in 0 .. MaxLength, play!EditTo(n) PROVE PlayInv'
      BY <1>1, PlayActKeeps DEF play!EditTo, PlayInv, play!TypeOK
<1>2. ASSUME NEW t \in 0 .. MaxLength + Beyond, play!Seek(t) PROVE PlayInv'
  <2>1. play_time' \in 0 .. MaxLength + Beyond
        BY <1>2 DEF play!Seek, play!Lesser, PlayInv, play!TypeOK, PlayAssumption
  <2>. QED  BY <1>2, <2>1, PlayActKeeps DEF play!Seek, PlayInv, play!TypeOK
<1>3. ASSUME play!Toggle PROVE PlayInv'
  <2>1. play_time' \in 0 .. MaxLength + Beyond /\ play_playing' \in BOOLEAN
        BY <1>3 DEF play!Toggle, PlayInv, play!TypeOK, PlayAssumption
  <2>. QED  BY <1>3, <2>1, PlayActKeeps DEF play!Toggle, PlayInv, play!TypeOK
<1>4. ASSUME play!Space PROVE PlayInv'
      BY <1>4, PlayActKeeps DEF play!Space, PlayInv, play!TypeOK
<1>5. ASSUME play!Renew PROVE PlayInv'
      BY <1>5 DEF play!Renew, PlayInv, play!TypeOK, PlayAssumption
<1>6. ASSUME UNCHANGED play!vars PROVE PlayInv'
      BY <1>6 DEF play!vars, PlayInv, play!TypeOK
<1>. QED  BY <1>1, <1>2, <1>3, <1>4, <1>5, <1>6, PlayFrameKeeps DEF play!Next

\* Only a frame gives the element a link, and not while it is heard.
LEMMA PlayUninterrupted ==
    ASSUME PlayInv, [play!Next]_(play!vars),
           play_sounding, play_playing, play_length' = play_length, play_length > 0
    PROVE  play_source' = play_source
<1>1. CASE play!Frame
  <2>1. play_source' = play!Synced /\ play_source # 0 /\ play_length # 0
        BY <1>1 DEF play!Frame, PlayInv, play!TypeOK
  <2>. QED  BY <2>1 DEF play!Synced
<1>. QED  BY <1>1 DEF play!Next, play!vars, play!EditTo, play!Seek, play!Toggle, play!Space, play!Renew

\* usePlayback: the clock and the elements stay what they are, and a link renewed while
\* film is heard does not take it over, for any project, links and acts of the person.
THEOREM PlaybackKeepsItsWord ==
    ASSUME PlayAssumption
    PROVE  play!Spec => []play!TypeOK /\ play!RenewalDoesNotInterrupt
<1>1. play!Init => PlayInv
      BY PlayStarts
<1>2. PlayInv /\ [play!Next]_(play!vars) => PlayInv'
      BY PlayKeeps
<1>3. PlayInv => play!TypeOK
      BY DEF PlayInv
<1>4. PlayInv /\ [play!Next]_(play!vars)
      => [play_sounding /\ play_playing /\ play_length' = play_length /\ play_length > 0
             => play_source' = play_source]_(play!vars)
      BY PlayUninterrupted
<1>. QED  BY <1>1, <1>2, <1>3, <1>4, PTL DEF play!Spec, play!RenewalDoesNotInterrupt

-----------------------------------------------------------------------------
(* Recording (rec).                                                           *)

\* A stream is the newest request's, and so is a recorder; the browser answers a request
\* once, and those of a screen that is not shown are of the past.
OfTheNewest ==
    /\ rec_live \subseteq {rec_stream} \ {rec!None}
    /\ rec_stream \in {rec!None, rec_request}
    /\ rec_recorder \in {rec!None, rec_request}
    /\ rec_pending \subseteq 1 .. rec_request /\ rec_stopping \subseteq 1 .. rec_request
    /\ rec_stream # rec!None \/ rec_recorder # rec!None => rec_request \notin rec_pending
    /\ rec_request \in rec_stopping => rec_recorder = rec_request

\* Nothing is asked for or running while the screen is not shown.
ShownOrOff ==
    /\ ~ rec_mounted =>
          rec_stream = rec!None /\ rec_recorder = rec!None /\ rec_request \notin rec_pending
    /\ ~ rec_mounted /\ ~ rec_left => rec_recording = rec!Unmade

\* What is counted is what a recorder records, and a recording that was made stays as it is.
Counted ==
    /\ rec_ticking => rec_recorder # rec!None
    /\ rec_recorder # rec!None => rec_state = "recording" /\ rec_ref = rec_seconds
    /\ rec_recording # rec!Unmade =>
          rec_state = "done" /\ rec_recording = rec_seconds /\ rec_request \notin rec_pending
    /\ rec_sent # rec!Unmade => rec_sent >= MinSeconds

RecInv == rec!TypeOK /\ OfTheNewest /\ ShownOrOff /\ Counted

LEMMA RecStarts == ASSUME RecAssumption, rec!Init PROVE RecInv
<1>1. 0 \in rec!Seconds  BY DEF RecAssumption, rec!Seconds
<1>2. rec!TypeOK  BY <1>1 DEF rec!Init, rec!TypeOK, rec!None, rec!Unmade
<1>. QED  BY <1>2 DEF rec!Init, RecInv, OfTheNewest, ShownOrOff, Counted, rec!None, rec!Unmade

\* Whatever is asked for or running is of the past after a release.
LEMMA RecReleased ==
    ASSUME RecInv, rec!Release
    PROVE  /\ rec_request' = rec_request + 1 /\ rec_request' \in Nat
           /\ rec_ticking' = FALSE /\ rec_stream' = rec!None /\ rec_recorder' = rec!None
           /\ rec_live' = {}
           /\ rec_stopping' \subseteq 1 .. rec_request /\ rec_stopping' \subseteq Nat
           /\ rec_pending \subseteq 1 .. rec_request
<1>. USE DEF rec!None
<1>1. rec_request' = rec_request + 1 /\ rec_request \in Nat /\ rec_ticking' = FALSE
      /\ rec_stream' = rec!None /\ rec_recorder' = rec!None
      BY DEF RecInv, rec!TypeOK, rec!Release
<1>2. rec_live' = {}
      BY DEF RecInv, OfTheNewest, rec!Release
<1>3. rec_stopping' \subseteq 1 .. rec_request
  <2>1. CASE rec_recorder # rec!None
        BY <2>1, <1>1 DEF RecInv, OfTheNewest, rec!Release
  <2>2. CASE rec_recorder = rec!None
        BY <2>2, <1>1 DEF RecInv, OfTheNewest, rec!Release
  <2>. QED  BY <2>1, <2>2
<1>. QED  BY <1>1, <1>2, <1>3 DEF RecInv, OfTheNewest

LEMMA RecReleaseKeeps ==
    ASSUME RecInv, rec!Release, UNCHANGED <<rec_unplugged, rec_sent, rec_ref>>,
           rec_mounted' \in BOOLEAN, rec_left' \in BOOLEAN, rec_mounted' \/ rec_left',
           \/ rec_pending' = rec_pending
           \/ rec_pending' = rec_pending \cup {rec_request'} /\ rec_mounted'
              /\ rec_recording' = rec!Unmade,
           \/ UNCHANGED <<rec_state, rec_seconds, rec_recording>>
           \/ rec_state' = "idle" /\ rec_seconds' = 0 /\ rec_recording' = rec!Unmade /\ 0 \in rec!Seconds
    PROVE  RecInv'
<1>. USE DEF rec!None, rec!Unmade
<1>1. /\ rec_request' = rec_request + 1 /\ rec_request' \in Nat /\ rec_request \in Nat
      /\ rec_ticking' = FALSE /\ rec_stream' = rec!None /\ rec_recorder' = rec!None
      /\ rec_live' = {}
      /\ rec_stopping' \subseteq 1 .. rec_request /\ rec_stopping' \subseteq Nat
      /\ rec_pending \subseteq 1 .. rec_request
      BY RecReleased DEF RecInv, rec!TypeOK
<1>2. /\ rec_pending' \subseteq 1 .. rec_request' /\ rec_pending' \subseteq Nat
      /\ rec_stopping' \subseteq 1 .. rec_request'
      /\ rec_request' \notin rec_stopping'
      /\ ~ rec_mounted' \/ rec_recording' # rec!Unmade => rec_request' \notin rec_pending'
  <2>1. 1 .. rec_request \subseteq 1 .. rec_request' /\ 1 .. rec_request' \subseteq Nat
        /\ rec_request' \in 1 .. rec_request' /\ rec_request' \notin 1 .. rec_request
        BY <1>1
  <2>. QED  BY <1>1, <2>1
<1>3. /\ rec_state' \in {"idle", "ready", "recording", "done"}
      /\ rec_seconds' \in rec!Seconds /\ rec_recording' \in rec!Seconds \cup {-1}
      /\ rec_recording' # rec!Unmade => rec_state' = "done" /\ rec_recording' = rec_seconds'
      BY DEF RecInv, rec!TypeOK, Counted
<1>4. rec!TypeOK'
      BY <1>1, <1>2, <1>3 DEF RecInv, rec!TypeOK, rec!Seconds
<1>. QED  BY <1>1, <1>2, <1>3, <1>4 DEF RecInv, OfTheNewest, ShownOrOff, Counted

LEMMA RecGrantedKeeps == ASSUME RecInv, NEW r \in rec_pending, rec!Granted(r) PROVE RecInv'
<1>. USE DEF rec!None, rec!Unmade
<1>1. r \in 1 .. rec_request /\ rec_request \in Nat
      BY DEF RecInv, OfTheNewest, rec!TypeOK
<1>2. CASE r = rec_request
  <2>1. /\ rec_stream = rec!None /\ rec_recorder = rec!None /\ rec_mounted
        /\ rec_recording = rec!Unmade
        BY <1>2 DEF RecInv, OfTheNewest, ShownOrOff, Counted
  <2>a. rec_live = {}
        BY <2>1 DEF RecInv, OfTheNewest
  <2>2. /\ rec_live' = {r} /\ rec_stream' = r /\ rec_state' = "ready"
        /\ rec_pending' = rec_pending \ {r} /\ r \in Nat \ {0}
        /\ UNCHANGED <<rec_mounted, rec_left, rec_request, rec_recorder, rec_stopping, rec_seconds, rec_ref,
                       rec_recording, rec_sent, rec_ticking, rec_unplugged>>
        BY <1>1, <1>2, <2>1, <2>a DEF rec!Granted, rec!clip
  <2>. QED  BY <1>1, <1>2, <2>1, <2>2 DEF RecInv, rec!TypeOK, rec!Seconds, OfTheNewest, ShownOrOff, Counted
<1>3. CASE r # rec_request
      BY <1>1, <1>3, ZenonT(60) DEF rec!Granted, rec!clip, RecInv, rec!TypeOK, OfTheNewest, ShownOrOff, Counted
<1>. QED  BY <1>2, <1>3

LEMMA RecDeniedKeeps == ASSUME RecInv, NEW r \in rec_pending, rec!Denied(r) PROVE RecInv'
<1>. USE DEF rec!None, rec!Unmade
<1>1. r \in 1 .. rec_request /\ rec_request \in Nat
      BY DEF RecInv, OfTheNewest, rec!TypeOK
<1>2. CASE r = rec_request
  <2>1. /\ rec_stream = rec!None /\ rec_recorder = rec!None /\ rec_recording = rec!Unmade
        BY <1>2 DEF RecInv, OfTheNewest, ShownOrOff, Counted
  <2>. QED  BY <1>1, <1>2, <2>1 DEF rec!Denied, rec!clip, RecInv, rec!TypeOK, OfTheNewest, ShownOrOff, Counted
<1>3. CASE r # rec_request
      BY <1>1, <1>3 DEF rec!Denied, rec!clip, RecInv, rec!TypeOK, OfTheNewest, ShownOrOff, Counted
<1>. QED  BY <1>2, <1>3

LEMMA RecStartKeeps == ASSUME RecAssumption, RecInv, rec!Start PROVE RecInv'
<1>. USE DEF rec!None, rec!Unmade
<1>1. /\ rec_stream = rec_request /\ rec_recorder = rec!None /\ rec_recording = rec!Unmade
      /\ rec_ticking = FALSE /\ 0 \in rec!Seconds
      BY DEF rec!Start, RecInv, OfTheNewest, Counted, RecAssumption, rec!Seconds, rec!TypeOK
<1>. QED  BY <1>1 DEF rec!Start, RecInv, rec!TypeOK, OfTheNewest, ShownOrOff, Counted

\* A recorder that runs is told to stop.
LEMMA RecStopping ==
    ASSUME RecInv,
           rec_stopping' = rec_stopping \/ (rec!Recording /\ rec_stopping' = rec_stopping \cup {rec_recorder})
    PROVE  /\ rec_stopping' \subseteq 1 .. rec_request /\ rec_stopping' \subseteq Nat
           /\ rec_request \in rec_stopping' => rec_recorder = rec_request
<1>1. rec_recorder # rec!None => rec_recorder = rec_request /\ rec_request \in Nat \ {0}
      BY DEF RecInv, OfTheNewest, rec!TypeOK, rec!None
<1>2. rec_recorder # rec!None => rec_recorder \in 1 .. rec_request
      BY <1>1
<1>3. /\ rec_stopping \subseteq 1 .. rec_request /\ rec_stopping \subseteq Nat
      /\ rec_request \in rec_stopping => rec_recorder = rec_request
      BY DEF RecInv, OfTheNewest, rec!TypeOK
<1>. QED  BY <1>1, <1>2, <1>3 DEF rec!Recording

LEMMA RecTickKeeps == ASSUME RecAssumption, RecInv, rec!Tick PROVE RecInv'
<1>. USE DEF rec!None, rec!Unmade
<1>1. /\ rec_recorder # rec!None /\ rec_state = "recording" /\ rec_recording = rec!Unmade
      BY DEF rec!Tick, RecInv, Counted
<1>2. /\ rec_stopping' \subseteq 1 .. rec_request /\ rec_stopping' \subseteq Nat
      /\ rec_request \in rec_stopping' => rec_recorder = rec_request
      BY RecStopping DEF rec!Tick
<1>3. rec_seconds' \in rec!Seconds /\ rec_ref' = rec_seconds'
      BY DEF rec!Tick, RecInv, rec!TypeOK, RecAssumption, rec!Seconds
<1>4. UNCHANGED <<rec_mounted, rec_left, rec_request, rec_pending, rec_live, rec_stream, rec_recorder,
                  rec_state, rec_ticking, rec_recording, rec_sent, rec_unplugged>>
      BY DEF rec!Tick
<1>. QED  BY <1>1, <1>2, <1>3, <1>4 DEF RecInv, rec!TypeOK, rec!Seconds, OfTheNewest, ShownOrOff, Counted

LEMMA RecStopKeeps == ASSUME RecInv, rec!Stop \/ rec!Unplug PROVE RecInv'
<1>. USE DEF rec!None, rec!Unmade
<1>1. /\ rec_stopping' \subseteq 1 .. rec_request /\ rec_stopping' \subseteq Nat
      /\ rec_request \in rec_stopping' => rec_recorder = rec_request
      BY RecStopping DEF rec!Stop, rec!Unplug
<1>2. rec_live' \subseteq rec_live /\ rec_unplugged' \in BOOLEAN
      BY DEF rec!Stop, rec!Unplug, RecInv, rec!TypeOK
<1>3. UNCHANGED <<rec_mounted, rec_left, rec_request, rec_pending, rec_stream, rec_recorder, rec_seconds,
                  rec_ref, rec_state, rec_ticking, rec_recording, rec_sent>>
      BY DEF rec!Stop, rec!Unplug, rec!clip
<1>. QED  BY <1>1, <1>2, <1>3 DEF RecInv, rec!TypeOK, rec!Seconds, OfTheNewest, ShownOrOff, Counted

LEMMA RecOnStopKeeps == ASSUME RecInv, NEW r \in rec_stopping, rec!OnStop(r) PROVE RecInv'
<1>. USE DEF rec!None, rec!Unmade
<1>1. r \in 1 .. rec_request /\ rec_request \in Nat /\ rec_stopping' = rec_stopping \ {r}
      /\ rec_ticking' = FALSE /\ rec_stream' = rec!None /\ rec_live' = {}
      BY DEF RecInv, OfTheNewest, rec!TypeOK, rec!OnStop
<1>a. UNCHANGED <<rec_mounted, rec_left, rec_request, rec_pending, rec_seconds, rec_ref, rec_sent,
                  rec_unplugged>>
      /\ rec_stopping' \subseteq 1 .. rec_request /\ rec_stopping' \subseteq Nat
      BY <1>1 DEF rec!OnStop, RecInv, OfTheNewest, rec!TypeOK
<1>2. CASE r = rec_request
  <2>1. /\ rec_recorder = rec_request /\ rec_ref = rec_seconds /\ rec_request \notin rec_pending
        /\ rec_mounted
        BY <1>1, <1>2 DEF RecInv, OfTheNewest, Counted, ShownOrOff
  <2>2. rec_recording' = rec_ref /\ rec_state' = "done" /\ rec_recorder' = rec!None
        BY <1>2, <2>1 DEF rec!OnStop
  <2>. QED  BY <1>1, <1>a, <1>2, <2>1, <2>2
               DEF RecInv, rec!TypeOK, rec!Seconds, OfTheNewest, ShownOrOff, Counted
<1>3. CASE r # rec_request
  <2>1. UNCHANGED <<rec_recorder, rec_recording, rec_state>>
        BY <1>1, <1>3 DEF rec!OnStop, RecInv, OfTheNewest
  <2>2. rec_request \in rec_stopping' => rec_recorder = rec_request
        BY <1>1 DEF RecInv, OfTheNewest
  <2>. QED  BY <1>1, <1>a, <1>3, <2>1, <2>2
               DEF RecInv, rec!TypeOK, rec!Seconds, OfTheNewest, ShownOrOff, Counted
<1>. QED  BY <1>2, <1>3

LEMMA RecUseKeeps == ASSUME RecInv, rec!Use PROVE RecInv'
<1>1. rec_recording = rec_seconds /\ rec_seconds >= MinSeconds
      BY DEF rec!Use, rec!Done, RecInv, Counted
<1>. QED  BY <1>1 DEF rec!Use, RecInv, rec!TypeOK, rec!Seconds, OfTheNewest, ShownOrOff, Counted

LEMMA RecKeeps == ASSUME RecAssumption, RecInv, [rec!Next]_(rec!vars) PROVE RecInv'
<1>0. 0 \in rec!Seconds  BY DEF RecAssumption, rec!Seconds
<1>1. ASSUME rec!Mount PROVE RecInv'
  <2>1. rec_recording = rec!Unmade
        BY <1>1 DEF rec!Mount, RecInv, ShownOrOff
  <2>. QED  BY <1>1, <2>1, RecReleaseKeeps DEF rec!Mount, rec!Open, rec!clip, RecInv, rec!TypeOK
<1>2. ASSUME rec!Unmount PROVE RecInv'
      BY <1>2, RecReleaseKeeps DEF rec!Unmount, rec!clip, RecInv, rec!TypeOK
<1>3. ASSUME rec!PickDevice PROVE RecInv'
  <2>1. rec_recording = rec!Unmade
        BY <1>3 DEF rec!PickDevice, rec!Done, RecInv, Counted
  <2>. QED  BY <1>3, <2>1, RecReleaseKeeps DEF rec!PickDevice, rec!Open, rec!clip, RecInv, rec!TypeOK
<1>4. ASSUME rec!RecordAgain PROVE RecInv'
      BY <1>4, <1>0, RecReleaseKeeps DEF rec!RecordAgain, rec!Open, RecInv, rec!TypeOK
<1>5. ASSUME UNCHANGED rec!vars PROVE RecInv'
      BY <1>5 DEF rec!vars, RecInv, rec!TypeOK, rec!Seconds, OfTheNewest, ShownOrOff, Counted
<1>. QED  BY <1>1, <1>2, <1>3, <1>4, <1>5, RecGrantedKeeps, RecDeniedKeeps, RecStartKeeps, RecTickKeeps,
             RecStopKeeps, RecOnStopKeeps, RecUseKeeps DEF rec!Next

\* useTwinRecorder: no camera is left running by a request that was overtaken or after
\* the screen is left, and a recording is handed on with the length that was counted,
\* for any limits, any number of openings and any order of answers.
THEOREM RecorderKeepsItsWord ==
    ASSUME RecAssumption
    PROVE  rec!Spec => [](rec!TypeOK /\ rec!NoCameraLeft /\ rec!HandedOnAsCounted)
<1>1. rec!Init => RecInv
      BY RecStarts
<1>2. RecInv /\ [rec!Next]_(rec!vars) => RecInv'
      BY RecKeeps
<1>3. RecInv => rec!TypeOK /\ rec!NoCameraLeft /\ rec!HandedOnAsCounted
      BY DEF RecInv, OfTheNewest, ShownOrOff, Counted, rec!NoCameraLeft, rec!HandedOnAsCounted, rec!Done,
         rec!None
<1>. QED  BY <1>1, <1>2, <1>3, PTL DEF rec!Spec

-----------------------------------------------------------------------------
(* Following a job (follow).                                                  *)

\* What is followed, read or pushed is a job the server has.
FollowedJobsAre ==
    /\ follow_shown # follow!None => follow_jobs[follow_shown.key].state # "none"
    /\ \A v \in follow_reads : follow_jobs[v.key].state # "none"
    /\ follow_starting # follow!NoStart /\ follow_starting.answer # "none" =>
          follow_jobs[follow_starting.key].state # "none"
    /\ follow_socket # "off" => follow_shown # follow!None

\* A start is under the key of now, and so is what is on screen, unless a late answer
\* brought an older job back; what is on screen was on screen.
OfTheKey ==
    /\ follow_starting # follow!NoStart => follow_starting.key = follow_key
    /\ follow_shown # follow!None =>
          /\ follow_shown.key \in follow_told
          /\ ~ follow_misled => follow_shown.key = follow_key

FollowInv == follow!TypeOK /\ FollowedJobsAre /\ OfTheKey /\ follow!AtMostOneUnseen

LEMMA FollowStarts == ASSUME FollowAssumption, follow!Init PROVE FollowInv
<1>1. 1 \in follow!Keys /\ Empty \in Prompts
      BY DEF FollowAssumption, follow!Keys
<1>2. follow!TypeOK
      BY <1>1 DEF follow!Init, follow!TypeOK
<1>. QED  BY <1>1, <1>2 DEF follow!Init, FollowInv, FollowedJobsAre, OfTheKey, follow!AtMostOneUnseen

\* The parts of the state a step of this kind leaves alone keep what they promise.
LEMMA FollowQuiet ==
    ASSUME FollowInv,
           UNCHANGED <<follow_panel, follow_key, follow_jobs, follow_shown, follow_told>>,
           follow_prompt' \in Prompts, follow_error' \in BOOLEAN, follow_unread' \in BOOLEAN,
           follow_misled' = follow_misled,
           \/ UNCHANGED follow_starting
           \/ follow_starting' = follow!NoStart
           \/ follow_starting' = [key |-> follow_key, prompt |-> follow_prompt, answer |-> "none"],
           follow_socket' = follow_socket
             \/ (follow_socket' \in {"connecting", "ready", "dead"} /\ follow_shown # follow!None),
           follow_pushes' \subseteq follow_pushes,
           follow_reads' \subseteq follow_reads
             \/ (follow_shown # follow!None /\ follow_reads' = follow_reads \cup {follow!View(follow_shown.key)})
    PROVE  FollowInv'
<1>1. follow_shown # follow!None => follow!View(follow_shown.key) \in follow!Views
  <2>1. ASSUME follow_shown # follow!None
        PROVE  /\ follow_shown.key \in follow!Keys
               /\ follow_jobs[follow_shown.key].state \in {"working", "done", "failed"}
        BY <2>1 DEF FollowInv, follow!TypeOK, FollowedJobsAre, follow!Views
  <2>. QED  BY <2>1 DEF follow!View, follow!Views
<1>2. /\ follow_reads' \subseteq follow!Views /\ follow_pushes' \subseteq follow!Views
      /\ \A v \in follow_reads' : follow_jobs[v.key].state # "none"
      BY <1>1 DEF FollowInv, follow!TypeOK, FollowedJobsAre, follow!View
<1>3. /\ follow_starting' = follow!NoStart
         \/ follow_starting' \in [key : follow!Keys, prompt : Prompts, answer : {"none", "working", "done",
                                                                                 "failed"}]
      /\ follow_starting' # follow!NoStart => follow_starting'.key = follow_key
      /\ follow_starting' # follow!NoStart /\ follow_starting'.answer # "none" =>
            follow_jobs[follow_starting'.key].state # "none"
      BY DEF FollowInv, follow!TypeOK, FollowedJobsAre, OfTheKey
<1>4. /\ follow_socket' \in {"off", "connecting", "ready", "dead"}
      /\ follow_socket' # "off" => follow_shown # follow!None
      BY DEF FollowInv, follow!TypeOK, FollowedJobsAre
<1>5. follow!TypeOK'
      BY <1>2, <1>3, <1>4 DEF FollowInv, follow!TypeOK
<1>. QED  BY <1>2, <1>3, <1>4, <1>5 DEF FollowInv, FollowedJobsAre, OfTheKey, follow!AtMostOneUnseen

\* A job is put on screen: one of the key of now, or a late answer that is noted as such.
LEMMA FollowShows ==
    ASSUME FollowInv, NEW v \in follow!Views, NEW rs \in SUBSET follow_reads, follow!Show(v, rs),
           follow_jobs[v.key].state # "none",
           UNCHANGED <<follow_panel, follow_key, follow_jobs, follow_prompt, follow_unread>>,
           follow_error' \in BOOLEAN, follow_misled' \in BOOLEAN,
           follow_misled => follow_misled', ~ follow_misled' => v.key = follow_key,
           follow_starting' = follow_starting \/ follow_starting' = follow!NoStart
    PROVE  FollowInv'
<1>1. v # follow!None /\ v.key \in follow!Keys
      BY DEF follow!Views, follow!None, follow!Keys
<1>2. follow!View(v.key) \in follow!Views
      BY <1>1 DEF FollowInv, follow!TypeOK, follow!View, follow!Views
<1>3. /\ follow_shown' = v /\ follow_told' = follow_told \cup {v.key}
      /\ follow_socket' \in {"off", "connecting", follow_socket}
      /\ follow_pushes' \in {follow_pushes, {}} /\ follow_reads' \in {rs, rs \cup {follow!View(v.key)}}
      BY <1>1 DEF follow!Show
<1>4. /\ follow_reads' \subseteq follow!Views /\ follow_pushes' \subseteq follow!Views
      /\ \A u \in follow_reads' : follow_jobs[u.key].state # "none"
      BY <1>1, <1>2, <1>3 DEF FollowInv, follow!TypeOK, FollowedJobsAre, follow!View
<1>5. follow!TypeOK'
      BY <1>1, <1>3, <1>4 DEF FollowInv, follow!TypeOK
<1>. QED  BY <1>1, <1>3, <1>4, <1>5 DEF FollowInv, FollowedJobsAre, OfTheKey, follow!AtMostOneUnseen

LEMMA FollowAccepts == ASSUME FollowInv, follow!Accept PROVE FollowInv'
<1>1. /\ follow_starting # follow!NoStart /\ follow_starting.answer = "none"
      /\ follow_starting \in [key : follow!Keys, prompt : Prompts, answer : {"none", "working", "done",
                                                                             "failed"}]
      /\ follow_starting.key = follow_key
      BY DEF follow!Accept, FollowInv, follow!TypeOK, OfTheKey
<1>2. /\ follow_jobs' \in [follow!Keys -> [state : {"none", "working", "done", "failed"}, prompt : Prompts]]
      /\ follow_jobs'[follow_key].state # "none"
      /\ \A k \in follow!Keys : follow_jobs[k].state # "none" => follow_jobs'[k].state # "none"
      /\ \A k \in follow!Keys : k # follow_key => follow_jobs'[k] = follow_jobs[k]
  <2>1. CASE follow_jobs[follow_key].state = "none"
    <3>1. follow_jobs' = [follow_jobs EXCEPT ![follow_key] = [state |-> "working",
                                                              prompt |-> follow_starting.prompt]]
          BY <1>1, <2>1 DEF follow!Accept
    <3>. QED  BY <1>1, <2>1, <3>1 DEF FollowInv, follow!TypeOK
  <2>2. CASE follow_jobs[follow_key].state # "none"
    <3>1. follow_jobs' = follow_jobs
          BY <1>1, <2>2 DEF follow!Accept
    <3>. QED  BY <1>1, <2>2, <3>1 DEF FollowInv, follow!TypeOK
  <2>. QED  BY <2>1, <2>2
<1>3. follow_jobs'[follow_key].state \in {"working", "done", "failed"}
      BY <1>1, <1>2
<1>4. /\ follow_starting' \in [key : follow!Keys, prompt : Prompts, answer : {"none", "working", "done",
                                                                              "failed"}]
      /\ follow_starting'.key = follow_key
      BY <1>1, <1>3 DEF follow!Accept
<1>5. UNCHANGED <<follow_panel, follow_prompt, follow_key, follow_shown, follow_error, follow_socket,
                  follow_pushes, follow_reads, follow_told, follow_misled, follow_unread>>
      BY DEF follow!Accept
<1>6. follow!TypeOK'
      BY <1>2, <1>4, <1>5 DEF FollowInv, follow!TypeOK
<1>7. FollowedJobsAre'
      BY <1>2, <1>4, <1>5 DEF FollowInv, FollowedJobsAre, follow!TypeOK, follow!Views
<1>8. OfTheKey'
      BY <1>4, <1>5 DEF FollowInv, OfTheKey
<1>9. follow!AtMostOneUnseen'
      BY <1>2, <1>5 DEF FollowInv, follow!AtMostOneUnseen
<1>. QED  BY <1>6, <1>7, <1>8, <1>9 DEF FollowInv

\* A new key is drawn with the job of the old one on screen.
LEMMA FollowResets == ASSUME FollowAssumption, FollowInv, follow!Reset PROVE FollowInv'
<1>1. /\ follow_starting = follow!NoStart /\ follow_starting' = follow!NoStart
      /\ follow_key' \in follow!Keys /\ follow_shown # follow!None
      BY DEF follow!Reset, FollowInv, follow!TypeOK, follow!Keys, FollowAssumption
<1>2. /\ follow_shown' = follow!None /\ follow_socket' = "off" /\ follow_pushes' = {}
      /\ follow_reads' = follow_reads /\ follow_told' = follow_told
      BY DEF follow!Reset, follow!Show
<1>3. UNCHANGED <<follow_panel, follow_jobs, follow_prompt, follow_misled,
                  follow_unread>> /\ follow_error' = FALSE
      BY DEF follow!Reset
<1>4. follow!TypeOK'
      BY <1>1, <1>2, <1>3 DEF FollowInv, follow!TypeOK
<1>5. follow!AtMostOneUnseen'
      BY <1>1, <1>2, <1>3 DEF FollowInv, OfTheKey, follow!AtMostOneUnseen
<1>. QED  BY <1>1, <1>2, <1>3, <1>4, <1>5 DEF FollowInv, FollowedJobsAre, OfTheKey

LEMMA FollowRuns == ASSUME FollowInv, NEW k \in follow!Keys, follow!Run(k) PROVE FollowInv'
<1>1. PICK s \in {"done", "failed"} :
         /\ follow_jobs' = [follow_jobs EXCEPT ![k].state = s]
         /\ follow_pushes' \in {follow_pushes, follow_pushes \cup {[key |-> k, state |-> s]}}
      BY DEF follow!Run
<1>2. /\ follow_jobs' \in [follow!Keys -> [state : {"none", "working", "done", "failed"}, prompt : Prompts]]
      /\ \A o \in follow!Keys : follow_jobs[o].state # "none" <=> follow_jobs'[o].state # "none"
      BY <1>1 DEF follow!Run, FollowInv, follow!TypeOK
<1>3. follow_pushes' \subseteq follow!Views
      BY <1>1 DEF FollowInv, follow!TypeOK, follow!Views
<1>4. UNCHANGED <<follow_panel, follow_prompt, follow_key, follow_starting, follow_shown, follow_error,
                  follow_socket, follow_reads, follow_told, follow_misled, follow_unread>>
      BY DEF follow!Run
<1>5. follow!TypeOK'
      BY <1>2, <1>3, <1>4 DEF FollowInv, follow!TypeOK
<1>6. FollowedJobsAre'
      BY <1>2, <1>4 DEF FollowInv, FollowedJobsAre, follow!TypeOK, follow!Views
<1>. QED  BY <1>2, <1>4, <1>5, <1>6 DEF FollowInv, OfTheKey, follow!AtMostOneUnseen

LEMMA FollowAnswered ==
    ASSUME FollowInv,
           \/ follow!Started
           \/ \E v \in follow_pushes : follow!Push(v)
           \/ \E v \in follow_reads : follow!Refresh(v)
    PROVE  FollowInv'
<1>1. CASE follow!Started
  <2>1. /\ [key |-> follow_starting.key, state |-> follow_starting.answer] \in follow!Views
        /\ follow_starting.key = follow_key /\ follow_jobs[follow_key].state # "none"
        BY <1>1 DEF follow!Started, FollowInv, follow!TypeOK, follow!Views, OfTheKey, FollowedJobsAre
  <2>. QED  BY <1>1, <2>1, FollowShows DEF follow!Started, FollowInv, follow!TypeOK
<1>2. ASSUME NEW v \in follow_pushes, follow!Push(v) PROVE FollowInv'
  <2>1. CASE follow!Active /\ v.key = follow_shown.key
    <3>1. /\ v \in follow!Views /\ follow_jobs[v.key].state # "none"
          /\ ~ follow_misled => v.key = follow_key
          BY <2>1 DEF FollowInv, follow!TypeOK, FollowedJobsAre, OfTheKey, follow!Active
    <3>. QED  BY <1>2, <2>1, <3>1, FollowShows DEF follow!Push, FollowInv, follow!TypeOK
  <2>2. CASE ~ (follow!Active /\ v.key = follow_shown.key)
        BY <1>2, <2>2, FollowQuiet DEF follow!Push, FollowInv, follow!TypeOK
  <2>. QED  BY <2>1, <2>2
<1>3. ASSUME NEW v \in follow_reads, follow!Refresh(v) PROVE FollowInv'
  <2>1. /\ v \in follow!Views /\ follow_jobs[v.key].state # "none"
        /\ follow_misled' \in BOOLEAN /\ (follow_misled => follow_misled')
        /\ ~ follow_misled' => v.key = follow_key
        /\ follow_reads \ {v} \in SUBSET follow_reads /\ follow_error' \in BOOLEAN
        BY <1>3 DEF follow!Refresh, FollowInv, follow!TypeOK, FollowedJobsAre
  <2>. QED  BY <1>3, <2>1, FollowShows DEF follow!Refresh
<1>. QED  BY <1>1, <1>2, <1>3

LEMMA FollowKeeps == ASSUME FollowAssumption, FollowInv, [follow!Next]_(follow!vars) PROVE FollowInv'
<1>0. /\ follow_prompt \in Prompts /\ follow_error \in BOOLEAN /\ follow_unread \in BOOLEAN
      BY DEF FollowInv, follow!TypeOK
<1>1. ASSUME NEW p \in Prompts, follow!Type(p) PROVE FollowInv'
      BY <1>0, <1>1, FollowQuiet DEF follow!Type
<1>2. CASE follow!Start
      BY <1>0, <1>2, FollowQuiet DEF follow!Start
<1>3. CASE follow!NotStarted
      BY <1>0, <1>3, FollowQuiet DEF follow!NotStarted
<1>4. CASE follow!Connect
      BY <1>0, <1>4, FollowQuiet DEF follow!Connect, FollowInv, FollowedJobsAre
<1>5. CASE follow!Drop
      BY <1>0, <1>5, FollowQuiet DEF follow!Drop, FollowInv, FollowedJobsAre
<1>6. CASE follow!NoSession
      BY <1>0, <1>6, FollowQuiet DEF follow!NoSession, FollowInv, FollowedJobsAre
<1>7. CASE follow!Poll
      BY <1>0, <1>7, FollowQuiet DEF follow!Poll, follow!Active
<1>8. ASSUME NEW v \in follow_reads, follow!ReadFails(v) PROVE FollowInv'
  <2>1. follow_unread' \in BOOLEAN
        BY <1>0, <1>8 DEF follow!ReadFails
  <2>. QED  BY <1>0, <1>8, <2>1, FollowQuiet DEF follow!ReadFails
<1>9. CASE UNCHANGED follow!vars
      BY <1>0, <1>9, FollowQuiet DEF follow!vars
<1>. QED  BY <1>1, <1>2, <1>3, <1>4, <1>5, <1>6, <1>7, <1>8, <1>9, FollowAccepts, FollowResets, FollowRuns,
             FollowAnswered DEF follow!Next

\* The transform and avatar panels: however often Start is pressed after a lost answer,
\* at most one job is paid for that was never on screen, until a late answer brings an
\* older one back, for any prompts and any number of attempts and reads.
THEOREM FollowingKeepsItsWord ==
    ASSUME FollowAssumption
    PROVE  follow!Spec => [](follow!TypeOK /\ follow!AtMostOneUnseen)
<1>1. follow!Init => FollowInv
      BY FollowStarts
<1>2. FollowInv /\ [follow!Next]_(follow!vars) => FollowInv'
      BY FollowKeeps
<1>3. FollowInv => follow!TypeOK /\ follow!AtMostOneUnseen
      BY DEF FollowInv
<1>. QED  BY <1>1, <1>2, <1>3, PTL DEF follow!Spec

-----------------------------------------------------------------------------
(* A project's video (make).                                                  *)

\* Jobs are started in order.
InOrder == \E n \in 0 .. MaxJobs : \A j \in make!Jobs : make_job[j] = "none" <=> j > n

\* Every document holds each video once at most.
OnceEach(d) == \A j \in make!Jobs : d.clips[j] <= 1
ClipsAre ==
    /\ OnceEach(make_doc)
    /\ \A p \in make!Projects : OnceEach(make_stored[p])

\* An opening that is yet to come waits for nothing, and what is waited for is a job.
CallsAre ==
    /\ \A m \in make!Mounts :
          /\ m > make_mount => make_call[m] = make!Idle /\ make_retry[m] = make!Idle
          /\ make_call[m].step # "idle" => make_call[m].job \in make!Jobs
          /\ make_retry[m].step # "idle" => make_retry[m].job \in make!Jobs
          /\ make_retry[m].step = "starting" => make_job[make_retry[m].job] = "failed"

\* The watcher on screen: what it waits for is of the job it shows; it offers to pay again
\* only for one that has failed, and not while it waits for that.
ViewIs ==
    make_open # make!None =>
        /\ make_mount # 0
        /\ make_view.failed => make_view.job \in make!Jobs
        /\ make_call[make_mount].step # "idle" => make_view.job \in make!Jobs
        /\ make_retry[make_mount].step # "idle" =>
              /\ make_retry[make_mount].job = make_view.job
              /\ make_view.retrying /\ ~ make_view.confirm
        /\ make_view.confirm => make_view.job \in make!Jobs /\ make_job[make_view.job] = "failed"

MakeInv == make!TypeOK /\ InOrder /\ ClipsAre /\ CallsAre /\ ViewIs

LEMMA MakeStarts == ASSUME MakeAssumption, make!Init PROVE MakeInv
<1>. USE DEF make!None
<1>0. 1 \in make!Jobs /\ 0 \in 0 .. MaxMounts /\ 1 \in 0 .. MaxJobs /\ make!Jobs = 1 .. MaxJobs
      /\ MaxJobs \in Nat
      BY DEF MakeAssumption, make!Jobs
<1>1. make!Blank \in make!Documents /\ [make!Blank EXCEPT !.record = 1] \in make!Documents
      BY <1>0 DEF make!Blank, make!Documents
<1>2. make!Nothing \in make!View
      BY DEF make!Nothing, make!View
<1>3. make!TypeOK
      BY <1>0, <1>1, <1>2 DEF make!Init, make!TypeOK, make!Idle
<1>4. InOrder
  <2>1. \A j \in make!Jobs : make_job[j] = "none" <=> j > 1
        BY <1>0 DEF make!Init
  <2>. QED  BY <1>0, <2>1 DEF InOrder
<1>5. OnceEach(make!Blank) /\ OnceEach([make!Blank EXCEPT !.record = 1])
      BY <1>0, <1>1 DEF OnceEach, make!Blank
<1>6. ClipsAre
      BY <1>5 DEF make!Init, ClipsAre
<1>. QED  BY <1>3, <1>4, <1>6 DEF make!Init, MakeInv, CallsAre, ViewIs, make!Idle

\* A step that starts and changes no job and no document.
LEMMA MakeScreenKeeps ==
    ASSUME MakeInv, UNCHANGED <<make_job, make_stored, make_doc, make_held, make_mount, make_open>>,
           make_adopting' \in [make!Mounts -> BOOLEAN], make_rejected' \in BOOLEAN,
           make_view' \in make!View,
           make_call' \in [make!Mounts -> [step : {"idle", "status", "copy"},
                                           job : {make!None} \cup make!Jobs]],
           make_retry' \in [make!Mounts -> [step : {"idle", "checking", "starting"},
                                            job : {make!None} \cup make!Jobs]],
           CallsAre', ViewIs'
    PROVE  MakeInv'
<1>1. make!TypeOK'
      BY DEF MakeInv, make!TypeOK
<1>. QED  BY <1>1 DEF MakeInv, InOrder, ClipsAre

LEMMA PlacedOnce ==
    ASSUME MakeAssumption, NEW d \in make!Documents, OnceEach(d), NEW j \in make!Jobs
    PROVE  make!Placed(d, j) \in make!Documents /\ OnceEach(make!Placed(d, j))
<1>1. CASE d.clips[j] > 0
      BY <1>1 DEF make!Placed
<1>2. CASE ~ (d.clips[j] > 0)
  <2>1. make!Placed(d, j) = [d EXCEPT !.clips[j] = 1]
        BY <1>2 DEF make!Placed
  <2>. QED  BY <2>1 DEF make!Documents, OnceEach
<1>. QED  BY <1>1, <1>2

LEMMA RecordedOnce ==
    ASSUME NEW d \in make!Documents, OnceEach(d), NEW j \in make!Jobs, NEW e
    PROVE  make!Recorded(d, j, e) \in make!Documents /\ OnceEach(make!Recorded(d, j, e))
<1>1. [d EXCEPT !.record = j] \in make!Documents /\ OnceEach([d EXCEPT !.record = j])
      BY DEF make!Documents, OnceEach
<1>. QED  BY <1>1 DEF make!Recorded

LEMMA MakeStudioKeeps ==
    ASSUME MakeAssumption, MakeInv,
           \/ \E p \in make!Projects : make!Enter(p)
           \/ make!Leave \/ make!Save
           \/ \E j \in make!Jobs : make!Delete(j)
    PROVE  MakeInv'
<1>. USE DEF make!None, make!page, make!watcher
<1>0. /\ make_doc \in make!Documents /\ OnceEach(make_doc)
      /\ \A p \in make!Projects : make_stored[p] \in make!Documents /\ OnceEach(make_stored[p])
      /\ make!Nothing \in make!View
      BY DEF MakeInv, ClipsAre, make!TypeOK, make!Nothing, make!View
<1>1. ASSUME NEW p \in make!Projects, make!Enter(p) PROVE MakeInv'
  <2>1. /\ make_mount' = make_mount + 1 /\ make_mount \in 0 .. MaxMounts /\ make_mount < MaxMounts
        /\ make_open' = p /\ make_held' = p /\ make_view' = [make!Nothing EXCEPT !.job = make_stored[p].record]
        /\ UNCHANGED <<make_job, make_stored, make_adopting, make_call, make_retry, make_rejected>>
        BY <1>1 DEF make!Enter, MakeInv, make!TypeOK
  <2>2. make_mount' \in make!Mounts /\ make_mount' \in 0 .. MaxMounts /\ make_mount' > make_mount
        BY <2>1 DEF make!Mounts, MakeAssumption
  <2>3. make!Blank \in make!Documents /\ OnceEach(make!Blank)
        BY DEF make!Blank, make!Documents, OnceEach
  <2>4. make_doc' \in make!Documents /\ OnceEach(make_doc)'
    <3>1. make_doc' \in {make_doc, make_stored[p], make!Blank}
          BY <1>1 DEF make!Enter, make!ToScreen
    <3>. QED  BY <1>0, <2>3, <3>1 DEF OnceEach
  <2>5. make_stored[p].record \in {make!None} \cup make!Jobs
        BY <1>0 DEF make!Documents
  <2>6. make_view' \in make!View /\ ~ make_view'.failed /\ ~ make_view'.confirm
        BY <1>0, <2>1, <2>5 DEF make!View, make!Nothing
  <2>7. make!TypeOK'
        BY <2>1, <2>2, <2>4, <2>6 DEF MakeInv, make!TypeOK
  <2>8. make_call[make_mount'] = make!Idle /\ make_retry[make_mount'] = make!Idle
        BY <2>2 DEF MakeInv, CallsAre
  <2>9. ViewIs'
        BY <2>1, <2>2, <2>6, <2>8 DEF ViewIs, make!Idle, make!Mounts
  <2>10. CallsAre'
    <3>1. \A m \in make!Mounts : m > make_mount' => m > make_mount
          BY <2>1 DEF make!Mounts
    <3>. QED  BY <2>1, <3>1 DEF MakeInv, CallsAre
  <2>11. InOrder' /\ ClipsAre'
        BY <2>1, <2>4 DEF MakeInv, InOrder, ClipsAre, OnceEach
  <2>. QED  BY <2>7, <2>9, <2>10, <2>11 DEF MakeInv
<1>2. CASE make!Leave
  <2>1. make!TypeOK'
        BY <1>0, <1>2 DEF make!Leave, MakeInv, make!TypeOK
  <2>. QED  BY <1>2, <2>1 DEF make!Leave, MakeInv, InOrder, ClipsAre, CallsAre, ViewIs, OnceEach
<1>3. CASE make!Save
  <2>1. /\ make_open \in make!Projects
        /\ make_stored' = [make_stored EXCEPT ![make_open] = make_doc]
        /\ UNCHANGED <<make_job, make_doc, make_held, make_mount, make_open, make_view, make_adopting,
                       make_call,
                       make_retry, make_rejected>>
        BY <1>3 DEF make!Save, MakeInv, make!TypeOK
  <2>2. make!TypeOK'
        BY <1>0, <2>1 DEF MakeInv, make!TypeOK
  <2>3. ClipsAre'
        BY <1>0, <2>1 DEF MakeInv, ClipsAre, OnceEach, make!TypeOK
  <2>. QED  BY <2>1, <2>2, <2>3 DEF MakeInv, InOrder, CallsAre, ViewIs
<1>4. ASSUME NEW j \in make!Jobs, make!Delete(j) PROVE MakeInv'
  <2>1. /\ make_doc' = [make_doc EXCEPT !.clips[j] = 0]
        /\ UNCHANGED <<make_job, make_stored, make_held, make_mount, make_open, make_view, make_adopting,
                       make_call,
                       make_retry, make_rejected>>
        BY <1>4 DEF make!Delete
  <2>2. make_doc' \in make!Documents /\ OnceEach(make_doc)'
        BY <1>0, <2>1 DEF make!Documents, OnceEach
  <2>3. make!TypeOK'
        BY <2>1, <2>2 DEF MakeInv, make!TypeOK
  <2>. QED  BY <2>1, <2>2, <2>3 DEF MakeInv, InOrder, ClipsAre, CallsAre, ViewIs, OnceEach
<1>. QED  BY <1>1, <1>2, <1>3, <1>4

\* A call of finish waits for the next thing, or is over.
LEMMA MakeAnswered ==
    ASSUME MakeInv, NEW m \in make!Mounts, make_call[m].step # "idle",
           NEW c \in [step : {"idle", "copy"}, job : {make!None} \cup make!Jobs],
           make_call' = [make_call EXCEPT ![m] = c], c.step # "idle" => c.job \in make!Jobs,
           NEW v \in make!View, make_view' = make!Shown(m, v),
           v.job = make_view.job, v.retrying = make_view.retrying, v.confirm = make_view.confirm,
           UNCHANGED <<make_job, make_stored, make_held, make_mount, make_open, make_retry>>,
           make_doc' \in make!Documents, OnceEach(make_doc'),
           make_adopting' \in [make!Mounts -> BOOLEAN], make_rejected' \in BOOLEAN
    PROVE  MakeInv'
<1>1. make_view' \in make!View
      BY DEF make!Shown, MakeInv, make!TypeOK
<1>2. make_call' \in [make!Mounts -> [step : {"idle", "status", "copy"}, job : {make!None} \cup make!Jobs]]
      BY DEF MakeInv, make!TypeOK
<1>3. make!TypeOK'
      BY <1>1, <1>2 DEF MakeInv, make!TypeOK
<1>4. /\ make_call'[m] = c
      /\ \A o \in make!Mounts : o # m => make_call'[o] = make_call[o]
      BY DEF MakeInv, make!TypeOK
<1>5. ~ (m > make_mount)
      BY DEF MakeInv, CallsAre, make!Idle
<1>6. CallsAre'
      BY <1>4, <1>5 DEF MakeInv, CallsAre
<1>7. make_mount # 0 => make_mount \in make!Mounts
      BY DEF MakeInv, make!TypeOK, make!Mounts
<1>8. ViewIs'
  <2>1. CASE m = make_mount /\ make_open # make!None
    <3>1. make_view' = v /\ make_view.job \in make!Jobs
          BY <2>1 DEF make!Shown, MakeInv, ViewIs
    <3>. QED  BY <2>1, <3>1 DEF MakeInv, ViewIs
  <2>2. CASE ~ (m = make_mount /\ make_open # make!None)
    <3>1. make_view' = make_view
          BY <2>2 DEF make!Shown
    <3>. QED  BY <2>2, <3>1, <1>4, <1>7 DEF MakeInv, ViewIs
  <2>. QED  BY <2>1, <2>2
<1>9. ClipsAre'
      BY DEF MakeInv, ClipsAre, OnceEach
<1>. QED  BY <1>3, <1>6, <1>8, <1>9 DEF MakeInv, InOrder

LEMMA MakeAnswersKeep == ASSUME MakeAssumption, MakeInv, NEW m \in make!Mounts, make!Answers(m) PROVE MakeInv'
<1>. USE DEF make!page
<1>0. /\ make_view \in make!View /\ make_doc \in make!Documents /\ OnceEach(make_doc)
      /\ make_adopting \in [make!Mounts -> BOOLEAN] /\ make_rejected \in BOOLEAN
      /\ [make_adopting EXCEPT ![m] = FALSE] \in [make!Mounts -> BOOLEAN]
      /\ make!Idle \in [step : {"idle", "copy"}, job : {make!None} \cup make!Jobs] /\ make!Idle.step = "idle"
      /\ make_view = make!Shown(m, make_view)
      BY DEF MakeInv, make!TypeOK, ClipsAre, make!Idle, make!Shown
<1>1. \A f, g \in BOOLEAN :
         LET v == [make_view EXCEPT !.finished = f, !.failed = g]
         IN  v \in make!View /\ v.job = make_view.job /\ v.retrying = make_view.retrying /\ v.confirm = make_view.confirm
      BY <1>0 DEF make!View
<1>2. \A g \in BOOLEAN :
         LET v == [make_view EXCEPT !.failed = g]
         IN  v \in make!View /\ v.job = make_view.job /\ v.retrying = make_view.retrying /\ v.confirm = make_view.confirm
      BY <1>0 DEF make!View
<1>3. ASSUME make_call[m].step # "idle", make!Failing(m) PROVE MakeInv'
  <2>1. UNCHANGED <<make_job, make_stored, make_doc, make_held, make_mount, make_open, make_retry,
                    make_rejected>>
        /\ make_call' = [make_call EXCEPT ![m] = make!Idle] /\ make_adopting' = [make_adopting EXCEPT ![m] = FALSE]
        /\ make_view' = make!Shown(m, [make_view EXCEPT !.finished = TRUE, !.failed = TRUE])
        BY <1>3 DEF make!Failing
  <2>. DEFINE v == [make_view EXCEPT !.finished = TRUE, !.failed = TRUE]
  <2>2. v \in make!View /\ v.job = make_view.job /\ v.retrying = make_view.retrying /\ v.confirm = make_view.confirm
        BY <1>1
  <2>3. make_view' = make!Shown(m, v)
        BY <2>1
  <2>. HIDE DEF v
  <2>. QED  BY <1>0, <1>3, <2>1, <2>2, <2>3, MakeAnswered
<1>4. CASE make!StatusFailed(m) \/ make!NotCopied(m)
      BY <1>3, <1>4 DEF make!StatusFailed, make!NotCopied
<1>5. CASE make!StatusWorking(m)
  <2>1. UNCHANGED <<make_job, make_stored, make_doc, make_held, make_mount, make_open, make_retry,
                    make_rejected>>
        /\ make_call' = [make_call EXCEPT ![m] = make!Idle] /\ make_adopting' = [make_adopting EXCEPT ![m] = FALSE]
        /\ make_view' = make!Shown(m, [make_view EXCEPT !.failed = FALSE])
        /\ make_call[m].step # "idle"
        BY <1>5 DEF make!StatusWorking
  <2>. DEFINE v == [make_view EXCEPT !.failed = FALSE]
  <2>2. v \in make!View /\ v.job = make_view.job /\ v.retrying = make_view.retrying /\ v.confirm = make_view.confirm
        BY <1>2
  <2>3. make_view' = make!Shown(m, v)
        BY <2>1
  <2>. HIDE DEF v
  <2>. QED  BY <1>0, <2>1, <2>2, <2>3, MakeAnswered
<1>6. CASE make!StatusDone(m)
  <2>. DEFINE c == [make_call[m] EXCEPT !.step = "copy"]
  <2>1. make_call[m] \in [step : {"idle", "status", "copy"}, job : {make!None} \cup make!Jobs]
        /\ make_call[m].step # "idle" /\ make_call[m].job \in make!Jobs
        BY <1>6 DEF make!StatusDone, MakeInv, make!TypeOK, CallsAre
  <2>2. c \in [step : {"idle", "copy"}, job : {make!None} \cup make!Jobs] /\ c.job \in make!Jobs
        BY <2>1
  <2>3. make_call' = [make_call EXCEPT ![m] = c]
        /\ UNCHANGED <<make_job, make_stored, make_doc, make_held, make_mount, make_open, make_view,
                       make_adopting,
                       make_retry, make_rejected>>
        BY <1>6 DEF make!StatusDone
  <2>. HIDE DEF c
  <2>. QED  BY <1>0, <2>1, <2>2, <2>3, MakeAnswered
<1>7. CASE make!Copied(m)
  <2>1. make_call[m].step # "idle" /\ make_call[m].job \in make!Jobs
        BY <1>7 DEF make!Copied, MakeInv, CallsAre
  <2>2. make_doc' \in make!Documents /\ OnceEach(make_doc')
        BY <1>0, <1>7, <2>1, PlacedOnce, RecordedOnce DEF make!Copied
  <2>3. UNCHANGED <<make_job, make_stored, make_held, make_mount, make_open, make_adopting, make_retry,
                    make_rejected>>
        /\ make_call' = [make_call EXCEPT ![m] = make!Idle]
        /\ make_view' = make!Shown(m, [make_view EXCEPT !.finished = TRUE, !.failed = FALSE])
        BY <1>7 DEF make!Copied
  <2>. DEFINE v == [make_view EXCEPT !.finished = TRUE, !.failed = FALSE]
  <2>4. v \in make!View /\ v.job = make_view.job /\ v.retrying = make_view.retrying /\ v.confirm = make_view.confirm
        BY <1>1
  <2>5. make_view' = make!Shown(m, v)
        BY <2>3
  <2>. HIDE DEF v
  <2>. QED  BY <1>0, <2>1, <2>2, <2>3, <2>4, <2>5, MakeAnswered
<1>8. CASE make!Rejected(m)
      BY <1>0, <1>8, MakeAnswered DEF make!Rejected
<1>. QED  BY <1>4, <1>5, <1>6, <1>7, <1>8 DEF make!Answers

\* What the watcher on screen does: it looks, hears of a failure, or begins a retry.
LEMMA MakeWatcherKeeps ==
    ASSUME MakeAssumption, MakeInv,
           make!Finish \/ make!PushFailed \/ make!PrepareRetry \/ make!CancelRetry \/ make!RetryGeneration
    PROVE  MakeInv'
<1>. USE DEF make!page
<1>0. /\ make_view \in make!View /\ make_mount \in make!Mounts /\ make_open # make!None
      /\ make_view.job \in {make!None} \cup make!Jobs
      /\ make_call \in [make!Mounts -> [step : {"idle", "status", "copy"}, job : {make!None} \cup make!Jobs]]
      /\ make_retry \in [make!Mounts -> [step : {"idle", "checking", "starting"},
                                         job : {make!None} \cup make!Jobs]]
      /\ make_adopting \in [make!Mounts -> BOOLEAN] /\ make_rejected \in BOOLEAN
  <2>1. make_open # make!None
        BY DEF make!Finish, make!PushFailed, make!PrepareRetry, make!CancelRetry, make!RetryGeneration,
           make!Watching
  <2>. QED  BY <2>1 DEF MakeInv, ViewIs, make!TypeOK, make!Mounts, make!View
<1>1. CASE make!Finish
  <2>. DEFINE c == [step |-> "status", job |-> make_view.job]
  <2>1. /\ make_view.job \in make!Jobs /\ make_call' = [make_call EXCEPT ![make_mount] = c]
        /\ make_adopting' = [make_adopting EXCEPT ![make_mount] = TRUE]
        /\ UNCHANGED <<make_job, make_stored, make_doc, make_held, make_mount, make_open, make_view,
                       make_retry, make_rejected>>
        BY <1>0, <1>1 DEF make!Finish, make!Watching
  <2>2. make_call'[make_mount] = c /\ \A o \in make!Mounts : o # make_mount => make_call'[o] = make_call[o]
        BY <1>0, <2>1
  <2>3. CallsAre'
        BY <1>0, <2>1, <2>2 DEF MakeInv, CallsAre, make!Mounts
  <2>4. ViewIs'
        BY <2>1, <2>2 DEF MakeInv, ViewIs
  <2>. QED  BY <1>0, <2>1, <2>3, <2>4, MakeScreenKeeps
<1>2. CASE make!PushFailed
  <2>1. /\ make_view.job \in make!Jobs
        /\ make_view' = [make_view EXCEPT !.finished = TRUE, !.failed = TRUE]
        /\ UNCHANGED <<make_job, make_stored, make_doc, make_held, make_mount, make_open, make_adopting,
                       make_call,
                       make_retry, make_rejected>>
        BY <1>0, <1>2 DEF make!PushFailed, make!Watching
  <2>2. make_view' \in make!View /\ make_view'.job = make_view.job /\ make_view'.confirm = make_view.confirm
        /\ make_view'.retrying = make_view.retrying
        BY <1>0, <2>1 DEF make!View
  <2>3. CallsAre' /\ ViewIs'
        BY <2>1, <2>2 DEF MakeInv, CallsAre, ViewIs
  <2>. QED  BY <1>0, <2>1, <2>2, <2>3, MakeScreenKeeps
<1>3. CASE make!CancelRetry
  <2>1. /\ make_view' = [make_view EXCEPT !.confirm = FALSE]
        /\ UNCHANGED <<make_job, make_stored, make_doc, make_held, make_mount, make_open, make_adopting,
                       make_call,
                       make_retry, make_rejected>>
        BY <1>3 DEF make!CancelRetry
  <2>2. make_view' \in make!View /\ make_view'.job = make_view.job /\ ~ make_view'.confirm
        /\ make_view'.retrying = make_view.retrying /\ make_view'.failed = make_view.failed
        BY <1>0, <2>1 DEF make!View
  <2>3. CallsAre' /\ ViewIs'
        BY <2>1, <2>2 DEF MakeInv, CallsAre, ViewIs
  <2>. QED  BY <1>0, <2>1, <2>2, <2>3, MakeScreenKeeps
<1>4. CASE make!PrepareRetry
  <2>. DEFINE c == [step |-> "checking", job |-> make_view.job]
  <2>1. /\ make_view.failed /\ ~ make_view.confirm /\ make_view.job \in make!Jobs
        /\ make_view' = [make_view EXCEPT !.retrying = TRUE]
        /\ make_retry' = [make_retry EXCEPT ![make_mount] = c]
        /\ UNCHANGED <<make_job, make_stored, make_doc, make_held, make_mount, make_open, make_adopting,
                       make_call,
                       make_rejected>>
        BY <1>4 DEF make!PrepareRetry, MakeInv, ViewIs
  <2>2. make_view' \in make!View /\ make_view'.job = make_view.job /\ ~ make_view'.confirm
        /\ make_view'.retrying /\ make_view'.failed
        BY <1>0, <2>1 DEF make!View
  <2>3. make_retry'[make_mount] = c /\ \A o \in make!Mounts : o # make_mount => make_retry'[o] = make_retry[o]
        BY <1>0, <2>1
  <2>4. CallsAre'
        BY <1>0, <2>1, <2>3 DEF MakeInv, CallsAre, make!Mounts
  <2>5. ViewIs'
        BY <2>1, <2>2, <2>3 DEF MakeInv, ViewIs
  <2>. QED  BY <1>0, <2>1, <2>2, <2>4, <2>5, MakeScreenKeeps
<1>5. CASE make!RetryGeneration
  <2>. DEFINE c == [step |-> "starting", job |-> make_view.job]
  <2>1. /\ make_view.failed /\ make_view.job \in make!Jobs /\ make_job[make_view.job] = "failed"
        /\ make_view' = [make_view EXCEPT !.retrying = TRUE, !.confirm = FALSE]
        /\ make_retry' = [make_retry EXCEPT ![make_mount] = c]
        /\ UNCHANGED <<make_job, make_stored, make_doc, make_held, make_mount, make_open, make_adopting,
                       make_call,
                       make_rejected>>
        BY <1>5 DEF make!RetryGeneration, MakeInv, ViewIs
  <2>2. make_view' \in make!View /\ make_view'.job = make_view.job /\ ~ make_view'.confirm
        /\ make_view'.retrying /\ make_view'.failed
        BY <1>0, <2>1 DEF make!View
  <2>3. make_retry'[make_mount] = c /\ \A o \in make!Mounts : o # make_mount => make_retry'[o] = make_retry[o]
        BY <1>0, <2>1
  <2>4. CallsAre'
        BY <1>0, <2>1, <2>3 DEF MakeInv, CallsAre, make!Mounts
  <2>5. ViewIs'
        BY <2>1, <2>2, <2>3 DEF MakeInv, ViewIs
  <2>. QED  BY <1>0, <2>1, <2>2, <2>4, <2>5, MakeScreenKeeps
<1>. QED  BY <1>1, <1>2, <1>3, <1>4, <1>5

\* A retry is settled: its opening waits for it no more.
LEMMA MakeSettled ==
    ASSUME MakeInv, NEW m \in make!Mounts, make_retry[m].step # "idle",
           NEW v \in make!View, make!Settle(m, v), v.job = make_view.job,
           m = make_mount /\ make_open # make!None /\ v.confirm => make_job[make_view.job] = "failed",
           UNCHANGED <<make_job, make_stored, make_doc, make_held, make_mount, make_open, make_rejected>>,
           \/ UNCHANGED <<make_adopting, make_call>>
           \/ /\ make_adopting' = [make_adopting EXCEPT ![m] = TRUE]
              /\ make_call' = [make_call EXCEPT ![m] = [step |-> "status", job |-> make_retry[m].job]]
    PROVE  MakeInv'
<1>. DEFINE w == [v EXCEPT !.retrying = FALSE]
<1>1. w \in make!View /\ w.job = v.job /\ w.confirm = v.confirm /\ w.failed = v.failed
      BY DEF make!View
<1>2. make_retry' = [make_retry EXCEPT ![m] = make!Idle] /\ make_view' = make!Shown(m, w)
      BY DEF make!Settle
<1>. HIDE DEF w
<1>3. /\ make_retry \in [make!Mounts -> [step : {"idle", "checking", "starting"},
                                         job : {make!None} \cup make!Jobs]]
      /\ make_call \in [make!Mounts -> [step : {"idle", "status", "copy"}, job : {make!None} \cup make!Jobs]]
      /\ make_adopting \in [make!Mounts -> BOOLEAN] /\ make_rejected \in BOOLEAN /\ make_view \in make!View
      /\ make_mount \in 0 .. MaxMounts
      /\ make_retry[m].job \in make!Jobs /\ ~ (m > make_mount)
      BY DEF MakeInv, make!TypeOK, CallsAre, make!Idle
<1>4. make_retry' \in [make!Mounts -> [step : {"idle", "checking", "starting"},
                                       job : {make!None} \cup make!Jobs]]
      BY <1>2, <1>3 DEF make!Idle
<1>5. /\ make_adopting' \in [make!Mounts -> BOOLEAN]
      /\ make_call' \in [make!Mounts -> [step : {"idle", "status", "copy"}, job : {make!None} \cup make!Jobs]]
  <2>1. [step |-> "status", job |-> make_retry[m].job]
           \in [step : {"idle", "status", "copy"}, job : {make!None} \cup make!Jobs]
        BY <1>3
  <2>2. CASE UNCHANGED <<make_adopting, make_call>>
        BY <1>3, <2>2
  <2>3. CASE /\ make_adopting' = [make_adopting EXCEPT ![m] = TRUE]
             /\ make_call' = [make_call EXCEPT ![m] = [step |-> "status", job |-> make_retry[m].job]]
        BY <1>3, <2>1, <2>3
  <2>. QED  BY <2>2, <2>3
<1>6. /\ make_retry'[m] = make!Idle
      /\ \A o \in make!Mounts : o # m => make_retry'[o] = make_retry[o] /\ make_call'[o] = make_call[o]
      /\ make_call'[m] = make_call[m] \/ make_call'[m] = [step |-> "status", job |-> make_retry[m].job]
      BY <1>2, <1>3
<1>7. make_view' \in make!View
      BY <1>1, <1>2, <1>3 DEF make!Shown
<1>8. CallsAre'
      BY <1>3, <1>6 DEF MakeInv, CallsAre, make!Idle
<1>9. ViewIs'
  <2>1. CASE m = make_mount /\ make_open # make!None
    <3>1. make_view' = w /\ make_view.job \in make!Jobs
          BY <1>2, <1>3, <2>1 DEF make!Shown, MakeInv, ViewIs
    <3>2. make_mount # 0
          BY <2>1 DEF MakeInv, ViewIs
    <3>. QED  BY <1>1, <1>6, <2>1, <3>1, <3>2 DEF ViewIs, make!Idle
  <2>2. CASE ~ (m = make_mount /\ make_open # make!None)
    <3>1. make_view' = make_view
          BY <1>2, <2>2 DEF make!Shown
    <3>2. make_mount # 0 => make_mount \in make!Mounts
          BY <1>3 DEF make!Mounts
    <3>. QED  BY <2>2, <3>1, <3>2, <1>6 DEF MakeInv, ViewIs
  <2>. QED  BY <2>1, <2>2
<1>. QED  BY <1>3, <1>4, <1>5, <1>7, <1>8, <1>9, MakeScreenKeeps

LEMMA MakeRecheckKeeps ==
    ASSUME MakeInv, NEW m \in make!Mounts, make!Recheck(m) \/ make!NotStarted(m)
    PROVE  MakeInv'
<1>. USE DEF make!page
<1>. DEFINE u == [make_view EXCEPT !.finished = FALSE, !.failed = FALSE]
            c == [make_view EXCEPT !.confirm = TRUE]
<1>0. /\ make_view \in make!View /\ u \in make!View /\ c \in make!View
      /\ u.job = make_view.job /\ c.job = make_view.job /\ u.confirm = make_view.confirm
      BY DEF MakeInv, make!TypeOK, make!View
<1>1. make_open # make!None /\ make_view.confirm => make_job[make_view.job] = "failed"
      BY DEF MakeInv, ViewIs
<1>2. CASE make!NotStarted(m)
  <2>1. /\ make_retry[m].step # "idle" /\ make!Settle(m, make_view)
        /\ UNCHANGED <<make_job, make_stored, make_doc, make_held, make_mount, make_open, make_rejected,
                       make_adopting,
                       make_call>>
        BY <1>2 DEF make!NotStarted
  <2>. QED  BY <1>0, <1>1, <2>1, MakeSettled
<1>3. CASE make!Recheck(m)
  <2>1. /\ make_retry[m].step # "idle"
        /\ UNCHANGED <<make_job, make_stored, make_doc, make_held, make_mount, make_open, make_rejected>>
        /\ \/ /\ make!Settle(m, u)
              /\ make_adopting' = [make_adopting EXCEPT ![m] = TRUE]
              /\ make_call' = [make_call EXCEPT ![m] = [step |-> "status", job |-> make_retry[m].job]]
           \/ make!Settle(m, u) /\ UNCHANGED <<make_adopting, make_call>>
           \/ /\ make_job[make_retry[m].job] = "failed"
              /\ make!Settle(m, c) /\ UNCHANGED <<make_adopting, make_call>>
        BY <1>3 DEF make!Recheck
  <2>2. m = make_mount /\ make_open # make!None => make_retry[m].job = make_view.job
        BY <2>1 DEF MakeInv, ViewIs
  <2>. HIDE DEF u, c
  <2>. QED  BY <1>0, <1>1, <2>1, <2>2, MakeSettled
<1>. QED  BY <1>2, <1>3

\* The next job is the first that was not started.
LEMMA UnusedIs ==
    ASSUME MakeAssumption, MakeInv, \E j \in make!Jobs : make_job[j] = "none"
    PROVE  /\ make!Unused \in make!Jobs /\ make_job[make!Unused] = "none"
           /\ \A j \in make!Jobs : j # make!Unused => (make_job[j] = "none" <=> j > make!Unused)
<1>. USE DEF make!Jobs
<1>1. PICK n \in 0 .. MaxJobs : \A j \in make!Jobs : make_job[j] = "none" <=> j > n
      BY DEF MakeInv, InOrder
<1>2. n + 1 \in make!Jobs /\ make_job[n + 1] = "none" /\ \A i \in 1 .. (n + 1) - 1 : make_job[i] # "none"
      BY <1>1 DEF MakeAssumption
<1>3. \E j \in make!Jobs : make_job[j] = "none" /\ \A i \in 1 .. j - 1 : make_job[i] # "none"
      BY <1>2
<1>. DEFINE u == make!Unused
<1>4. u \in make!Jobs /\ make_job[u] = "none" /\ \A i \in 1 .. u - 1 : make_job[i] # "none"
      BY <1>3 DEF make!Unused
<1>. HIDE DEF u
<1>5. u = n + 1
      BY <1>1, <1>2, <1>4
<1>. QED  BY <1>1, <1>4, <1>5 DEF u, MakeAssumption

LEMMA MakeStartedKeeps == ASSUME MakeAssumption, MakeInv, NEW m \in make!Mounts, make!Started(m) PROVE MakeInv'
<1>. USE DEF make!page
<1>. DEFINE n == make!Unused
            fresh == [make_view EXCEPT !.job = n, !.finished = FALSE, !.failed = FALSE]
<1>1. /\ n \in make!Jobs /\ make_job[n] = "none"
      /\ \A j \in make!Jobs : j # n => (make_job[j] = "none" <=> j > n)
      BY UnusedIs DEF make!Started
<1>2. /\ make_retry[m].step = "starting" /\ make_job' = [make_job EXCEPT ![n] = "working"]
      /\ \/ make_doc' = make!Recorded(make_doc, n, make_retry[m].job) /\ make!Settle(m, fresh)
         \/ UNCHANGED make_doc /\ make!Settle(m, make_view)
      /\ UNCHANGED <<make_stored, make_held, make_mount, make_open, make_adopting, make_call, make_rejected>>
      BY DEF make!Started
<1>3. /\ make_doc \in make!Documents /\ OnceEach(make_doc) /\ make_view \in make!View
      /\ make_job \in [make!Jobs -> {"none", "working", "done", "failed"}]
      /\ make_retry \in [make!Mounts -> [step : {"idle", "checking", "starting"},
                                         job : {make!None} \cup make!Jobs]]
      /\ make_mount \in 0 .. MaxMounts /\ ~ (m > make_mount)
      BY <1>2 DEF MakeInv, make!TypeOK, ClipsAre, CallsAre, make!Idle
<1>4. /\ make_doc' \in make!Documents /\ OnceEach(make_doc')
      BY <1>1, <1>2, <1>3, RecordedOnce
<1>5. fresh \in make!View /\ fresh.job = n /\ ~ fresh.failed /\ fresh.confirm = make_view.confirm
      BY <1>1, <1>3 DEF make!View
<1>. HIDE DEF n, fresh
<1>6. PICK v \in {fresh, make_view} : make!Settle(m, v)
      BY <1>2
<1>. DEFINE w == [v EXCEPT !.retrying = FALSE]
<1>7. w \in make!View /\ w.job = v.job /\ w.confirm = v.confirm /\ w.failed = v.failed
      BY <1>3, <1>5, <1>6 DEF make!View
<1>8. make_retry' = [make_retry EXCEPT ![m] = make!Idle] /\ make_view' = make!Shown(m, w)
      BY <1>6 DEF make!Settle
<1>. HIDE DEF w
<1>9. /\ \A j \in make!Jobs : j # n => make_job'[j] = make_job[j]
      /\ make_job'[n] = "working" /\ make_job' \in [make!Jobs -> {"none", "working", "done", "failed"}]
      BY <1>1, <1>2, <1>3
<1>10. /\ make_retry'[m] = make!Idle /\ \A o \in make!Mounts : o # m => make_retry'[o] = make_retry[o]
       /\ make_retry' \in [make!Mounts -> [step : {"idle", "checking", "starting"},
                                           job : {make!None} \cup make!Jobs]]
       BY <1>3, <1>8 DEF make!Idle
<1>11. make_view' \in make!View
       BY <1>3, <1>7, <1>8 DEF make!Shown
<1>12. make!TypeOK'
       BY <1>2, <1>4, <1>9, <1>10, <1>11 DEF MakeInv, make!TypeOK
<1>13. InOrder'
  <2>1. \A j \in make!Jobs : make_job'[j] = "none" <=> j > n
        BY <1>1, <1>9 DEF make!Jobs
  <2>2. n \in 0 .. MaxJobs
        BY <1>1 DEF make!Jobs
  <2>. QED  BY <2>1, <2>2 DEF InOrder
<1>14. ClipsAre'
       BY <1>2, <1>4 DEF MakeInv, ClipsAre, OnceEach
<1>15. CallsAre'
       BY <1>1, <1>2, <1>3, <1>9, <1>10 DEF MakeInv, CallsAre, make!Idle
<1>16. ViewIs'
  <2>1. CASE m = make_mount /\ make_open # make!None
    <3>1. /\ make_view' = w /\ ~ make_view.confirm /\ make_mount # 0
          /\ make_view.failed => make_view.job \in make!Jobs
          /\ make_call[make_mount].step # "idle" => make_view.job \in make!Jobs
          BY <1>2, <1>8, <2>1 DEF make!Shown, MakeInv, ViewIs
    <3>. QED  BY <1>1, <1>2, <1>5, <1>6, <1>7, <1>10, <2>1, <3>1 DEF ViewIs, make!Idle
  <2>2. CASE ~ (m = make_mount /\ make_open # make!None)
    <3>1. make_view' = make_view
          BY <1>8, <2>2 DEF make!Shown
    <3>2. make_mount # 0 => make_mount \in make!Mounts
          BY <1>3 DEF make!Mounts
    <3>3. \A j \in make!Jobs : make_job[j] = "failed" => make_job'[j] = "failed"
          BY <1>1, <1>9
    <3>. QED  BY <1>2, <1>10, <2>2, <3>1, <3>2, <3>3 DEF MakeInv, ViewIs
  <2>. QED  BY <2>1, <2>2
<1>. QED  BY <1>12, <1>13, <1>14, <1>15, <1>16 DEF MakeInv

\* A job that has failed stays so.
LEMMA MakeRunKeeps == ASSUME MakeInv, NEW j \in make!Jobs, make!Run(j) PROVE MakeInv'
<1>. USE DEF make!page, make!watcher
<1>1. /\ make_job' \in [make!Jobs -> {"none", "working", "done", "failed"}]
      /\ \A i \in make!Jobs : /\ make_job'[i] = "none" <=> make_job[i] = "none"
                              /\ make_job[i] = "failed" => make_job'[i] = "failed"
      BY DEF make!Run, MakeInv, make!TypeOK
<1>2. UNCHANGED <<make_stored, make_doc, make_held, make_mount, make_open, make_view, make_adopting, make_call,
                  make_retry, make_rejected>>
      BY DEF make!Run
<1>3. make!TypeOK'
      BY <1>1, <1>2 DEF MakeInv, make!TypeOK
<1>4. InOrder' /\ ClipsAre'
      BY <1>1, <1>2 DEF MakeInv, InOrder, ClipsAre, OnceEach
<1>5. CallsAre' /\ ViewIs'
      BY <1>1, <1>2 DEF MakeInv, CallsAre, ViewIs
<1>. QED  BY <1>3, <1>4, <1>5 DEF MakeInv

LEMMA MakeKeeps == ASSUME MakeAssumption, MakeInv, [make!Next]_(make!vars) PROVE MakeInv'
<1>1. CASE UNCHANGED make!vars
      BY <1>1 DEF make!vars, MakeInv, make!TypeOK, InOrder, ClipsAre, OnceEach, CallsAre, ViewIs
<1>. QED  BY <1>1, MakeStudioKeeps, MakeAnswersKeep, MakeWatcherKeeps, MakeRecheckKeeps, MakeStartedKeeps,
             MakeRunKeeps
          DEF make!Next

\* A retry that is settled with another job started was for one that had failed.
LEMMA MakePaysAgain ==
    ASSUME MakeInv, [make!Next]_(make!vars), NEW m \in make!Mounts,
           make_retry[m].step = "starting", make_retry'[m] = make!Idle, make_job' # make_job
    PROVE  make_job[make_retry[m].job] = "failed"
BY DEF MakeInv, CallsAre

\* LiveAvatarJob: a project's video is on its timeline once, and is paid for again only
\* after one has failed, for any number of videos and of openings of the studio.
THEOREM GenerationKeepsItsWord ==
    ASSUME MakeAssumption
    PROVE  make!Spec => [](make!TypeOK /\ make!NoVideoTwice) /\ make!PaidAgainOnlyForAFailure
<1>1. make!Init => MakeInv
      BY MakeStarts
<1>2. MakeInv /\ [make!Next]_(make!vars) => MakeInv'
      BY MakeKeeps
<1>3. MakeInv => make!TypeOK /\ make!NoVideoTwice
      BY DEF MakeInv, ClipsAre, OnceEach, make!NoVideoTwice
<1>4. MakeInv /\ [make!Next]_(make!vars)
      => [\A m \in make!Mounts : make_retry[m].step = "starting" /\ make_retry'[m] = make!Idle /\ make_job' # make_job
             => make_job[make_retry[m].job] = "failed"]_(make!vars)
      BY MakePaysAgain
<1>. QED  BY <1>1, <1>2, <1>3, <1>4, PTL DEF make!Spec, make!PaidAgainOnlyForAFailure

-----------------------------------------------------------------------------
(* The assistant (ask).                                                       *)

\* The answer to message a has not proposed its scene yet.
Unproposed(a) ==
    \/ ask_sent[a] = 0
    \/ ask_step[a] = "asking"
    \/ ask_todo[a] \in {<<"scene">>, <<"watch", "scene">>, <<"scene", "watch">>}

\* What is still to handle is what an answer asked for.
TodoIs ==
    \A a \in Asks : /\ ask_step[a] = "handling" <=> ask_todo[a] # <<>>
                    /\ ask_sent[a] = 0 => ask_step[a] = "idle"

\* Before a scene is proposed nobody makes it; once the panel has gone, so have its cards.
CardsAre ==
    /\ ask_shown => ask_panel # 0
    /\ \A a \in Asks :
          /\ Unproposed(a) => ask_card[a] \in {"none", "gone"} /\ ask_flow[a] = "idle" /\ ask_job[a] = "none"
          /\ ~ ask!Alive(a) => ask_card[a] \in {"none", "gone"} /\ ask_fact[a] \in {"none", "gone"}

AskInv == ask!TypeOK /\ TodoIs /\ CardsAre /\ ask!SkippedIsNeverMade /\ ask!CardTellsTheTruth

LEMMA AskStarts == ASSUME AskAssumption, ask!Init PROVE AskInv
<1>1. 0 \in 0 .. MaxPanels /\ 0 \in 0 .. MaxLooks
      BY DEF AskAssumption
<1>2. ask!TypeOK
      BY <1>1 DEF ask!Init, ask!TypeOK, ask!CardStates, ask!FactStates, ask!Answered
<1>. QED  BY <1>2 DEF ask!Init, AskInv, TodoIs, CardsAre, Unproposed, ask!Alive, ask!Answered,
             ask!SkippedIsNeverMade, ask!CardTellsTheTruth

\* What the panel says next of a's scene, and who makes it.
LEMMA AskCardKeeps ==
    ASSUME AskInv, NEW a \in Asks, ~ Unproposed(a),
           UNCHANGED <<ask_panel, ask_shown, ask_busy, ask_sent, ask_step, ask_todo,
                       ask_fact, ask_keeping, ask_kept>>,
           NEW c \in ask!CardStates, ask_card' = [ask_card EXCEPT ![a] = c],
           NEW f \in {"idle", "starting", "waiting", "copying"}, ask_flow' = [ask_flow EXCEPT ![a] = f],
           NEW j \in {"none", "working", "done", "failed"}, ask_job' = [ask_job EXCEPT ![a] = j],
           ask_looks' \in [Asks -> 0 .. MaxLooks], ask_late' \subseteq Asks,
           ask_clips \subseteq ask_clips', ask_clips' \subseteq Asks,
           ask_rejected \subseteq ask_rejected', ask_rejected' \subseteq Asks,
           ask!Alive(a) \/ c = ask_card[a],
           c \in {"ready", "dismissed"} => f = "idle" /\ j = "none",
           c = "done" => a \in ask_clips',
           c = "working" => f # "idle" \/ a \in ask_rejected'
    PROVE  AskInv'
<1>1. ask!TypeOK'
      BY DEF AskInv, ask!TypeOK
<1>2. /\ \A o \in Asks : o # a => ask_card'[o] = ask_card[o] /\ ask_flow'[o] = ask_flow[o]
                                  /\ ask_job'[o] = ask_job[o]
      /\ ask_card'[a] = c /\ ask_flow'[a] = f /\ ask_job'[a] = j
      BY DEF AskInv, ask!TypeOK
<1>3. TodoIs'
      BY DEF AskInv, TodoIs
<1>4. \A o \in Asks : /\ Unproposed(o)' <=> Unproposed(o)
                      /\ ask!Alive(o)' <=> ask!Alive(o)
      BY DEF Unproposed, ask!Alive
<1>5. CardsAre'
      BY <1>2, <1>4 DEF AskInv, CardsAre
<1>6. ask!SkippedIsNeverMade'
      BY <1>2 DEF AskInv, ask!SkippedIsNeverMade
<1>7. ask!CardTellsTheTruth'
      BY <1>2 DEF AskInv, ask!CardTellsTheTruth
<1>. QED  BY <1>1, <1>3, <1>5, <1>6, <1>7 DEF AskInv

\* The scene of a is made no more, and its card says what became of it.
LEMMA AskEnds ==
    ASSUME AskInv, NEW a \in Asks, ask_flow[a] # "idle",
           UNCHANGED <<ask_panel, ask_shown, ask_busy, ask_sent, ask_step, ask_todo,
                       ask_fact, ask_keeping, ask_kept, ask_rejected>>,
           ask_flow' = [ask_flow EXCEPT ![a] = "idle"],
           NEW s \in {"done", "failed"}, ask_card' = ask!Patched(ask_card, a, s),
           ask_job' = ask_job \/ ask_job' = [ask_job EXCEPT ![a] = "working"],
           ask_looks' \in [Asks -> 0 .. MaxLooks], ask_late' \subseteq Asks,
           ask_clips' = ask_clips \/ ask_clips' = ask_clips \cup {a},
           s = "done" => a \in ask_clips'
    PROVE  AskInv'
<1>1. ~ Unproposed(a) /\ ask_card[a] \notin {"ready", "dismissed"}
      BY DEF AskInv, CardsAre, ask!SkippedIsNeverMade
<1>2. /\ ask_card = [ask_card EXCEPT ![a] = ask_card[a]] /\ ask_card[a] \in ask!CardStates
      /\ ask_job = [ask_job EXCEPT ![a] = ask_job[a]] /\ ask_job[a] \in {"none", "working", "done", "failed"}
      /\ ask_clips' \subseteq Asks /\ ask_clips \subseteq ask_clips' /\ ask_rejected \subseteq Asks
      BY DEF AskInv, ask!TypeOK
<1>3. PICK j \in {"none", "working", "done", "failed"} : ask_job' = [ask_job EXCEPT ![a] = j]
      BY <1>2
<1>4. CASE ask!Alive(a) /\ ask_card[a] # "gone"
  <2>1. ask_card' = [ask_card EXCEPT ![a] = s] /\ s \in ask!CardStates
        BY <1>4 DEF ask!Patched, ask!CardStates
  <2>. QED  BY <1>1, <1>2, <1>3, <1>4, <2>1, AskCardKeeps
<1>5. CASE ~ (ask!Alive(a) /\ ask_card[a] # "gone")
  <2>1. ask_card' = ask_card /\ ask_card[a] \in {"none", "gone"}
        BY <1>5 DEF ask!Patched, AskInv, CardsAre
  <2>. QED  BY <1>1, <1>2, <1>3, <2>1, AskCardKeeps
<1>. QED  BY <1>4, <1>5

\* What the server and the looks do changes no card.
LEMMA AskWaits ==
    ASSUME AskInv, NEW a \in Asks, ask_flow[a] # "idle" \/ ask_job[a] # "none",
           UNCHANGED <<ask_panel, ask_shown, ask_busy, ask_sent, ask_step, ask_todo, ask_card,
                       ask_fact, ask_keeping, ask_kept, ask_clips, ask_late>>,
           NEW f \in {"idle", "starting", "waiting", "copying"}, ask_flow' = [ask_flow EXCEPT ![a] = f],
           NEW j \in {"none", "working", "done", "failed"}, ask_job' = [ask_job EXCEPT ![a] = j],
           ask_looks' \in [Asks -> 0 .. MaxLooks],
           ask_rejected' \subseteq Asks, ask_rejected \subseteq ask_rejected',
           \/ f # "idle" \/ f = ask_flow[a]
           \/ ~ ask!Alive(a) \/ a \in ask_rejected'
    PROVE  AskInv'
<1>1. ~ Unproposed(a) /\ ask_card[a] \notin {"ready", "dismissed"}
      BY DEF AskInv, CardsAre, ask!SkippedIsNeverMade
<1>2. /\ ask_card = [ask_card EXCEPT ![a] = ask_card[a]] /\ ask_card[a] \in ask!CardStates
      /\ ask_clips \subseteq Asks /\ ask_late \subseteq Asks
      BY DEF AskInv, ask!TypeOK
<1>3. /\ ask_card[a] = "done" => a \in ask_clips
      /\ ask_card[a] = "working" => f # "idle" \/ a \in ask_rejected'
      BY DEF AskInv, ask!CardTellsTheTruth, CardsAre
<1>. QED  BY <1>1, <1>2, <1>3, AskCardKeeps

LEMMA AskCallKeeps == ASSUME AskAssumption, AskInv, NEW a \in Asks, ask!CallEnds(a) PROVE AskInv'
<1>. USE DEF ask!chat, ask!memory
<1>0. /\ ask_looks \in [Asks -> 0 .. MaxLooks] /\ ask_late \subseteq Asks
      /\ ask_flow \in [Asks -> {"idle", "starting", "waiting", "copying"}]
      /\ ask_job \in [Asks -> {"none", "working", "done", "failed"}]
      /\ [ask_looks EXCEPT ![a] = 1] \in [Asks -> 0 .. MaxLooks]
      /\ ask_job = [ask_job EXCEPT ![a] = ask_job[a]]
      /\ ask_rejected \subseteq Asks
      BY DEF AskInv, ask!TypeOK, AskAssumption
<1>1. CASE ask!Started(a)
  <2>1. CASE ask!Failing(a) /\ UNCHANGED ask_looks
        BY <1>0, <1>1, <2>1, AskEnds DEF ask!Started, ask!Failing
  <2>2. CASE /\ ask_flow' = [ask_flow EXCEPT ![a] = "waiting"] /\ ask_looks' = [ask_looks EXCEPT ![a] = 1]
             /\ UNCHANGED ask_card
        BY <1>0, <1>1, <2>2, AskWaits DEF ask!Started
  <2>. QED  BY <1>1, <2>1, <2>2 DEF ask!Started
<1>2. CASE ask!NotStarted(a)
      BY <1>0, <1>2, AskEnds DEF ask!NotStarted, ask!Failing
<1>3. CASE ask!Copied(a)
      BY <1>0, <1>3, AskEnds DEF ask!Copied
<1>4. CASE ask!NotCopied(a)
      BY <1>0, <1>4, AskEnds DEF ask!NotCopied, ask!Failing
<1>5. CASE ask!SceneRejected(a)
  <2>1. a \in ask_rejected' /\ ask_rejected' \subseteq Asks /\ ask_rejected \subseteq ask_rejected'
        BY <1>0, <1>5 DEF ask!SceneRejected
  <2>. QED  BY <1>0, <1>5, <2>1, AskWaits DEF ask!SceneRejected
<1>. QED  BY <1>1, <1>2, <1>3, <1>4, <1>5 DEF ask!CallEnds

LEMMA AskLookKeeps ==
    ASSUME AskAssumption, AskInv, NEW a \in Asks,
           ask!Look(a) \/ ask!LookEnds(a) \/ ask!Deadline(a) \/ ask!Run(a)
    PROVE  AskInv'
<1>. USE DEF ask!chat, ask!memory
<1>0. /\ ask_looks \in [Asks -> 0 .. MaxLooks] /\ ask_late \subseteq Asks
      /\ ask_flow \in [Asks -> {"idle", "starting", "waiting", "copying"}]
      /\ ask_job \in [Asks -> {"none", "working", "done", "failed"}]
      /\ ask_job = [ask_job EXCEPT ![a] = ask_job[a]] /\ ask_flow = [ask_flow EXCEPT ![a] = ask_flow[a]]
      /\ ask_rejected \subseteq Asks
      /\ ask_looks[a] < MaxLooks => [ask_looks EXCEPT ![a] = @ + 1] \in [Asks -> 0 .. MaxLooks]
      /\ ask_looks[a] > 0 => [ask_looks EXCEPT ![a] = @ - 1] \in [Asks -> 0 .. MaxLooks]
      BY DEF AskInv, ask!TypeOK, AskAssumption
<1>1. CASE ask!Look(a)
  <2>1. CASE ask!Alive(a)
        BY <1>0, <1>1, <2>1, AskWaits DEF ask!Look
  <2>2. CASE ~ ask!Alive(a)
        BY <1>0, <1>1, <2>2, AskWaits DEF ask!Look
  <2>. QED  BY <2>1, <2>2
<1>2. CASE ask!Learn(a)
  <2>1. CASE ask_flow' = [ask_flow EXCEPT ![a] = "copying"] /\ UNCHANGED <<ask_card, ask_late>>
             /\ ask_flow[a] = "waiting"
        BY <1>0, <1>2, <2>1, AskWaits DEF ask!Learn
  <2>2. CASE ask_flow[a] = "waiting" /\ ask!Failing(a) /\ ask_late' \subseteq Asks
        BY <1>0, <1>2, <2>2, AskEnds DEF ask!Learn, ask!Failing
  <2>3. CASE UNCHANGED <<ask_card, ask_flow, ask_late>>
    <3>1. UNCHANGED <<ask_panel, ask_shown, ask_busy, ask_sent, ask_step, ask_todo, ask_card, ask_fact,
                      ask_keeping, ask_kept, ask_flow, ask_job, ask_clips, ask_late, ask_rejected>>
          /\ ask_looks' \in [Asks -> 0 .. MaxLooks]
          BY <1>0, <1>2, <2>3 DEF ask!Learn
    <3>. QED  BY <3>1 DEF AskInv, ask!TypeOK, TodoIs, CardsAre, Unproposed, ask!Alive,
                          ask!SkippedIsNeverMade, ask!CardTellsTheTruth
  <2>. QED  BY <1>0, <1>2, <2>1, <2>2, <2>3 DEF ask!Learn
<1>3. CASE ask!LookLost(a)
  <2>1. UNCHANGED <<ask_panel, ask_shown, ask_busy, ask_sent, ask_step, ask_todo, ask_card, ask_fact,
                    ask_keeping, ask_kept, ask_flow, ask_job, ask_clips, ask_late, ask_rejected>>
        /\ ask_looks' \in [Asks -> 0 .. MaxLooks]
        BY <1>0, <1>3 DEF ask!LookLost
  <2>. QED  BY <2>1 DEF AskInv, ask!TypeOK, TodoIs, CardsAre, Unproposed, ask!Alive,
                        ask!SkippedIsNeverMade, ask!CardTellsTheTruth
<1>4. CASE ask!Deadline(a)
  <2>1. ask_late' \subseteq Asks
        BY <1>0, <1>4 DEF ask!Deadline
  <2>. QED  BY <1>0, <1>4, <2>1, AskEnds DEF ask!Deadline, ask!Failing
<1>5. CASE ask!Run(a)
      BY <1>0, <1>5, AskWaits DEF ask!Run
<1>. QED  BY <1>1, <1>2, <1>3, <1>4, <1>5 DEF ask!LookEnds

\* The buttons of a card that is ready.
LEMMA AskConfirmKeeps ==
    ASSUME AskInv, NEW a \in Asks, ask!ConfirmScene(a) \/ ask!DismissScene(a)
    PROVE  AskInv'
<1>. USE DEF ask!chat, ask!memory
<1>1. /\ ask_card[a] = "ready" /\ ask_flow[a] = "idle" /\ ask_job[a] = "none"
      BY DEF ask!ConfirmScene, ask!DismissScene, AskInv, ask!SkippedIsNeverMade
<1>2. ~ Unproposed(a) /\ ask!Alive(a)
      BY <1>1 DEF AskInv, CardsAre
<1>3. /\ ask_flow = [ask_flow EXCEPT ![a] = "idle"] /\ ask_job = [ask_job EXCEPT ![a] = "none"]
      /\ ask_looks \in [Asks -> 0 .. MaxLooks] /\ ask_late \subseteq Asks
      /\ ask_clips \subseteq Asks /\ ask_rejected \subseteq Asks
      /\ {"working", "dismissed"} \subseteq ask!CardStates
      BY <1>1 DEF AskInv, ask!TypeOK, ask!CardStates
<1>4. CASE ask!ConfirmScene(a)
      BY <1>2, <1>3, <1>4, AskCardKeeps DEF ask!ConfirmScene
<1>5. CASE ask!DismissScene(a)
      BY <1>2, <1>3, <1>5, AskCardKeeps DEF ask!DismissScene
<1>. QED  BY <1>4, <1>5

-----------------------------------------------------------------------------
(* The assistant: its messages and facts.                                     *)

\* A fact that is shown as kept is kept.
LEMMA AskFactKeeps ==
    ASSUME AskInv, NEW a \in Asks,
           UNCHANGED <<ask_panel, ask_shown, ask_busy, ask_sent, ask_step, ask_todo, ask_card, ask_flow,
                       ask_looks, ask_job, ask_clips, ask_late, ask_rejected>>,
           NEW s \in ask!FactStates,
           (ask!Alive(a) /\ ask_fact' = [ask_fact EXCEPT ![a] = s]) \/ ask_fact' = ask_fact,
           s = "saved" => a \in ask_kept',
           ask_keeping' \subseteq Asks, ask_kept' \subseteq Asks, ask_kept \subseteq ask_kept'
    PROVE  AskInv'
<1>1. ask!TypeOK'
      BY DEF AskInv, ask!TypeOK
<1>2. \A o \in Asks : /\ ask_fact'[o] = ask_fact[o] \/ (o = a /\ ask_fact'[o] = s /\ ask!Alive(a))
      BY DEF AskInv, ask!TypeOK
<1>3. TodoIs' /\ ask!SkippedIsNeverMade'
      BY DEF AskInv, TodoIs, ask!SkippedIsNeverMade
<1>4. CardsAre'
      BY <1>2 DEF AskInv, CardsAre, Unproposed, ask!Alive
<1>5. ask!CardTellsTheTruth'
      BY <1>2 DEF AskInv, ask!CardTellsTheTruth
<1>. QED  BY <1>1, <1>3, <1>4, <1>5 DEF AskInv

LEMMA AskRememberKeeps ==
    ASSUME AskInv, NEW a \in Asks,
           ask!ConfirmRemember(a) \/ ask!DismissRemember(a) \/ ask!Remembered(a)
    PROVE  AskInv'
<1>. USE DEF ask!chat, ask!scene
<1>0. /\ ask_keeping \subseteq Asks /\ ask_kept \subseteq Asks
      /\ {"saving", "dismissed", "saved", "failed"} \subseteq ask!FactStates
      /\ ask_fact[a] \notin {"none", "gone"} => ask!Alive(a)
      BY DEF AskInv, ask!TypeOK, ask!FactStates, CardsAre
<1>1. CASE ask!ConfirmRemember(a)
  <2>1. ask!Alive(a) /\ ask_keeping' \subseteq Asks
        BY <1>0, <1>1 DEF ask!ConfirmRemember
  <2>. QED  BY <1>0, <1>1, <2>1, AskFactKeeps DEF ask!ConfirmRemember
<1>2. CASE ask!DismissRemember(a)
  <2>1. ask!Alive(a)
        BY <1>0, <1>2 DEF ask!DismissRemember
  <2>. QED  BY <1>0, <1>2, <2>1, AskFactKeeps DEF ask!DismissRemember
<1>3. CASE ask!Remembered(a)
  <2>1. ask_keeping' \subseteq Asks /\ ask_kept \cup {a} \subseteq Asks
        BY <1>0, <1>3 DEF ask!Remembered
  <2>2. CASE ask_kept' = ask_kept \cup {a} /\ ask_fact' = ask!Patched(ask_fact, a, "saved")
        BY <1>0, <1>3, <2>1, <2>2, AskFactKeeps DEF ask!Remembered, ask!Patched
  <2>3. CASE ask_kept' \in {ask_kept, ask_kept \cup {a}} /\ ask_fact' = ask!Patched(ask_fact, a, "failed")
        BY <1>0, <1>3, <2>1, <2>3, AskFactKeeps DEF ask!Remembered, ask!Patched
  <2>. QED  BY <1>3, <2>2, <2>3 DEF ask!Remembered
<1>. QED  BY <1>1, <1>2, <1>3

\* The panel comes and goes with its cards.
LEMMA AskPanelKeeps == ASSUME AskAssumption, AskInv, ask!OpenTab \/ ask!CloseTab \/ ask!Clear PROVE AskInv'
<1>. USE DEF ask!memory, ask!scene, ask!chat
<1>1. CASE ask!OpenTab
  <2>1. /\ ask_panel' \in 0 .. MaxPanels /\ ask_panel' # 0 /\ ~ ask_shown /\ ask_shown' = TRUE /\ ask_busy' = FALSE
        /\ UNCHANGED <<ask_sent, ask_step, ask_todo, ask_card, ask_fact, ask_keeping, ask_kept, ask_flow,
                       ask_looks, ask_job, ask_clips, ask_late, ask_rejected>>
        BY <1>1 DEF ask!OpenTab, AskInv, ask!TypeOK, AskAssumption
  <2>2. ask!TypeOK'
        BY <2>1 DEF AskInv, ask!TypeOK
  <2>. QED  BY <2>1, <2>2 DEF AskInv, TodoIs, CardsAre, Unproposed, ask!Alive, ask!SkippedIsNeverMade,
                              ask!CardTellsTheTruth
<1>2. CASE ask!CloseTab \/ ask!Clear
  <2>1. /\ ask_card' = ask!Dropped(ask_card) /\ ask_fact' = ask!Dropped(ask_fact)
        /\ ask_shown' \in BOOLEAN /\ (ask_shown' => ask_shown)
        /\ UNCHANGED <<ask_panel, ask_busy, ask_sent, ask_step, ask_todo, ask_keeping, ask_kept, ask_flow,
                       ask_looks, ask_job, ask_clips, ask_late, ask_rejected>>
        BY <1>2 DEF ask!CloseTab, ask!Clear, AskInv, ask!TypeOK
  <2>2. /\ ask_card' \in [Asks -> {"none", "gone"}] /\ ask_fact' \in [Asks -> {"none", "gone"}]
        BY <2>1 DEF ask!Dropped
  <2>3. ask!TypeOK'
        BY <2>1, <2>2 DEF AskInv, ask!TypeOK, ask!CardStates, ask!FactStates
  <2>4. \A a \in Asks : ask_card'[a] \in {"none", "gone"} /\ ask_fact'[a] \in {"none", "gone"}
        BY <2>2
  <2>. QED  BY <2>1, <2>3, <2>4 DEF AskInv, TodoIs, CardsAre, Unproposed, ask!SkippedIsNeverMade,
                                    ask!CardTellsTheTruth
<1>. QED  BY <1>1, <1>2

\* A message is sent, or its answer is done with.
LEMMA AskChatKeeps ==
    ASSUME AskInv, NEW a \in Asks,
           UNCHANGED <<ask_panel, ask_shown, ask_keeping, ask_kept, ask_flow, ask_looks, ask_job, ask_clips,
                       ask_late>>,
           ask_busy' \in BOOLEAN, ask_rejected' \subseteq Asks, ask_rejected \subseteq ask_rejected',
           \/ ask_sent' = ask_sent /\ ask_sent[a] # 0
           \/ ask_shown /\ ask_sent' = [ask_sent EXCEPT ![a] = ask_panel],
           NEW s \in {"idle", "asking", "handling"}, ask_step' = [ask_step EXCEPT ![a] = s],
           NEW q \in ask!Answered, ask_todo' = [ask_todo EXCEPT ![a] = q],
           s = "handling" <=> q # <<>>,
           Unproposed(a)' => Unproposed(a),
           \/ ask_card' = ask_card
           \/ ask_card' = [ask_card EXCEPT ![a] = "ready"] /\ ask!Alive(a) /\ Unproposed(a) /\ ~ Unproposed(a)',
           \/ ask_fact' = ask_fact
           \/ ask!Alive(a) /\ \E f \in {"none", "ready"} : ask_fact' = [ask_fact EXCEPT ![a] = f]
    PROVE  AskInv'
<1>1. ask!TypeOK'
  <2>1. ask_sent' \in [Asks -> 0 .. MaxPanels]
        BY ZenonT(40) DEF AskInv, ask!TypeOK
  <2>2. ask_card' \in [Asks -> ask!CardStates]
        BY DEF AskInv, ask!TypeOK, ask!CardStates
  <2>3. ask_fact' \in [Asks -> ask!FactStates]
    <3>1. {"none", "ready"} \subseteq ask!FactStates /\ ask_fact \in [Asks -> ask!FactStates]
          BY DEF AskInv, ask!TypeOK, ask!FactStates
    <3>. QED  BY <3>1
  <2>. QED  BY <2>1, <2>2, <2>3 DEF AskInv, ask!TypeOK
<1>2. \A o \in Asks :
         /\ o # a => /\ ask_sent'[o] = ask_sent[o] /\ ask_step'[o] = ask_step[o] /\ ask_todo'[o] = ask_todo[o]
                     /\ ask_card'[o] = ask_card[o] /\ ask_fact'[o] = ask_fact[o]
         /\ ask_step'[a] = s /\ ask_todo'[a] = q /\ ask_sent'[a] # 0
         /\ ask_card'[a] = ask_card[a] \/ (ask_card'[a] = "ready" /\ ask!Alive(a) /\ Unproposed(a) /\ ~ Unproposed(a)')
         /\ ask_fact'[a] = ask_fact[a] \/ (ask_fact'[a] \in {"none", "ready"} /\ ask!Alive(a))
      BY DEF AskInv, ask!TypeOK, CardsAre
<1>3. /\ \A o \in Asks : Unproposed(o)' => Unproposed(o)
      /\ \A o \in Asks : ask!Alive(o) => ask!Alive(o)'
  <2>1. ASSUME NEW o \in Asks, o # a PROVE (Unproposed(o)' => Unproposed(o)) /\ (ask!Alive(o) => ask!Alive(o)')
        BY <1>2, <2>1 DEF Unproposed, ask!Alive
  <2>2. ask!Alive(a) => ask!Alive(a)'
        BY DEF ask!Alive, AskInv, ask!TypeOK
  <2>. QED  BY <2>1, <2>2
<1>4. TodoIs'
      BY <1>2 DEF AskInv, TodoIs
<1>5. CardsAre'
      BY <1>2, <1>3 DEF AskInv, CardsAre
<1>6. ask!SkippedIsNeverMade'
      BY <1>2 DEF AskInv, CardsAre, ask!SkippedIsNeverMade
<1>7. ask!CardTellsTheTruth'
      BY <1>2 DEF AskInv, ask!CardTellsTheTruth
<1>. QED  BY <1>1, <1>4, <1>5, <1>6, <1>7 DEF AskInv

\* What is left of an answer once its first request is handled.
LEMMA AnsweredParts ==
    ASSUME NEW q \in ask!Answered, q # <<>>
    PROVE  /\ Tail(q) \in ask!Answered
           /\ Len(q) = 1 <=> Tail(q) = <<>>
           /\ Head(q) = "scene" =>
                 /\ q \in {<<"scene">>, <<"scene", "watch">>}
                 /\ Tail(q) \notin {<<"scene">>, <<"watch", "scene">>, <<"scene", "watch">>}
           /\ Tail(q) \in {<<"scene">>, <<"watch", "scene">>, <<"scene", "watch">>}
                 => q = <<"watch", "scene">>
<1>1. CASE q = <<"watch">>
      BY <1>1 DEF ask!Answered
<1>2. CASE q = <<"scene">>
      BY <1>2 DEF ask!Answered
<1>3. CASE q = <<"watch", "scene">>
      BY <1>3 DEF ask!Answered
<1>4. CASE q = <<"scene", "watch">>
      BY <1>4 DEF ask!Answered
<1>. QED  BY <1>1, <1>2, <1>3, <1>4 DEF ask!Answered

LEMMA AskSendKeeps == ASSUME AskInv, NEW a \in Asks, ask!Send(a) \/ ask!SendEnds(a) PROVE AskInv'
<1>. USE DEF ask!memory, ask!scene, ask!Ended
<1>0. /\ ask_rejected \subseteq Asks /\ ask_busy \in BOOLEAN
      /\ ask_todo = [ask_todo EXCEPT ![a] = ask_todo[a]] /\ ask_todo[a] \in ask!Answered
      /\ ask_step \in [Asks -> {"idle", "asking", "handling"}]
      /\ ask_sent \in [Asks -> 0 .. MaxPanels]
      /\ ask_todo \in [Asks -> ask!Answered]
      BY DEF AskInv, ask!TypeOK
<1>1. CASE ask!Send(a)
  <2>1. /\ ask_sent[a] = 0 /\ ask_step[a] = "idle" /\ ask_todo[a] = <<>> /\ Unproposed(a)
        BY <1>0, <1>1 DEF ask!Send, AskInv, TodoIs, Unproposed
  <2>. QED  BY <1>0, <1>1, <2>1, AskChatKeeps DEF ask!Send
<1>2. CASE ask!Refused(a)
  <2>1. /\ ask_sent[a] # 0 /\ ask_todo[a] = <<>> /\ Unproposed(a)
        BY <1>0, <1>2 DEF ask!Refused, AskInv, TodoIs, Unproposed
  <2>2. ask_busy' \in BOOLEAN
        BY <1>0, <1>2 DEF ask!Refused
  <2>. QED  BY <1>0, <1>2, <2>1, <2>2, AskChatKeeps DEF ask!Refused
<1>3. CASE ask!Answer(a)
  <2>1. /\ ask_sent[a] # 0 /\ Unproposed(a)
        BY <1>3 DEF ask!Answer, AskInv, TodoIs, Unproposed
  <2>2. PICK q \in ask!Answered :
           /\ ask_todo' = [ask_todo EXCEPT ![a] = q]
           /\ IF q = <<>> THEN ask!Ended(a)
              ELSE ask_step' = [ask_step EXCEPT ![a] = "handling"] /\ UNCHANGED ask_busy
        BY <1>3 DEF ask!Answer, ask!Answered
  <2>3. \/ ask_fact' = ask_fact
        \/ /\ ask!Alive(a)
           /\ \E f \in {"none", "ready"} : ask_fact' = [ask_fact EXCEPT ![a] = f]
        BY <1>3 DEF ask!Answer
  <2>4. UNCHANGED <<ask_panel, ask_shown, ask_sent, ask_keeping, ask_kept, ask_card, ask_flow, ask_looks,
                    ask_job, ask_clips, ask_late, ask_rejected>>
        BY <1>3 DEF ask!Answer
  <2>5. CASE q = <<>>
    <3>1. ask_busy' \in BOOLEAN /\ ask_step' = [ask_step EXCEPT ![a] = "idle"]
          BY <1>0, <2>2, <2>5
    <3>. QED  BY <1>0, <2>1, <2>2, <2>3, <2>4, <2>5, <3>1, AskChatKeeps
  <2>6. CASE q # <<>>
    <3>1. ask_busy' \in BOOLEAN /\ ask_step' = [ask_step EXCEPT ![a] = "handling"]
          BY <1>0, <2>2, <2>6
    <3>. QED  BY <1>0, <2>1, <2>2, <2>3, <2>4, <2>6, <3>1, AskChatKeeps
  <2>. QED  BY <2>5, <2>6
<1>4. CASE ask!Handle(a)
  <2>. DEFINE q == ask_todo[a]
  <2>1. /\ ask_sent[a] # 0 /\ q # <<>> /\ q \in ask!Answered /\ ask_step[a] = "handling"
        BY <1>0, <1>4 DEF ask!Handle, AskInv, TodoIs
  <2>2. /\ ask_todo' = [ask_todo EXCEPT ![a] = Tail(q)]
        /\ ask_card' = (IF Head(q) = "scene" /\ ask!Alive(a) THEN [ask_card EXCEPT ![a] = "ready"] ELSE ask_card)
        /\ IF Len(q) = 1 THEN ask!Ended(a) ELSE UNCHANGED <<ask_step, ask_busy>>
        /\ UNCHANGED <<ask_panel, ask_shown, ask_sent, ask_fact, ask_keeping, ask_kept, ask_flow, ask_looks,
                       ask_job,
                       ask_clips, ask_late, ask_rejected>>
        BY <1>0, <1>4 DEF ask!Handle
  <2>3. /\ Tail(q) \in ask!Answered /\ (Len(q) = 1 <=> Tail(q) = <<>>)
        /\ Tail(q) \in {<<"scene">>, <<"watch", "scene">>, <<"scene", "watch">>} => q = <<"watch", "scene">>
        /\ Head(q) = "scene" =>
              /\ q \in {<<"scene">>, <<"scene", "watch">>}
              /\ Tail(q) \notin {<<"scene">>, <<"watch", "scene">>, <<"scene", "watch">>}
        BY <2>1, AnsweredParts
  <2>4. PICK s \in {"idle", "handling"} :
           /\ ask_step' = [ask_step EXCEPT ![a] = s] /\ ask_busy' \in BOOLEAN
           /\ s = "handling" <=> Tail(q) # <<>>
    <3>1. CASE Len(q) = 1
          BY <1>0, <2>2, <2>3, <3>1
    <3>2. CASE Len(q) # 1
      <4>1. ask_step' = [ask_step EXCEPT ![a] = "handling"]
            BY <1>0, <2>1, <2>2, <3>2
      <4>. QED  BY <1>0, <2>2, <2>3, <3>2, <4>1
    <3>. QED  BY <3>1, <3>2
  <2>5. /\ ask_step'[a] = s /\ ask_todo'[a] = Tail(q) /\ ask_sent'[a] = ask_sent[a]
        BY <1>0, <2>2, <2>4
  <2>6. Unproposed(a)' => q = <<"watch", "scene">>
        BY <2>1, <2>3, <2>5 DEF Unproposed
  <2>7. Unproposed(a)' => Unproposed(a)
        BY <2>6 DEF Unproposed
  <2>8. Head(q) = "scene" => Unproposed(a) /\ ~ Unproposed(a)'
    <3>1. ASSUME Head(q) = "scene" PROVE Unproposed(a)
          BY <2>3, <3>1 DEF Unproposed
    <3>2. ASSUME Head(q) = "scene" PROVE ~ Unproposed(a)'
          BY <2>1, <2>3, <2>5, <3>2 DEF Unproposed
    <3>. QED  BY <3>1, <3>2
  <2>9. \/ ask_card' = ask_card
        \/ ask_card' = [ask_card EXCEPT ![a] = "ready"] /\ ask!Alive(a) /\ Unproposed(a) /\ ~ Unproposed(a)'
        BY <2>2, <2>8
  <2>10. Tail(q) \in ask!Answered /\ s \in {"idle", "asking", "handling"}
        BY <2>3, <2>4
  <2>. QED  BY <1>0, <2>1, <2>2, <2>4, <2>7, <2>9, <2>10, AskChatKeeps
<1>5. CASE ask!SendRejected(a)
  <2>1. /\ ask_sent[a] # 0 /\ ask_rejected' \subseteq Asks /\ ask_rejected \subseteq ask_rejected'
        BY <1>0, <1>5 DEF ask!SendRejected, AskInv, TodoIs
  <2>2. ask_todo'[a] = <<>> /\ ask_step'[a] = "idle" /\ ask_sent'[a] = ask_sent[a]
        BY <1>0, <1>5 DEF ask!SendRejected
  <2>3. ~ Unproposed(a)'
        BY <2>1, <2>2 DEF Unproposed
  <2>4. <<>> \in ask!Answered
        BY DEF ask!Answered
  <2>. QED  BY <1>0, <1>5, <2>1, <2>3, <2>4, AskChatKeeps DEF ask!SendRejected
<1>. QED  BY <1>1, <1>2, <1>3, <1>4, <1>5 DEF ask!SendEnds

LEMMA AskKeeps == ASSUME AskAssumption, AskInv, [ask!Next]_(ask!vars) PROVE AskInv'
<1>1. CASE UNCHANGED ask!vars
      BY <1>1 DEF ask!vars, AskInv, ask!TypeOK, TodoIs, CardsAre, Unproposed, ask!Alive,
                  ask!SkippedIsNeverMade, ask!CardTellsTheTruth
<1>. QED  BY <1>1, AskSendKeeps, AskPanelKeeps, AskRememberKeeps, AskConfirmKeeps, AskCallKeeps, AskLookKeeps
          DEF ask!Next, ask!Push, ask!Backstop

\* useAssistant: a scene that was skipped or not confirmed is never made, and the card of
\* a scene or a fact says what became of it, for any messages, openings and looks.
THEOREM AssistantKeepsItsWord ==
    ASSUME AskAssumption
    PROVE  ask!Spec => [](ask!TypeOK /\ ask!SkippedIsNeverMade /\ ask!CardTellsTheTruth)
<1>1. ask!Init => AskInv
      BY AskStarts
<1>2. AskInv /\ [ask!Next]_(ask!vars) => AskInv'
      BY AskKeeps
<1>3. AskInv => ask!TypeOK /\ ask!SkippedIsNeverMade /\ ask!CardTellsTheTruth
      BY DEF AskInv
<1>. QED  BY <1>1, <1>2, <1>3, PTL DEF ask!Spec

-----------------------------------------------------------------------------
(* The avatar panel (clip).                                                   *)

\* A press was made in the panel it belongs to: no panel came after it while it can still
\* be seen, and no other project was opened meanwhile.
MadeHere ==
    /\ clip_shown => clip_panel # 0
    /\ ~ clip_shown => clip_phase = "idle"
    /\ \A p \in clip!Presses :
          /\ clip_by[p] <= clip_panel
          /\ clip!UnderWay(p) => clip_by[p] # 0
          /\ clip!Alive(p) => clip_asked[p] = clip_held

\* Of the presses of one panel, all but one are over.
OneUnderWay ==
    \A p, o \in clip!Presses :
        clip!UnderWay(p) /\ clip!UnderWay(o) /\ clip_by[p] = clip_by[o] => p = o
SaysWorking == \A p \in clip!Presses : clip!UnderWay(p) /\ clip!Alive(p) => clip_phase = "working"

ClipInv == clip!TypeOK /\ MadeHere /\ OneUnderWay /\ SaysWorking /\ clip!AddedIsThere

LEMMA ClipStarts == ASSUME ClipAssumption, clip!Init PROVE ClipInv
<1>1. 0 \in 0 .. MaxTabs  BY DEF ClipAssumption
<1>2. clip!TypeOK  BY <1>1 DEF clip!Init, clip!TypeOK
<1>. QED  BY <1>2 DEF clip!Init, ClipInv, MadeHere, OneUnderWay, SaysWorking, clip!AddedIsThere,
             clip!UnderWay, clip!Alive

\* What the person does to the panel changes no press.
LEMMA ClipGoes ==
    ASSUME ClipInv, clip_shown' = FALSE, clip_phase' = "idle", clip_held' \in ClipProjects,
           clip_avatars' = "loading", clip_script' = "blank",
           UNCHANGED <<clip_panel, clip_by, clip_asked, clip_step, clip_past, clip_job, clip_landed, clip_lost>>
    PROVE  ClipInv'
<1>1. clip!TypeOK'
      BY DEF ClipInv, clip!TypeOK
<1>. QED  BY <1>1 DEF ClipInv, MadeHere, OneUnderWay, SaysWorking, clip!AddedIsThere, clip!UnderWay, clip!Alive

LEMMA ClipOpens == ASSUME ClipAssumption, ClipInv, clip!OpenTab PROVE ClipInv'
<1>. USE DEF clip!form, clip!press
<1>1. /\ clip_panel \in 0 .. MaxTabs /\ clip_panel < MaxTabs /\ clip_panel' = clip_panel + 1
      /\ ~ clip_shown /\ clip_shown' = TRUE /\ clip_phase = "idle"
      /\ UNCHANGED <<clip_held, clip_avatars, clip_script, clip_phase, clip_by, clip_asked, clip_step,
                     clip_past, clip_job, clip_landed, clip_lost>>
      BY DEF clip!OpenTab, ClipInv, clip!TypeOK, MadeHere
<1>2. clip_panel' \in 0 .. MaxTabs /\ clip_panel' # 0
      BY <1>1 DEF ClipAssumption
<1>3. clip!TypeOK'
      BY <1>1, <1>2 DEF ClipInv, clip!TypeOK
<1>4. \A p \in clip!Presses : clip_by[p] <= clip_panel' /\ clip_by[p] # clip_panel'
      BY <1>1 DEF ClipInv, clip!TypeOK, MadeHere
<1>. QED  BY <1>1, <1>2, <1>3, <1>4
          DEF ClipInv, MadeHere, OneUnderWay, SaysWorking, clip!AddedIsThere, clip!UnderWay, clip!Alive

LEMMA ClipTypes ==
    ASSUME ClipInv,
           UNCHANGED <<clip_held, clip_panel, clip_shown, clip_by, clip_asked, clip_step, clip_past, clip_job,
                       clip_landed, clip_lost>>,
           clip_avatars' \in {"loading", "none", "some"}, clip_script' \in {"blank", "words"},
           clip_phase' = clip_phase \/ (clip_phase # "working" /\ clip_phase' = "idle")
    PROVE  ClipInv'
<1>1. clip!TypeOK'
      BY DEF ClipInv, clip!TypeOK
<1>. QED  BY <1>1 DEF ClipInv, MadeHere, OneUnderWay, SaysWorking, clip!AddedIsThere, clip!UnderWay, clip!Alive

LEMMA ClipMakes == ASSUME ClipInv, NEW p \in clip!Presses, clip!Make(p) PROVE ClipInv'
<1>. USE DEF clip!form, clip!press
<1>1. /\ clip_shown /\ clip_phase # "working" /\ clip_step[p] = "unpressed" /\ clip_phase' = "working"
      /\ clip_by' = [clip_by EXCEPT ![p] = clip_panel] /\ clip_asked' = [clip_asked EXCEPT ![p] = clip_held]
      /\ clip_step' = [clip_step EXCEPT ![p] = "starting"]
      /\ UNCHANGED <<clip_held, clip_panel, clip_shown, clip_avatars, clip_script, clip_past, clip_job,
                     clip_landed, clip_lost>>
      BY DEF clip!Make
<1>2. clip!TypeOK'
      BY <1>1 DEF ClipInv, clip!TypeOK
<1>3. \A o \in clip!Presses : clip!UnderWay(o) => clip_by[o] # clip_panel
      BY <1>1 DEF ClipInv, SaysWorking, clip!Alive
<1>4. /\ \A o \in clip!Presses : o # p => clip_by'[o] = clip_by[o] /\ clip_asked'[o] = clip_asked[o]
                                          /\ clip_step'[o] = clip_step[o]
      /\ clip_by'[p] = clip_panel /\ clip_asked'[p] = clip_held /\ clip_step'[p] = "starting"
      BY <1>1 DEF ClipInv, clip!TypeOK
<1>5. MadeHere'
      BY <1>1, <1>4 DEF ClipInv, MadeHere, clip!Alive, clip!UnderWay, clip!TypeOK
<1>6. OneUnderWay'
      BY <1>1, <1>3, <1>4 DEF ClipInv, OneUnderWay, clip!UnderWay
<1>. QED  BY <1>1, <1>2, <1>5, <1>6 DEF ClipInv, SaysWorking, clip!AddedIsThere

\* A press that was under way waits for the next thing, or is over and says so in its panel.
LEMMA ClipAdvances ==
    ASSUME ClipInv, NEW p \in clip!Presses, clip!UnderWay(p),
           NEW s \in {"looking", "copying", "over"}, clip_step' = [clip_step EXCEPT ![p] = s],
           UNCHANGED <<clip_held, clip_panel, clip_shown, clip_avatars, clip_script, clip_by, clip_asked>>,
           clip_past' \subseteq clip!Presses, clip_lost' \subseteq clip!Presses,
           clip_job' \in [clip!Presses -> {"none", "working", "done", "failed"}],
           \/ UNCHANGED <<clip_phase, clip_landed>>
           \/ /\ s = "over"
              /\ \/ clip!Says(p, "failed") /\ UNCHANGED clip_landed
                 \/ clip!Says(p, "done") /\ clip_landed' = [clip_landed EXCEPT ![p] = clip_held]
    PROVE  ClipInv'
<1>1. /\ \A o \in clip!Presses : o # p => clip_step'[o] = clip_step[o]
      /\ clip_step'[p] = s
      BY DEF ClipInv, clip!TypeOK
<1>2. \A o \in clip!Presses : clip!UnderWay(o)' => clip!UnderWay(o)
      BY <1>1 DEF clip!UnderWay
<1>3. OneUnderWay'
      BY <1>2 DEF ClipInv, OneUnderWay
<1>4. clip_phase' \in {"idle", "working", "done", "failed"}
      BY DEF ClipInv, clip!TypeOK, clip!Says
<1>5. clip_landed' \in [clip!Presses -> ClipProjects \cup {clip!None}]
      BY DEF ClipInv, clip!TypeOK
<1>6. clip!TypeOK'
      BY <1>4, <1>5 DEF ClipInv, clip!TypeOK
<1>7. MadeHere'
      BY <1>1, <1>2 DEF ClipInv, MadeHere, clip!Alive, clip!UnderWay, clip!Says
<1>8. CASE UNCHANGED <<clip_phase, clip_landed>>
  <2>1. SaysWorking'
        BY <1>8, <1>2 DEF ClipInv, SaysWorking, clip!Alive
  <2>2. clip!AddedIsThere'
        BY <1>8, <1>1 DEF ClipInv, clip!AddedIsThere, clip!UnderWay
  <2>. QED  BY <2>1, <2>2, <1>3, <1>6, <1>7 DEF ClipInv
<1>9. CASE s = "over" /\ ~ clip!Alive(p) /\ clip_phase' = clip_phase
           /\ (UNCHANGED clip_landed \/ clip_landed' = [clip_landed EXCEPT ![p] = clip_held])
  <2>1. SaysWorking'
        BY <1>9, <1>2 DEF ClipInv, SaysWorking, clip!Alive
  <2>2. \A o \in clip!Presses : clip_step[o] = "over" => clip_landed'[o] = clip_landed[o]
        BY <1>9 DEF ClipInv, clip!TypeOK, clip!UnderWay
  <2>3. clip!AddedIsThere'
        BY <1>9, <1>1, <2>2 DEF ClipInv, clip!AddedIsThere, clip!UnderWay
  <2>. QED  BY <2>1, <2>3, <1>3, <1>6, <1>7 DEF ClipInv
<1>10. CASE s = "over" /\ clip!Alive(p) /\ clip_phase' \in {"done", "failed"}
            /\ (clip_phase' = "done" => clip_landed' = [clip_landed EXCEPT ![p] = clip_held])
  <2>1. \A o \in clip!Presses : clip!UnderWay(o)' /\ clip!Alive(o)' => FALSE
        BY <1>10, <1>1, <1>2 DEF ClipInv, OneUnderWay, clip!Alive, clip!UnderWay
  <2>2. SaysWorking'
        BY <2>1 DEF SaysWorking
  <2>3. clip_asked[p] = clip_held /\ clip_by[p] = clip_panel
        BY <1>10 DEF ClipInv, MadeHere, clip!Alive
  <2>4. clip_phase' = "done" => clip_landed'[p] = clip_held
        BY <1>10 DEF ClipInv, clip!TypeOK
  <2>5. clip!AddedIsThere'
        BY <1>10, <1>1, <2>3, <2>4 DEF clip!AddedIsThere
  <2>. QED  BY <2>2, <2>5, <1>3, <1>6, <1>7 DEF ClipInv
<1>. QED  BY <1>8, <1>9, <1>10 DEF clip!Says

\* The head of the loop.
LEMMA ClipAgain ==
    ASSUME ClipInv, NEW p \in clip!Presses, clip!UnderWay(p), clip!Again(p),
           UNCHANGED <<clip_held, clip_panel, clip_shown, clip_avatars, clip_script, clip_by, clip_asked,
                       clip_past, clip_lost, clip_landed>>,
           clip_job' \in [clip!Presses -> {"none", "working", "done", "failed"}]
    PROVE  ClipInv'
<1>0. clip_past' \subseteq clip!Presses /\ clip_lost' \subseteq clip!Presses
      BY DEF ClipInv, clip!TypeOK
<1>1. CASE clip!Alive(p) /\ p \notin clip_past
      BY <1>0, <1>1, ClipAdvances DEF clip!Again
<1>2. CASE ~ (clip!Alive(p) /\ p \notin clip_past)
      BY <1>0, <1>2, ClipAdvances DEF clip!Again, clip!Over
<1>. QED  BY <1>1, <1>2

LEMMA ClipCallKeeps ==
    ASSUME ClipInv, NEW p \in clip!Presses, clip!CallEnds(p) \/ clip!Rejected(p)
    PROVE  ClipInv'
<1>. USE DEF clip!form, clip!press, clip!Over
<1>0. /\ clip_past \subseteq clip!Presses /\ clip_lost \subseteq clip!Presses /\ p \in clip!Presses
      /\ clip_job \in [clip!Presses -> {"none", "working", "done", "failed"}]
      /\ \A s \in {"none", "working"} : [clip_job EXCEPT ![p] = s] \in [clip!Presses -> {"none", "working",
                                                                                         "done", "failed"}]
      BY DEF ClipInv, clip!TypeOK
<1>1. CASE clip!Started(p)
      BY <1>0, <1>1, ClipAgain DEF clip!Started, clip!UnderWay
<1>2. CASE clip!NotStarted(p)
      BY <1>0, <1>2, ClipAdvances, ZenonT(60) DEF clip!NotStarted, clip!UnderWay
<1>3. CASE clip!Look(p)
  <2>1. clip!UnderWay(p)
        BY <1>3 DEF clip!Look, clip!UnderWay
  <2>2. CASE clip!Over(p) /\ clip!Says(p, "failed")
        BY <1>0, <1>3, <2>1, <2>2, ClipAdvances DEF clip!Look
  <2>3. CASE clip_step' = [clip_step EXCEPT ![p] = "copying"] /\ UNCHANGED clip_phase
        BY <1>0, <1>3, <2>1, <2>3, ClipAdvances DEF clip!Look
  <2>4. CASE clip!Again(p)
        BY <1>0, <1>3, <2>1, <2>4, ClipAgain DEF clip!Look
  <2>. QED  BY <1>3, <2>2, <2>3, <2>4 DEF clip!Look
<1>4. CASE clip!Placed(p)
      BY <1>0, <1>4, ClipAdvances DEF clip!Placed, clip!UnderWay
<1>5. CASE clip!NotPlaced(p)
      BY <1>0, <1>5, ClipAdvances DEF clip!NotPlaced, clip!UnderWay
<1>6. CASE clip!Rejected(p)
  <2>1. clip_lost' \subseteq clip!Presses
        BY <1>0, <1>6 DEF clip!Rejected
  <2>. QED  BY <1>0, <1>6, <2>1, ClipAdvances DEF clip!Rejected, clip!UnderWay
<1>. QED  BY <1>1, <1>2, <1>3, <1>4, <1>5, <1>6 DEF clip!CallEnds

\* What the server and the clock do is not seen before a call ends.
LEMMA ClipWaits ==
    ASSUME ClipInv, clip_past' \subseteq clip!Presses,
           clip_job' \in [clip!Presses -> {"none", "working", "done", "failed"}],
           UNCHANGED <<clip_held, clip_panel, clip_shown, clip_avatars, clip_script, clip_phase, clip_by,
                       clip_asked, clip_step, clip_landed, clip_lost>>
    PROVE  ClipInv'
<1>1. clip!TypeOK'
      BY DEF ClipInv, clip!TypeOK
<1>. QED  BY <1>1 DEF ClipInv, MadeHere, OneUnderWay, SaysWorking, clip!AddedIsThere, clip!UnderWay, clip!Alive

LEMMA ClipKeeps == ASSUME ClipAssumption, ClipInv, [clip!Next]_(clip!vars) PROVE ClipInv'
<1>. USE DEF clip!form, clip!press
<1>0. /\ clip_past \subseteq clip!Presses /\ clip_held \in ClipProjects
      /\ clip_job \in [clip!Presses -> {"none", "working", "done", "failed"}]
      /\ clip_avatars \in {"loading", "none", "some"} /\ clip_script \in {"blank", "words"}
      BY DEF ClipInv, clip!TypeOK
<1>1. CASE clip!CloseTab
      BY <1>0, <1>1, ClipGoes DEF clip!CloseTab, clip!Closed
<1>2. ASSUME NEW q \in ClipProjects, clip!Enter(q) PROVE ClipInv'
      BY <1>0, <1>2, ClipGoes DEF clip!Enter, clip!Closed
<1>3. CASE clip!Listed
      BY <1>0, <1>3, ClipTypes DEF clip!Listed
<1>4. ASSUME NEW s \in {"blank", "words"}, clip!Type(s) PROVE ClipInv'
      BY <1>0, <1>4, ClipTypes DEF clip!Type
<1>5. ASSUME NEW p \in clip!Presses, clip!Deadline(p) PROVE ClipInv'
      BY <1>0, <1>5, ClipWaits DEF clip!Deadline
<1>6. ASSUME NEW p \in clip!Presses, clip!Run(p) PROVE ClipInv'
  <2>1. clip_job' \in [clip!Presses -> {"none", "working", "done", "failed"}]
        BY <1>0, <1>6 DEF clip!Run
  <2>. QED  BY <1>0, <1>6, <2>1, ClipWaits DEF clip!Run
<1>7. CASE UNCHANGED clip!vars
      BY <1>0, <1>7, ClipWaits DEF clip!vars
<1>. QED  BY <1>1, <1>2, <1>3, <1>4, <1>5, <1>6, <1>7, ClipOpens, ClipMakes, ClipCallKeeps DEF clip!Next

\* A press looks again only at the head of its loop, where the panel must be there.
LEMMA ClipFollows ==
    ASSUME ClipInv, [clip!Next]_(clip!vars), NEW p \in clip!Presses,
           clip_step[p] \in {"starting", "looking"}, ~ clip!Alive(p), clip_step'[p] # clip_step[p]
    PROVE  clip_step'[p] # "looking"
<1>. USE DEF clip!Over
<1>0. clip_step \in [clip!Presses -> {"unpressed", "starting", "looking", "copying", "over"}]
      BY DEF ClipInv, clip!TypeOK
<1>1. ASSUME NEW o \in clip!Presses, NEW s, clip_step' = [clip_step EXCEPT ![o] = s], s # "looking"
      PROVE  clip_step'[p] # "looking"
      BY <1>0, <1>1
<1>2. ASSUME NEW o \in clip!Presses, clip!Again(o)
      PROVE  clip_step'[p] # "looking"
  <2>1. CASE clip!Alive(o) /\ o \notin clip_past
        BY <1>0, <1>2, <2>1 DEF clip!Again
  <2>2. CASE ~ (clip!Alive(o) /\ o \notin clip_past)
        BY <1>1, <1>2, <2>2 DEF clip!Again
  <2>. QED  BY <2>1, <2>2
<1>3. PICK o \in clip!Presses : clip!Make(o) \/ clip!CallEnds(o) \/ clip!Rejected(o)
      BY DEF clip!Next, clip!vars, clip!OpenTab, clip!CloseTab, clip!Listed, clip!Enter, clip!Type,
             clip!Deadline, clip!Run
<1>4. CASE clip!Make(o)
      BY <1>1, <1>4 DEF clip!Make
<1>5. CASE clip!Started(o)
      BY <1>2, <1>5 DEF clip!Started
<1>6. CASE clip!Look(o)
      BY <1>1, <1>2, <1>6 DEF clip!Look
<1>7. CASE clip!NotStarted(o) \/ clip!Placed(o) \/ clip!NotPlaced(o) \/ clip!Rejected(o)
      BY <1>1, <1>7 DEF clip!NotStarted, clip!Placed, clip!NotPlaced, clip!Rejected
<1>. QED  BY <1>3, <1>4, <1>5, <1>6, <1>7 DEF clip!CallEnds

\* useAvatarVideo and the panel: one opening of the panel has one video made at a time,
\* "added" is said of a clip that is in the project on screen, and nothing is looked for
\* on behalf of a panel that was closed, for any projects, presses and openings.
THEOREM AvatarPanelKeepsItsWord ==
    ASSUME ClipAssumption
    PROVE  clip!Spec =>
             [](clip!TypeOK /\ clip!OneAtATime /\ clip!AddedIsThere) /\ clip!ClosedPanelIsNotFollowed
<1>1. clip!Init => ClipInv
      BY ClipStarts
<1>2. ClipInv /\ [clip!Next]_(clip!vars) => ClipInv'
      BY ClipKeeps
<1>3. ClipInv => clip!TypeOK /\ clip!OneAtATime /\ clip!AddedIsThere
      BY DEF ClipInv, OneUnderWay, SaysWorking, clip!OneAtATime
<1>4. ClipInv /\ [clip!Next]_(clip!vars)
      => [\A p \in clip!Presses : clip_step[p] \in {"starting", "looking"} /\ ~ clip!Alive(p)
             /\ clip_step'[p] # clip_step[p] => clip_step'[p] # "looking"]_(clip!vars)
      BY ClipFollows
<1>. QED  BY <1>1, <1>2, <1>3, <1>4, PTL DEF clip!Spec, clip!ClosedPanelIsNotFollowed

-----------------------------------------------------------------------------
(* The whole.                                                                 *)

\* A behaviour of the whole is one of each part.
LEMMA PartsRun ==
    WatchingSpec =>
        /\ play!Spec /\ rec!Spec /\ follow!Spec /\ make!Spec /\ ask!Spec /\ clip!Spec
        /\ [](screen \in Screens)
<1>1. WatchingInit => /\ play!Init /\ rec!Init /\ follow!Init /\ make!Init /\ ask!Init /\ clip!Init
                      /\ screen \in Screens
      BY DEF WatchingInit
<1>2. [WatchingNext]_WatchingVars => [play!Next]_(play!vars)
      BY DEF WatchingNext, WatchingVars, playVars, play!vars
<1>3. [WatchingNext]_WatchingVars => [rec!Next]_(rec!vars)
      BY DEF WatchingNext, WatchingVars, recVars, rec!vars
<1>4. [WatchingNext]_WatchingVars => [follow!Next]_(follow!vars)
      BY DEF WatchingNext, WatchingVars, followVars, follow!vars
<1>5. [WatchingNext]_WatchingVars => [make!Next]_(make!vars)
      BY DEF WatchingNext, WatchingVars, makeVars, make!vars
<1>6. [WatchingNext]_WatchingVars => [ask!Next]_(ask!vars)
      BY DEF WatchingNext, WatchingVars, askVars, ask!vars
<1>7. [WatchingNext]_WatchingVars => [clip!Next]_(clip!vars)
      BY DEF WatchingNext, WatchingVars, clipVars, clip!vars
<1>8. screen \in Screens /\ [WatchingNext]_WatchingVars => (screen \in Screens)'
      BY DEF WatchingNext, WatchingVars
<1>. QED  BY <1>1, <1>2, <1>3, <1>4, <1>5, <1>6, <1>7, <1>8, PTL
          DEF WatchingSpec, play!Spec, rec!Spec, follow!Spec, make!Spec, ask!Spec, clip!Spec

LEMMA PartsKeepTheirWord ==
    WatchingSpec =>
        /\ [](screen \in Screens)
        /\ []play!TypeOK /\ play!RenewalDoesNotInterrupt
        /\ [](rec!TypeOK /\ rec!NoCameraLeft /\ rec!HandedOnAsCounted)
        /\ [](follow!TypeOK /\ follow!AtMostOneUnseen)
        /\ [](make!TypeOK /\ make!NoVideoTwice) /\ make!PaidAgainOnlyForAFailure
        /\ [](ask!TypeOK /\ ask!SkippedIsNeverMade /\ ask!CardTellsTheTruth)
        /\ [](clip!TypeOK /\ clip!OneAtATime /\ clip!AddedIsThere) /\ clip!ClosedPanelIsNotFollowed
<1>1. /\ PlayAssumption /\ RecAssumption /\ FollowAssumption
      /\ MakeAssumption /\ AskAssumption /\ ClipAssumption
      BY PartsAssumption
<1>. QED  BY <1>1, PartsRun, PlaybackKeepsItsWord, RecorderKeepsItsWord, FollowingKeepsItsWord,
             GenerationKeepsItsWord, AssistantKeepsItsWord, AvatarPanelKeepsItsWord, PTL

\* Whatever screen a behaviour is about, its variables stay what they are declared to be.
THEOREM WatchingTypeCorrect == WatchingSpec => []AllTypes
<1>1. /\ screen \in Screens /\ play!TypeOK /\ rec!TypeOK /\ follow!TypeOK /\ make!TypeOK /\ ask!TypeOK
      /\ clip!TypeOK
      => AllTypes
      BY DEF AllTypes, Screens
<1>. QED  BY <1>1, PartsKeepTheirWord, PTL

\* The panels that start paid work: nothing is paid for or placed twice, for any number
\* of attempts, videos, messages and presses, and any order of their answers.
THEOREM WatchingPaysOnce == WatchingSpec => NothingIsPaidTwice
BY PartsKeepTheirWord, PTL DEF NothingIsPaidTwice

\* The panels that say what became of things: what they say is so, whatever is closed,
\* left, renewed or late meanwhile.
THEOREM WatchingTellsTheTruth == WatchingSpec => WhatIsSaidIsSo
BY PartsKeepTheirWord, PTL DEF WhatIsSaidIsSo
=============================================================================
