------------------------------ MODULE TwinRecorder ------------------------------
(* Filming oneself for an avatar (live-avatar/hooks/use-twin-recorder.ts) and the  *)
(* screen that does it, on the computer and on the phone (webcam-recorder.tsx,     *)
(* phone-recorder.tsx).  Each open() is numbered; the browser grants its request    *)
(* later, or never, and a recorder says that it has stopped after it was told to.   *)
(* The screen is shown once: another showing has refs and state of its own.         *)
EXTENDS Integers, FiniteSets

CONSTANTS
    MinSeconds, \* the shortest recording that can be used (20)
    MaxSeconds, \* the longest (120)
    MaxOpens    \* bound: times the devices are asked for

Opens == 1 .. MaxOpens
None == 0

VARIABLES
    mounted, left,  \* the screen is shown, and was left
    request,    \* requestRef
    pending,    \* requests the browser has not answered
    live,       \* streams whose tracks are running
    stream,     \* streamRef
    recorder,   \* recorderRef: the request it records for
    stopping,   \* recorders that were stopped and have not said so yet
    state, seconds,
    ref,        \* secondsRef
    ticking,    \* the interval that counts
    recording,  \* the seconds of the finished recording, None when there is none
    sent,       \* the seconds of the recording that was handed on
    unplugged   \* history: a device went away before the recording started

vars == <<mounted, left, request, pending, live, stream, recorder, stopping, state, seconds, ref,
          ticking, recording, sent, unplugged>>
clip == <<seconds, ref, recording, sent>>

Seconds == 0 .. MaxSeconds
TypeOK ==
    /\ mounted \in BOOLEAN /\ left \in BOOLEAN /\ unplugged \in BOOLEAN /\ ticking \in BOOLEAN
    /\ request \in Nat /\ pending \subseteq Nat /\ live \subseteq Nat
    /\ stream \in Nat /\ recorder \in Nat /\ stopping \subseteq Nat
    /\ state \in {"idle", "ready", "recording", "done"}
    /\ seconds \in Seconds /\ ref \in Seconds
    /\ recording \in Seconds \cup {-1} /\ sent \in Seconds \cup {-1}

Unmade == -1
Done == state = "done" /\ recording # Unmade

-----------------------------------------------------------------------------
\* release: whatever is asked for or running belongs to a request of the past now.
Release ==
    /\ request' = request + 1
    /\ ticking' = FALSE
    /\ stopping' = IF recorder # None THEN stopping \cup {recorder} ELSE stopping
    /\ recorder' = None
    /\ live' = live \ {stream} /\ stream' = None

\* open: release, then ask for both devices.
Open ==
    /\ request < MaxOpens
    /\ Release
    /\ pending' = pending \cup {request'}

Mount ==
    /\ ~ mounted /\ ~ left /\ mounted' = TRUE
    /\ Open
    /\ UNCHANGED <<left, state, clip, unplugged>>

Unmount ==
    /\ mounted /\ mounted' = FALSE /\ left' = TRUE
    /\ Release
    /\ UNCHANGED <<pending, state, clip, unplugged>>

\* Another camera or microphone: the pickers are off while recording and when done.
PickDevice ==
    /\ mounted /\ state # "recording" /\ ~ Done
    /\ Open
    /\ UNCHANGED <<mounted, left, state, clip, unplugged>>

RecordAgain ==
    /\ mounted /\ Done
    /\ Open
    /\ state' = "idle" /\ seconds' = 0 /\ recording' = Unmade
    /\ UNCHANGED <<mounted, left, ref, sent, unplugged>>

\* The browser opens the devices of request r; a request of the past is closed again.
Granted(r) ==
    /\ r \in pending /\ pending' = pending \ {r}
    /\ IF r = request
       THEN stream' = r /\ live' = live \cup {r} /\ state' = "ready"
       ELSE UNCHANGED <<stream, live, state>>
    /\ UNCHANGED <<mounted, left, request, recorder, stopping, clip, ticking, unplugged>>

Denied(r) ==
    /\ r \in pending /\ pending' = pending \ {r}
    /\ state' = IF r = request THEN "idle" ELSE state
    /\ UNCHANGED <<mounted, left, request, live, stream, recorder, stopping, clip, ticking, unplugged>>

-----------------------------------------------------------------------------
\* Pressed while the devices are being changed there is no stream, and nothing happens.
Start ==
    /\ mounted /\ state = "ready" /\ stream # None
    /\ state' = "recording" /\ seconds' = 0 /\ ref' = 0
    /\ IF stream \in live
       THEN recorder' = stream /\ ticking' = TRUE
       ELSE UNCHANGED <<recorder, ticking>>      \* start() throws after setState
    /\ UNCHANGED <<mounted, left, request, pending, live, stream, stopping, recording, sent, unplugged>>

Recording == recorder # None /\ recorder \notin stopping

\* The interval: the second that reaches the limit stops the recorder.
Tick ==
    /\ ticking /\ seconds < MaxSeconds
    /\ seconds' = seconds + 1 /\ ref' = seconds'
    /\ stopping' = IF seconds' >= MaxSeconds /\ Recording
                   THEN stopping \cup {recorder} ELSE stopping
    /\ UNCHANGED <<mounted, left, request, pending, live, stream, recorder, state, ticking, recording,
                   sent, unplugged>>

Stop ==
    /\ mounted /\ state = "recording" /\ Recording
    /\ stopping' = stopping \cup {recorder}
    /\ UNCHANGED <<mounted, left, request, pending, live, stream, recorder, state, clip, ticking, unplugged>>

\* A device goes away: a recorder that was running stops.
Unplug ==
    /\ stream \in live
    /\ live' = live \ {stream}
    /\ stopping' = IF Recording THEN stopping \cup {recorder} ELSE stopping
    /\ unplugged' = (unplugged \/ ~ Recording)
    /\ UNCHANGED <<mounted, left, request, pending, stream, recorder, state, clip, ticking>>

\* onstop of the recorder of request r: it stops whatever counts and runs by now, and
\* keeps the clip only if r is still the request of the screen.
OnStop(r) ==
    /\ r \in stopping /\ stopping' = stopping \ {r}
    /\ ticking' = FALSE
    /\ live' = live \ {stream} /\ stream' = None
    /\ IF r = request
       THEN recording' = ref /\ state' = "done"
       ELSE UNCHANGED <<recording, state>>
    /\ recorder' = IF recorder = r THEN None ELSE recorder
    /\ UNCHANGED <<mounted, left, request, pending, seconds, ref, sent, unplugged>>

Use ==
    /\ mounted /\ Done /\ seconds >= MinSeconds
    /\ sent' = recording
    /\ UNCHANGED <<mounted, left, request, pending, live, stream, recorder, stopping, state, seconds,
                   ref, ticking, recording, unplugged>>

Init ==
    /\ mounted = FALSE /\ left = FALSE /\ request = 0 /\ pending = {} /\ live = {} /\ stream = None
    /\ recorder = None /\ stopping = {} /\ state = "idle" /\ seconds = 0 /\ ref = 0
    /\ ticking = FALSE /\ recording = Unmade /\ sent = Unmade /\ unplugged = FALSE

Next ==
    \/ Mount \/ Unmount \/ PickDevice \/ RecordAgain
    \/ \E r \in pending : Granted(r) \/ Denied(r)
    \/ \E r \in stopping : OnStop(r)
    \/ Start \/ Tick \/ Stop \/ Unplug \/ Use

Spec == Init /\ [][Next]_vars

\* The interval counts, and a recorder that was stopped says so.
FairSpec ==
    /\ Spec
    /\ WF_vars(Tick)
    /\ \A r \in Opens : WF_vars(OnStop(r))

-----------------------------------------------------------------------------
\* A camera that is filming is the one of the screen: none is left running by a
\* request that was overtaken, or after the screen is left.
NoCameraLeft == live \subseteq {stream} /\ (~ mounted => live = {})

\* The length a recording is handed on with is the one that was counted while it was
\* made, and long enough to train from (use-twin-recorder.ts: "to read the count as
\* it stood when the recording actually stopped").
HandedOnAsCounted ==
    /\ Done => recording = seconds
    /\ sent # Unmade => sent >= MinSeconds

\* A recording ends, at the limit if not before, unless the device was gone before it
\* began.
RecordingEnds == state = "recording" ~> state # "recording" \/ unplugged \/ left
=============================================================================
