-------------------------------- MODULE JobFollow --------------------------------
(* Starting a job and following it to its end, the way the transform panel and the *)
(* avatar video panel do (transform/hooks/use-video-transform.ts, live-avatar/      *)
(* hooks/use-avatar-video.ts) over lib/go-api/use-job-socket.ts: pushes while the   *)
(* socket is connected, a read on every reconnect, and a poll while it is not.      *)
(* A push to a page that is not connected is lost, and a read may be answered late. *)
EXTENDS Integers, FiniteSets

CONSTANTS
    Prompts,    \* what may be asked for
    Empty,      \* the prompt of no words
    MaxKeys,    \* bound: attempts
    MaxReads    \* bound: reads under way at once

VARIABLES
    panel,      \* "transform" or "avatar"
    jobs,       \* jobs[k] : the job of attempt k at the server
    prompt,     \* what the field holds
    key,        \* attemptKey
    starting,   \* what the start under way asks for, or None
    shown,      \* the job on screen: its attempt and state, as last heard
    error,
    socket,     \* "off", "connecting", "ready", or "dead": no session, no retry
    pushes,     \* ends of jobs on their way over the socket
    reads,      \* reads under way, with what they found
    told,       \* history: the attempts whose job was ever on screen
    misled,     \* history: a late answer put another attempt's job on screen
    unread      \* history: a read failed while the socket was connected

vars == <<panel, jobs, prompt, key, starting, shown, error, socket, pushes, reads, told, misled, unread>>

Keys == 1 .. MaxKeys
None == [key |-> 0, state |-> "none"]
NoStart == [key |-> 0, prompt |-> Empty, answer |-> "none"]
Views == [key : Keys, state : {"working", "done", "failed"}]

TypeOK ==
    /\ panel \in {"transform", "avatar"}
    /\ jobs \in [Keys -> [state : {"none", "working", "done", "failed"}, prompt : Prompts]]
    /\ prompt \in Prompts /\ key \in Keys /\ error \in BOOLEAN
    /\ starting = NoStart \/ starting \in [key : Keys, prompt : Prompts, answer : {"none", "working", "done", "failed"}]
    /\ shown \in Views \cup {None}
    /\ socket \in {"off", "connecting", "ready", "dead"}
    /\ pushes \subseteq Views /\ reads \subseteq Views
    /\ told \subseteq Keys /\ misled \in BOOLEAN /\ unread \in BOOLEAN

isFinished(v) == v.state \in {"done", "failed"}
Active == shown # None /\ ~ isFinished(shown)
Stale(k) == Active /\ shown.key = k /\ jobs[k].state # "working"
View(k) == [key |-> k, state |-> jobs[k].state]

-----------------------------------------------------------------------------
\* setJob, and what follows from it: the socket is for one job, while it is active;
\* the avatar panel reads a finished job once more, for a fresh link.
Show(v, rs) ==
    LET active == v # None /\ ~ isFinished(v)
    IN /\ shown' = v
       /\ socket' = IF ~ active THEN "off"
                    ELSE IF Active /\ shown.key = v.key THEN socket ELSE "connecting"
       /\ pushes' = IF active /\ Active /\ shown.key = v.key THEN pushes ELSE {}
       /\ reads' = IF panel = "avatar" /\ v # None /\ isFinished(v)
                      /\ ~ (shown # None /\ isFinished(shown) /\ shown.key = v.key)
                   THEN rs \cup {View(v.key)} ELSE rs
       /\ Cardinality(reads') <= MaxReads
       /\ told' = IF v = None THEN told ELSE told \cup {v.key}

\* The transform panel can be asked for nothing in particular; both fields are off
\* once there is a job.
CanType == starting = NoStart /\ shown = None
Type(p) ==
    /\ CanType /\ prompt' = p
    /\ UNCHANGED <<panel, jobs, key, starting, shown, error, socket, pushes, reads, told, misled, unread>>

CanAskTransform == shown = None /\ starting = NoStart
CanAskAvatar == shown = None /\ starting = NoStart /\ prompt # Empty

Start ==
    /\ IF panel = "transform" THEN CanAskTransform ELSE CanAskAvatar
    /\ starting' = [key |-> key, prompt |-> prompt, answer |-> "none"]
    /\ error' = FALSE
    /\ UNCHANGED <<panel, jobs, prompt, key, shown, socket, pushes, reads, told, misled, unread>>

\* The server's side: one job for one key, whatever a repeated request asks for.
Accept ==
    /\ starting # NoStart /\ starting.answer = "none"
    /\ LET k == starting.key
       IN jobs' = IF jobs[k].state = "none"
                  THEN [jobs EXCEPT ![k] = [state |-> "working", prompt |-> starting.prompt]]
                  ELSE jobs
    /\ starting' = [starting EXCEPT !.answer = jobs'[starting.key].state]
    /\ UNCHANGED <<panel, prompt, key, shown, error, socket, pushes, reads, told, misled, unread>>

Started ==
    /\ starting # NoStart /\ starting.answer # "none"
    /\ Show([key |-> starting.key, state |-> starting.answer], reads)
    /\ starting' = NoStart
    /\ UNCHANGED <<panel, jobs, prompt, key, error, misled, unread>>

\* Mutation of NotStarted: another key is drawn for the next try.
NotStarted_FreshKey ==
    /\ starting # NoStart
    /\ starting' = NoStart /\ error' = TRUE
    /\ key' = IF key < MaxKeys THEN key + 1 ELSE key
    /\ UNCHANGED <<panel, jobs, prompt, shown, socket, pushes, reads, told, misled, unread>>

\* Refused, or the answer was lost: either way the panel says so and can be tried again.
NotStarted ==
    /\ starting # NoStart
    /\ starting' = NoStart /\ error' = TRUE
    /\ UNCHANGED <<panel, jobs, prompt, key, shown, socket, pushes, reads, told, misled, unread>>

\* "Try again" and "Make another" are offered under a finished job.
Reset ==
    /\ shown # None /\ isFinished(shown) /\ starting = NoStart
    /\ key < MaxKeys /\ key' = key + 1
    /\ Show(None, reads) /\ error' = FALSE
    /\ UNCHANGED <<panel, jobs, prompt, starting, misled, unread>>

-----------------------------------------------------------------------------
\* The job ends: a page that is connected is told.
Run(k) ==
    /\ jobs[k].state = "working"
    /\ \E s \in {"done", "failed"} :
          /\ jobs' = [jobs EXCEPT ![k].state = s]
          /\ pushes' = IF socket = "ready" /\ shown.key = k
                       THEN pushes \cup {[key |-> k, state |-> s]} ELSE pushes
    /\ UNCHANGED <<panel, prompt, key, starting, shown, error, socket, reads, told, misled, unread>>

\* Mutation of Connect: what was missed is not read.
Connect_NoRead ==
    /\ socket = "connecting"
    /\ socket' = "ready"
    /\ UNCHANGED reads
    /\ UNCHANGED <<panel, jobs, prompt, key, starting, shown, error, pushes, told, misled, unread>>

\* connection.ready: from now on pushes arrive, and the job is read for what was missed.
Connect ==
    /\ socket = "connecting"
    /\ socket' = "ready"
    /\ reads' = reads \cup {View(shown.key)} /\ Cardinality(reads') <= MaxReads
    /\ UNCHANGED <<panel, jobs, prompt, key, starting, shown, error, pushes, told, misled, unread>>

Drop ==
    /\ socket = "ready"
    /\ socket' = "connecting" /\ pushes' = {}
    /\ UNCHANGED <<panel, jobs, prompt, key, starting, shown, error, reads, told, misled, unread>>

\* A page without a session does not connect, and does not try again.
NoSession ==
    /\ socket = "connecting"
    /\ socket' = "dead"
    /\ UNCHANGED <<panel, jobs, prompt, key, starting, shown, error, pushes, reads, told, misled, unread>>

Push(v) ==
    /\ v \in pushes
    /\ IF Active /\ v.key = shown.key
       THEN Show(v, reads)
       ELSE pushes' = pushes \ {v} /\ UNCHANGED <<shown, socket, reads, told>>
    /\ UNCHANGED <<panel, jobs, prompt, key, starting, error, misled, unread>>

Poll ==
    /\ Active /\ socket # "ready"
    /\ reads' = reads \cup {View(shown.key)} /\ Cardinality(reads') <= MaxReads
    /\ UNCHANGED <<panel, jobs, prompt, key, starting, shown, error, socket, pushes, told, misled, unread>>

\* A read is answered with what it found, whatever is on screen by now.
Refresh(v) ==
    /\ v \in reads
    /\ Show(v, reads \ {v})
    /\ misled' = (misled \/ v.key # key)
    /\ UNCHANGED <<panel, jobs, prompt, key, starting, error, unread>>

ReadFails(v) ==
    /\ v \in reads /\ reads' = reads \ {v}
    /\ unread' = (unread \/ socket = "ready")
    /\ UNCHANGED <<panel, jobs, prompt, key, starting, shown, error, socket, pushes, told, misled>>

Init ==
    /\ panel \in {"transform", "avatar"}
    /\ jobs = [k \in Keys |-> [state |-> "none", prompt |-> Empty]]
    /\ prompt = Empty /\ key = 1 /\ starting = NoStart
    /\ shown = None /\ error = FALSE
    /\ socket = "off" /\ pushes = {} /\ reads = {} /\ told = {} /\ misled = FALSE /\ unread = FALSE

Next ==
    \/ \E p \in Prompts : Type(p)
    \/ Start \/ Accept \/ Started \/ NotStarted \/ Reset
    \/ \E k \in Keys : Run(k)
    \/ Connect \/ Drop \/ NoSession \/ Poll
    \/ \E v \in pushes : Push(v)
    \/ \E v \in reads : Refresh(v) \/ ReadFails(v)

Spec == Init /\ [][Next]_vars

\* The end of the job of attempt k is read.
Learn(k) == \E s \in {"done", "failed"} : Refresh([key |-> k, state |-> s])

\* The socket connects or gives up, pushes arrive, the poll goes on, reads end, and
\* not every read that finds the end of the job can fail.
FairSpec ==
    /\ Spec
    /\ WF_vars(Connect) /\ WF_vars(Poll)
    /\ \A v \in Views : WF_vars(Push(v)) /\ WF_vars(ReadFails(v) \/ Refresh(v))
    /\ \A k \in Keys : SF_vars(Learn(k))

-----------------------------------------------------------------------------
\* However often Start is pressed after a lost answer, at most one job was paid for
\* that was never on screen, until a late answer brings an older one back.
AtMostOneUnseen ==
    ~ misled => \A k \in Keys : jobs[k].state # "none" => k \in told \/ k = key

\* A job that is over does not stay "working" on screen, whatever was lost, late or
\* out of order, unless a read failed while the socket was connected: nothing reads
\* the job again then.
FollowedToTheEnd == \A k \in Keys : Stale(k) ~> ~ Stale(k) \/ unread

\* use-video-transform.ts:24: "so a missed event never leaves the screen stuck".
NeverStuck == \A k \in Keys : Stale(k) ~> ~ Stale(k)
=============================================================================
