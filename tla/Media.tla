--------------------------------- MODULE Media ---------------------------------
(* The files of a project (hooks/use-upload.ts) and the links they are played and  *)
(* exported through (hooks/use-media-urls.ts, media-actions.ts).  A link lasts     *)
(* Life units of time from when the server signs it, and the studio asks for all    *)
(* of them again every Period units, for a new file at once.                        *)
EXTENDS Integers, FiniteSets

CONSTANTS
    Files,      \* the files a person may upload
    Life,       \* how long a link lasts (10 minutes)
    Period,     \* how often links are asked for again (8 minutes)
    AtOnce,     \* how many links are made for one request (100)
    MaxFetches, \* bound: requests under way at once
    MaxFails    \* bound: requests that fail

VARIABLES
    mounted,
    uploading,  \* the file on its way, with the step it waits for
    stored,     \* files the server has confirmed
    assets,     \* files of the project
    left,       \* left[f] : what is left of the life of f's link, 0 when it has none
    known,      \* files whose link was ever set: those are not asked for as missing
    timer,      \* until the next refresh
    fetches,    \* requests under way: the files they ask for
    fails, missed   \* history: failed requests, and the files they were for

vars == <<mounted, uploading, stored, assets, left, known, timer, fetches, fails, missed>>

NoUpload == [file |-> "none", step |-> "none"]
Steps == {"slot", "sending", "confirming", "probing"}

TypeOK ==
    /\ mounted \in BOOLEAN
    /\ uploading = NoUpload \/ uploading \in [file : Files, step : Steps]
    /\ stored \subseteq Files /\ assets \subseteq Files /\ known \subseteq Files
    /\ left \in [Files -> 0 .. Life] /\ timer \in 0 .. Period
    /\ fetches \subseteq SUBSET Files /\ fails \in 0 .. MaxFails /\ missed \subseteq Files

-----------------------------------------------------------------------------
(* An upload: one at a time, and the file joins the project when it is confirmed *)

Pick(f) ==
    /\ mounted /\ uploading = NoUpload /\ f \notin stored
    /\ uploading' = [file |-> f, step |-> "slot"]
    /\ UNCHANGED <<mounted, stored, assets, left, known, timer, fetches, fails, missed>>

Advance(from, to) ==
    /\ uploading.step = from
    /\ uploading' = [uploading EXCEPT !.step = to]
    /\ UNCHANGED <<mounted, assets, left, known, timer, fetches, fails, missed>>

Slot == Advance("slot", "sending") /\ UNCHANGED stored

Sent == Advance("sending", "confirming") /\ UNCHANGED stored
Confirmed ==
    /\ Advance("confirming", "probing")
    /\ stored' = stored \cup {uploading.file}

\* A refusal at any step but the last ends the upload with a notice.
UploadFails ==
    /\ uploading.step \in {"slot", "sending", "confirming"}
    /\ uploading' = NoUpload
    /\ UNCHANGED <<mounted, stored, assets, left, known, timer, fetches, fails, missed>>

\* What is asked for: nothing at all when there is nothing, or too much at once.
Asking(files) == IF files = {} THEN fetches ELSE fetches \cup {files}

\* The file joins the project, and its link is asked for as the project changes.
Added ==
    /\ uploading.step = "probing"
    /\ uploading' = NoUpload
    /\ assets' = assets \cup {uploading.file}
    /\ fetches' = IF mounted THEN Asking(assets' \ known) ELSE fetches
    /\ Cardinality(fetches') <= MaxFetches
    /\ UNCHANGED <<mounted, stored, left, known, timer, fails, missed>>

-----------------------------------------------------------------------------
(* Links *)

Mount ==
    /\ ~ mounted /\ mounted' = TRUE
    /\ fetches' = Asking(assets) /\ Cardinality(fetches') <= MaxFetches
    /\ timer' = Period
    /\ UNCHANGED <<uploading, stored, assets, left, known, fails, missed>>

\* Leaving cancels what is under way: its answer is not used.
Unmount ==
    /\ mounted /\ mounted' = FALSE
    /\ fetches' = {}
    /\ UNCHANGED <<uploading, stored, assets, left, known, timer, fails, missed>>

Refresh ==
    /\ mounted /\ timer = 0
    /\ timer' = Period
    /\ fetches' = Asking(assets) /\ Cardinality(fetches') <= MaxFetches
    /\ UNCHANGED <<mounted, uploading, stored, assets, left, known, fails, missed>>

\* The links are signed and set; a request for too many gets none.
Resolved(q) ==
    /\ q \in fetches /\ fetches' = fetches \ {q}
    /\ IF Cardinality(q) <= AtOnce
       THEN left' = [f \in Files |-> IF f \in q THEN Life ELSE left[f]] /\ known' = known \cup q
       ELSE UNCHANGED <<left, known>>
    /\ missed' = missed \ q
    /\ UNCHANGED <<mounted, uploading, stored, assets, timer, fails>>

\* A file that cannot be read, or a server that does not answer: no link is set.
Unresolved(q) ==
    /\ q \in fetches /\ fetches' = fetches \ {q}
    /\ fails < MaxFails /\ fails' = fails + 1
    /\ missed' = missed \cup q
    /\ UNCHANGED <<mounted, uploading, stored, assets, left, known, timer>>

\* Time goes by.  A request is answered within a unit, and the timer is not late.
Tick ==
    /\ fetches = {} /\ (mounted => timer > 0)
    /\ left' = [f \in Files |-> IF left[f] > 0 THEN left[f] - 1 ELSE 0]
    /\ timer' = IF mounted THEN timer - 1 ELSE timer
    /\ UNCHANGED <<mounted, uploading, stored, assets, known, fetches, fails, missed>>

Init ==
    /\ mounted = FALSE /\ uploading = NoUpload
    /\ stored = {} /\ assets = {} /\ known = {}
    /\ left = [f \in Files |-> 0] /\ timer = Period
    /\ fetches = {} /\ fails = 0 /\ missed = {}

Next ==
    \/ \E f \in Files : Pick(f)
    \/ Slot \/ Sent \/ Confirmed \/ UploadFails \/ Added
    \/ Mount \/ Unmount \/ Refresh
    \/ \E q \in fetches : Resolved(q) \/ Unresolved(q)
    \/ Tick

Spec == Init /\ [][Next]_vars

-----------------------------------------------------------------------------
\* Every file of the project can be played while the studio is open: its link is
\* alive, or being asked for, unless the last request for it failed
\* (use-media-urls.ts: "Keeps a playable link for every uploaded file").
LinksStayAlive ==
    \A f \in assets :
        mounted => left[f] > 0 \/ f \in missed \/ \E q \in fetches : f \in q

\* The project only names files the server has confirmed.
AssetsAreStored == assets \subseteq stored
=============================================================================
