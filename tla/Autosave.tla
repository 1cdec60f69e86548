------------------------------- MODULE Autosave -------------------------------
(* Saving in the studio (hooks/use-autosave.ts) over the store it watches, the    *)
(* screen that mounts it and the server that refuses a save made from an old       *)
(* version.  The store is one object for the whole page: it outlives the screen,   *)
(* and opening the project it already holds loads nothing.  Each mounted screen    *)
(* has a timer and an in-flight mark of its own, and its pending answer outlives    *)
(* it too.  Projects are objects, compared by identity as the code does.            *)
EXTENDS Integers

CONSTANTS
    Docs,       \* the projects a person has
    Contents,   \* what a project may contain
    Titles,     \* what its title may be
    Blank,      \* a title of spaces, which the save refuses
    NoDoc, NoSave,
    MaxMounts,  \* bound: times the studio is opened
    MaxChanges, \* bound: changes made by the person
    MaxVersion  \* bound: versions of one project

VARIABLES
    doc, present, title, version, saved, status,    \* the store
    dragging,   \* gestureBase is set
    mount,      \* which opening of the studio this is, 0 before the first
    mounted,    \* whether it is on screen
    timer,      \* timer[m] : a save is scheduled by screen m
    flight,     \* flight[m] : the save screen m waits for, with its answer
    server,     \* server[d] : the stored project
    changes,
    seen,       \* history: the newest version of each project this page has read or written
    acked,      \* history: the content of `doc` the server last gave or acknowledged
    crossed,    \* history: the answer for one project was recorded on another
    overwrote   \* history: a save replaced a version this page had never seen

\* The content of one project is never the same object as the content of another.
Objects == Docs \X Contents
Of(d) == {d} \X Contents

store == <<doc, present, title, version, saved, status>>
screen == <<mount, mounted, dragging>>
hist == <<seen, acked, crossed, overwrote>>
vars == <<doc, present, title, version, saved, status, dragging, mount, mounted,
          timer, flight, server, changes, seen, acked, crossed, overwrote>>

Mounts == 1 .. MaxMounts
Statuses == {"saved", "pending", "saving", "error", "conflict"}
Row == [version : 1 .. MaxVersion, object : Objects, title : Titles]
Save == [doc : Docs, object : Objects, title : Titles, version : 1 .. MaxVersion,
         answer : {"waiting", "ok", "conflict", "error", "none"}]

TypeOK ==
    /\ doc \in Docs \cup {NoDoc} /\ present \in Objects /\ saved \in Objects
    /\ title \in Titles /\ version \in 1 .. MaxVersion /\ status \in Statuses
    /\ mount \in 0 .. MaxMounts /\ mounted \in BOOLEAN /\ dragging \in BOOLEAN
    /\ timer \in [Mounts -> BOOLEAN] /\ flight \in [Mounts -> Save \cup {NoSave}]
    /\ server \in [Docs -> Row] /\ changes \in 0 .. MaxChanges
    /\ seen \in [Docs -> 0 .. MaxVersion] /\ acked \in Objects
    /\ crossed \in BOOLEAN /\ overwrote \in BOOLEAN

-----------------------------------------------------------------------------
\* The subscription: a change of content or title restarts the timer, and nothing
\* that happens while a drag is under way does.
Scheduled(changed) == IF changed /\ ~ dragging' THEN [timer EXCEPT ![mount] = TRUE] ELSE timer

Change ==
    /\ mounted /\ changes < MaxChanges
    /\ changes' = changes + 1
    /\ status' = "pending"
    /\ UNCHANGED <<doc, version, saved, mount, mounted, flight, server, hist>>

Edit(o) ==
    /\ present' = o /\ dragging' = FALSE /\ UNCHANGED title
    /\ timer' = Scheduled(o # present)
    /\ Change

UndoRedo(o) ==
    /\ present' = o /\ UNCHANGED <<title, dragging>>
    /\ timer' = Scheduled(o # present)
    /\ Change

SetTitle(t) ==
    /\ title' = t /\ UNCHANGED <<present, dragging>>
    /\ timer' = Scheduled(t # title)
    /\ Change

\* A preview: it is on screen at once, and not scheduled.
Drag(o) ==
    /\ mounted /\ changes < MaxChanges
    /\ changes' = changes + 1
    /\ dragging' = TRUE /\ present' = o /\ o # present
    /\ UNCHANGED <<doc, title, version, saved, status, mount, mounted, timer, flight, server, hist>>

\* The drag's last preview becomes an edit: the content is the object it already was.
EndDrag ==
    /\ dragging /\ dragging' = FALSE
    /\ status' = "pending"
    /\ UNCHANGED <<doc, present, title, version, saved, mount, mounted, timer, flight, server, changes, hist>>

\* The page opens project d: the store takes it unless it holds that project already.
Enter(d) ==
    /\ ~ mounted /\ mount < MaxMounts
    /\ mount' = mount + 1 /\ mounted' = TRUE
    /\ IF doc = d
       THEN UNCHANGED <<store, dragging, seen, acked>>
       ELSE /\ doc' = d
            /\ present' = server[d].object /\ saved' = server[d].object
            /\ title' = server[d].title /\ version' = server[d].version
            /\ status' = "saved" /\ dragging' = FALSE
            /\ seen' = [seen EXCEPT ![d] = server[d].version]
            /\ acked' = server[d].object
    /\ UNCHANGED <<timer, flight, server, changes, crossed, overwrote>>

\* Leaving stops the timer and lets a save in flight go on.
Leave ==
    /\ mounted /\ mounted' = FALSE
    /\ timer' = [timer EXCEPT ![mount] = FALSE]
    /\ UNCHANGED <<store, dragging, mount, flight, server, changes, hist>>

\* The timer of screen m runs out.  A title of spaces is refused by the action itself.
Flush(m) ==
    /\ timer[m]
    /\ timer' = [timer EXCEPT ![m] = FALSE]
    /\ IF status # "conflict" /\ flight[m] = NoSave /\ (present # saved \/ status = "pending")
       THEN /\ \E a \in IF title = Blank THEN {"error", "none"} ELSE {"waiting"} :
                 flight' = [flight EXCEPT ![m] =
                     [doc |-> doc, object |-> present, title |-> title, version |-> version,
                      answer |-> a]]
            /\ status' = "saving"
       ELSE UNCHANGED <<flight, status>>
    /\ UNCHANGED <<doc, present, title, version, saved, screen, server, changes, hist>>

Answered(m, a) == [flight EXCEPT ![m].answer = a]

\* Mutation of Store: the version of the save is not compared.
Store_Unchecked(m) ==
    /\ flight[m] # NoSave /\ flight[m].answer = "waiting"
    /\ LET f == flight[m] row == server[f.doc]
       IN IF f.version <= row.version
          THEN /\ row.version < MaxVersion
               /\ server' = [server EXCEPT ![f.doc] =
                      [version |-> row.version + 1, object |-> f.object, title |-> f.title]]
               /\ \E a \in {"ok", "error", "none"} : flight' = Answered(m, a)
               /\ overwrote' = (overwrote \/ seen[f.doc] < row.version)
               /\ seen' = [seen EXCEPT ![f.doc] = row.version + 1]
          ELSE /\ \E a \in {"conflict", "error", "none"} : flight' = Answered(m, a)
               /\ UNCHANGED <<server, overwrote, seen>>
    /\ UNCHANGED <<store, screen, timer, changes, acked, crossed>>

\* The server stores a save made from the version it has; the answer may be lost: an
\* error that the action reports, or a call that is rejected.
Store(m) ==
    /\ flight[m] # NoSave /\ flight[m].answer = "waiting"
    /\ LET f == flight[m] row == server[f.doc]
       IN IF f.version = row.version
          THEN /\ row.version < MaxVersion
               /\ server' = [server EXCEPT ![f.doc] =
                      [version |-> row.version + 1, object |-> f.object, title |-> f.title]]
               /\ \E a \in {"ok", "error", "none"} : flight' = Answered(m, a)
               /\ overwrote' = (overwrote \/ seen[f.doc] < row.version)
               /\ seen' = [seen EXCEPT ![f.doc] = row.version + 1]
          ELSE /\ \E a \in {"conflict", "error", "none"} : flight' = Answered(m, a)
               /\ UNCHANGED <<server, overwrote, seen>>
    /\ UNCHANGED <<store, screen, timer, changes, acked, crossed>>

NotStored(m) ==
    /\ flight[m] # NoSave /\ flight[m].answer = "waiting"
    /\ \E a \in {"error", "none"} : flight' = Answered(m, a)
    /\ UNCHANGED <<store, screen, timer, server, changes, hist>>

\* The call was rejected, or is never over: flush has no catch, so that its screen waits
\* for as long as it lives, and saves nothing more.
Stuck(m) == flight[m] # NoSave /\ flight[m].answer = "none"

\* What flush does when the answer comes: markSaved, whatever the store holds by now.
Answer(m) ==
    /\ flight[m] # NoSave /\ flight[m].answer \notin {"waiting", "none"}
    /\ flight' = [flight EXCEPT ![m] = NoSave]
    /\ LET f == flight[m]
       IN IF f.answer = "ok"
          THEN /\ saved' = f.object /\ version' = f.version + 1
               /\ status' = IF present = f.object THEN "saved" ELSE "pending"
               /\ timer' = IF present # f.object THEN [timer EXCEPT ![m] = TRUE] ELSE timer
               /\ acked' = IF doc = f.doc THEN f.object ELSE acked
               /\ crossed' = (crossed \/ doc # f.doc)
          ELSE status' = f.answer /\ UNCHANGED <<saved, version, timer, acked, crossed>>
    /\ UNCHANGED <<doc, present, title, screen, server, changes, seen, overwrote>>

\* Another tab saves the same project.
OtherTab(d, o) ==
    /\ server[d].version < MaxVersion /\ o # server[d].object
    /\ server' = [server EXCEPT ![d].version = @ + 1, ![d].object = o]
    /\ UNCHANGED <<store, screen, timer, flight, changes, hist>>

Init ==
    /\ doc = NoDoc /\ status = "saved" /\ version = 1
    /\ \E c \in Contents, t \in Titles \ {Blank} :
          /\ server = [d \in Docs |-> [version |-> 1, object |-> <<d, c>>, title |-> t]]
          /\ title = t
    /\ present \in {server[d].object : d \in Docs} /\ saved = present /\ acked = present
    /\ dragging = FALSE /\ mount = 0 /\ mounted = FALSE
    /\ timer = [m \in Mounts |-> FALSE] /\ flight = [m \in Mounts |-> NoSave]
    /\ changes = 0
    /\ seen = [d \in Docs |-> 0] /\ crossed = FALSE /\ overwrote = FALSE

Next ==
    \/ \E o \in Of(doc) : Edit(o) \/ UndoRedo(o) \/ Drag(o)
    \/ \E t \in Titles : SetTitle(t)
    \/ EndDrag
    \/ \E d \in Docs : Enter(d)
    \/ Leave
    \/ \E m \in Mounts : Flush(m) \/ Store(m) \/ NotStored(m) \/ Answer(m)
    \/ \E d \in Docs : \E o \in Of(d) : OtherTab(d, o)

Spec == Init /\ [][Next]_vars

\* Timers run out, the server looks at what it is sent or the call ends without, an
\* answer is read when there is one (Stuck has none), and a finger leaves the screen.
FairSpec ==
    /\ Spec
    /\ WF_vars(EndDrag)
    /\ \A m \in Mounts : WF_vars(Flush(m)) /\ WF_vars(Store(m) \/ NotStored(m)) /\ WF_vars(Answer(m))

-----------------------------------------------------------------------------
\* "Saved" is only shown when what is on screen is what the server last gave or
\* acknowledged for this project.  (A title typed while a save is in flight is the
\* exception, which the content does not share.)
SavedMeansStored ==
    status = "saved" /\ doc # NoDoc /\ ~ dragging /\ ~ crossed => present = acked

\* A save never replaces a version of the project that this page has not seen, as
\* long as no save was in flight when another project was opened.
OverwritesOnlyAfterCrossing == overwrote => crossed

\* Content whose save is scheduled comes to be what the server acknowledged last, no
\* save under way, or the header says that it could not be saved, or the studio is left,
\* or a save of this screen was rejected: then nothing more is stored, and the header says
\* no more than "Saving" or "Unsaved changes" (use-autosave.ts:27).
ScheduledGetsStored ==
    mounted /\ timer[mount] ~>
        \/ ~ mounted \/ Stuck(mount)
        \/ status \in {"error", "conflict"}
        \/ present = acked /\ flight[mount] = NoSave

\* use-autosave.ts: "if another tab saved first the server refuses, and we stop and
\* say so rather than overwrite their work".
NeverOverwritesUnseen == ~ overwrote

\* use-autosave.ts:10: "Saves a moment after the last change."  Asked of a drag: what
\* it left on screen gets saved, or is replaced by what does, or the header says that
\* it could not be saved, or a save was rejected.
DragsGetSaved ==
    mounted /\ dragging ~>
        \/ ~ mounted \/ Stuck(mount)
        \/ status \in {"error", "conflict"}
        \/ present = saved
=============================================================================
