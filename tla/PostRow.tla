-------------------------------- MODULE PostRow --------------------------------
(* One post on the Schedule page (features/schedule/post-row.tsx, actions.ts,      *)
(* app/dashboard/schedule/page.tsx): the page shows the post as the server had it  *)
(* when the page was made, and makes the page again after a press that went        *)
(* through; in between the worker sends the post out, and another tab may change   *)
(* it.  Times are hours.  A time typed into the row has no zone of its own.        *)
EXTENDS Integers

CONSTANTS
    Hours,      \* bound: the times a post may go out at, naturals
    Offsets     \* bound: how far ahead of UTC the person and the web server may be

VARIABLES
    here, there, \* the zones of the person's browser and of the web server
    post,       \* the post at the API: its status and the instant it goes out
    seen,       \* the post on the page
    shown,      \* the page is there, not the error page in its place
    editing, when, \* the row's form is open, and what is typed in it
    call, sent, \* the press the row waits for, and the time it sent with it
    outcome,    \* what the API did with it
    told,       \* the row shows an error
    others,     \* history: someone else changed the post since the page was made
    moved       \* history: the last Move of this row went through, and the post is as it left it

vars == <<here, there, post, seen, shown, editing, when, call, sent, outcome, told, others, moved>>
zones == <<here, there>>
row == <<seen, shown, editing, when, call, sent, outcome, told>>

Blank == -1
Instants == {h - o : h \in Hours, o \in Offsets} \cup Hours
\* A post that was published and one that failed are alike here: "ended".
Statuses == {"scheduled", "publishing", "ended", "cancelled"}
Post == [status : Statuses, at : Instants]

TypeOK ==
    /\ here \in Offsets /\ there \in Offsets
    /\ post \in Post /\ seen \in Post /\ shown \in BOOLEAN
    /\ editing \in BOOLEAN /\ {when, sent} \subseteq Hours \cup {Blank}
    /\ call \in {"none", "cancel", "move"} /\ outcome \in {"none", "ok", "refused"}
    /\ told \in BOOLEAN /\ others \in BOOLEAN /\ moved \in BOOLEAN

-----------------------------------------------------------------------------
\* What the API asks of a post that is to be cancelled or moved.
NotStarted(p) == p.status = "scheduled"

\* What the row shows offers both buttons until the post goes out.
Movable == seen.status = "scheduled"

\* reschedulePost, on the web server: new Date(at) reads the time in its zone.
At(h) == h - there

\* The time on the page, in the browser's zone.
Shows(p) == p.at + here

StartEditing ==
    /\ shown /\ Movable /\ ~ editing /\ call = "none"
    /\ editing' = TRUE
    /\ UNCHANGED <<zones, post, seen, shown, when, call, sent, outcome, told, others, moved>>

Type(h) ==
    /\ shown /\ editing /\ when' = h
    /\ UNCHANGED <<zones, post, seen, shown, editing, call, sent, outcome, told, others, moved>>

CancelPost ==
    /\ shown /\ Movable /\ call = "none"
    /\ call' = "cancel" /\ told' = FALSE
    /\ UNCHANGED <<zones, post, seen, shown, editing, when, sent, outcome, others, moved>>

\* The form stays open, and its button with it, whatever the post has become.
Reschedule ==
    /\ shown /\ editing /\ when # Blank /\ call = "none"
    /\ call' = "move" /\ sent' = when /\ told' = FALSE /\ moved' = FALSE
    /\ UNCHANGED <<zones, post, seen, shown, editing, when, outcome, others>>

\* The API does what it is asked, or refuses: a post that is going out, a time gone by.
Serve ==
    /\ call # "none" /\ outcome = "none"
    /\ \/ /\ NotStarted(post) /\ outcome' = "ok"
          /\ IF call = "cancel"
             THEN post' = [post EXCEPT !.status = "cancelled"] /\ moved' = FALSE
             ELSE post' = [post EXCEPT !.at = At(sent)] /\ moved' = TRUE
       \/ outcome' = "refused" /\ UNCHANGED <<post, moved>>
    /\ UNCHANGED <<zones, seen, shown, editing, when, call, sent, told, others>>

\* The answer brings the page as it is by now.
HearOk ==
    /\ call # "none" /\ outcome = "ok"
    /\ seen' = post /\ others' = FALSE
    /\ editing' = (editing /\ call # "move")
    /\ call' = "none" /\ outcome' = "none"
    /\ UNCHANGED <<zones, post, shown, when, sent, told, moved>>

HearRefused ==
    /\ call # "none" /\ outcome = "refused"
    /\ told' = TRUE
    /\ call' = "none" /\ outcome' = "none"
    /\ UNCHANGED <<zones, post, seen, shown, editing, when, sent, others, moved>>

\* A call that is lost, before or after it was served, puts the error page there.
Lost ==
    /\ call # "none" /\ shown' = FALSE
    /\ call' = "none" /\ outcome' = "none"
    /\ UNCHANGED <<zones, post, seen, editing, when, sent, told, others, moved>>

\* The page is opened again: every row of it is a new one.
Reload ==
    /\ call = "none"
    /\ seen' = post /\ shown' = TRUE /\ others' = FALSE
    /\ editing' = FALSE /\ when' = Blank /\ told' = FALSE
    /\ UNCHANGED <<zones, post, call, sent, outcome, moved>>

\* The worker sends the post out (module ScheduledPosts).
GoesOut ==
    /\ \/ post.status = "scheduled" /\ post' = [post EXCEPT !.status = "publishing"]
       \/ post.status \in {"scheduled", "publishing"} /\ post' = [post EXCEPT !.status = "ended"]
    /\ others' = TRUE
    /\ UNCHANGED <<zones, row, moved>>

\* The same post on another page of the person.
OtherTab ==
    /\ NotStarted(post)
    /\ \/ post' = [post EXCEPT !.status = "cancelled"]
       \/ \E h \in Hours : post' = [post EXCEPT !.at = At(h)]
    /\ others' = TRUE /\ moved' = FALSE
    /\ UNCHANGED <<zones, row>>

Init ==
    /\ here \in Offsets /\ there \in Offsets
    /\ \E h \in Hours : post = [status |-> "scheduled", at |-> h]
    /\ seen = post /\ shown = TRUE
    /\ editing = FALSE /\ when = Blank /\ sent = Blank
    /\ call = "none" /\ outcome = "none"
    /\ told = FALSE /\ others = FALSE /\ moved = FALSE

Next ==
    \/ StartEditing \/ CancelPost \/ Reschedule
    \/ \E h \in Hours \cup {Blank} : Type(h)
    \/ Serve \/ HearOk \/ HearRefused \/ Lost \/ Reload
    \/ GoesOut \/ OtherTab

Spec == Init /\ [][Next]_vars

-----------------------------------------------------------------------------
\* A row that lags behind the server does so because of what others did: its own
\* presses are on it once they are answered.
BehindOnlyByOthers ==
    shown /\ call = "none" /\ ~ others => seen = post

\* A row that lags behind does no harm: a post that is going out is neither moved nor
\* taken back, whatever the row still offers.
StaleRowDoesNoHarm ==
    [][post.status # "scheduled" => post'.at = post.at /\ (post'.status = "cancelled" => post' = post)]_vars

\* The row shows the hour that was typed after a Move that went through, when the
\* browser and the web server keep the same time.
SameZoneReadsBack ==
    here = there /\ shown /\ call = "none" /\ moved /\ ~ others => Shows(seen) = sent

\* zone.ts:1: a time without a zone "silently uses the browser's, so a post scheduled
\* for 6pm while viewing another zone would go out at the wrong moment.  Here the zone
\* is always explicit".  No run: on this page it is not, and where the two differ the
\* row shows another hour than the one that was typed, and the post goes out then.
MovedAsTyped ==
    shown /\ call = "none" /\ moved /\ ~ others => Shows(seen) = sent
=============================================================================
