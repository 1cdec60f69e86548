---------------------------------- MODULE Search ----------------------------------
(* Discover (features/discover): one field and a platform toggle search a social     *)
(* platform, or look up the one post of a pasted link. Several searches may be under *)
(* way at once; each claims a ticket, and only the newest one's answer is applied.   *)
(* Answers are kept for the session, and what was searched on the device.            *)
EXTENDS Integers, Sequences, FiniteSets

CONSTANTS
    Terms,      \* words searched for
    Kept,       \* KEPT: past searches remembered
    MaxTickets  \* bound: searches

VARIABLES
    query,      \* the field: a term, "x" (too short), or a kind of link
    platform,   \* the toggle
    results,    \* the search whose posts are on screen, or None
    notice,     \* why there is nothing: "none", "empty" or "error"
    latest,     \* the newest ticket
    asked,      \* history: what the newest ticket is for, or None
    inflight,   \* answers awaited: [ticket, term, on]
    cache,      \* answers kept for the session
    answers,    \* history: searches answered in the session, and whether the answer was applied
    history,    \* past searches on screen, newest first
    stored,     \* ... and in the browser's storage
    strayed     \* history: the toggle moved, or a link was refused, while an answer was due

vars == <<query, platform, results, notice, latest, asked, inflight, cache, answers, history, stored,
          strayed>>

Platforms == {"tiktok", "instagram"}
Links == {"post", "page", "youtube"}
None == [term |-> "none", on |-> "none"]
Searches == [term : Terms, on : Platforms]
Asked == Searches \cup [term : {"post"}, on : Platforms]

TypeOK ==
    /\ query \in Terms \cup {"x"} \cup Links /\ platform \in Platforms
    /\ results \in Asked \cup {None} /\ notice \in {"none", "empty", "error"}
    /\ latest \in 0 .. MaxTickets /\ asked \in Asked \cup {None}
    /\ inflight \subseteq [ticket : 1 .. MaxTickets, term : Terms \cup {"post"}, on : Platforms]
    /\ cache \subseteq [key : Searches, some : BOOLEAN]
    /\ answers \subseteq [key : Searches, applied : BOOLEAN]
    /\ history \in Seq(Searches) /\ stored \in Seq(Searches) /\ strayed \in BOOLEAN

busy == inflight # {}
Of(s) == [term |-> s.term, on |-> s.on]

-----------------------------------------------------------------------------
\* The searches of h but k, in their order: filter.  (SelectSeq says the same, in terms
\* that the provers do not know.)
Without(h, k) ==
    LET others == {i \in DOMAIN h : h[i] # k}
        rank(i) == Cardinality({j \in others : j <= i})
    IN [n \in 1 .. Cardinality(others) |-> h[CHOOSE i \in others : rank(i) = n]]

\* Newest first; the same search moves instead of repeating.
Remembered(h, k) ==
    LET all == <<k>> \o Without(h, k)
    IN SubSeq(all, 1, IF Len(all) < Kept THEN Len(all) ELSE Kept)
remember(k) == history' = Remembered(history, k) /\ stored' = history'

Claim(k) == latest < MaxTickets /\ latest' = latest + 1 /\ asked' = k

\* Answered earlier in the session.
Held(k) == \E c \in cache : c.key = k
\* A search: from the session's answers, or from the server.
run(term, on) ==
    LET k == [term |-> term, on |-> on]
    IN /\ Claim(k) /\ query' = term /\ remember(k)
       /\ IF Held(k)
          THEN \E c \in cache : /\ c.key = k /\ results' = k
                                /\ notice' = IF c.some THEN "none" ELSE "empty"
                                /\ UNCHANGED inflight
          ELSE /\ inflight' = inflight \cup {[ticket |-> latest', term |-> term, on |-> on]}
               /\ notice' = "none" /\ UNCHANGED results
       /\ UNCHANGED <<cache, answers, strayed>>

\* A post link is looked up, on the platform it is of.
runUrl(on) ==
    /\ Claim([term |-> "post", on |-> on])
    /\ query' = "post" /\ notice' = "none"
    /\ inflight' = inflight \cup {[ticket |-> latest', term |-> "post", on |-> on]}
    /\ UNCHANGED <<results, cache, answers, history, stored, strayed>>

\* A link that is not a post's: the screen is cleared, and no ticket is claimed.
refuseLink ==
    /\ results' = None /\ notice' = "error" /\ strayed' = (strayed \/ busy)
    /\ UNCHANGED <<query, latest, asked, inflight, cache, answers, history, stored>>

\* A YouTube link goes to the new video page.
submit(text, on) ==
    \/ text \in Terms /\ run(text, on)
    \/ text = "post" /\ \E of \in Platforms : runUrl(of)
    \/ text = "page" /\ refuseLink

-----------------------------------------------------------------------------
Type(text) ==
    /\ text # query /\ query' = text
    /\ UNCHANGED <<platform, results, notice, latest, asked, inflight, cache, answers, history, stored,
                   strayed>>

\* The search button, and Enter, wait for the answer before.
onSubmit == ~ busy /\ submit(query, platform) /\ UNCHANGED platform

\* The toggle searches what the field holds at once; too short, it clears the screen.
onPlatformChange(next) ==
    /\ platform' = next
    /\ IF query = "x"
       THEN /\ results' = None /\ notice' = "none" /\ strayed' = (strayed \/ busy)
            /\ UNCHANGED <<query, latest, asked, inflight, cache, answers, history, stored>>
       ELSE submit(query, next)

\* Suggestions and past searches are offered while there is nothing on screen.
Nothing == ~ busy /\ results \in {None} \cup {c.key : c \in {d \in cache : ~ d.some}}
onSuggestion(term) == Nothing /\ run(term, platform) /\ UNCHANGED platform
onPick(i) == Nothing /\ platform' = history[i].on /\ run(history[i].term, history[i].on)
clear ==
    /\ Nothing /\ history' = <<>> /\ stored' = <<>>
    /\ UNCHANGED <<query, platform, results, notice, latest, asked, inflight, cache, answers, strayed>>

\* Mutation of Newest: every answer is applied.
Newest_Any(s) == TRUE

\* Only the newest search's answer is applied.
Newest(s) == s.ticket = latest

\* A search is over, whatever came of it.
Over(s) == s \in inflight /\ inflight' = inflight \ {s}

\* An answer: posts, or none; a post link is answered with its post.  One that comes
\* after a newer search began is neither shown nor kept.
Answered(s, some) ==
    /\ Over(s)
    /\ s.term = "post" => some
    /\ IF Newest(s)
       THEN /\ results' = Of(s)
            /\ notice' = IF some THEN notice ELSE "empty"
            /\ platform' = IF s.term = "post" THEN s.on ELSE platform
            /\ cache' = cache \cup (IF s.term = "post" THEN {} ELSE {[key |-> Of(s), some |-> some]})
       ELSE UNCHANGED <<results, notice, platform, cache>>
    /\ answers' = answers \cup
           (IF s.term = "post" THEN {} ELSE {[key |-> Of(s), applied |-> Newest(s)]})
    /\ UNCHANGED <<query, latest, asked, history, stored, strayed>>

NotAnswered(s) ==
    /\ Over(s)
    /\ IF Newest(s) THEN results' = None /\ notice' = "error" ELSE UNCHANGED <<results, notice>>
    /\ UNCHANGED <<query, platform, latest, asked, cache, answers, history, stored, strayed>>

\* The page is opened again: only the storage is left.
Reload ==
    /\ query' = "x" /\ platform' = "tiktok" /\ results' = None /\ notice' = "none"
    /\ asked' = None /\ inflight' = {} /\ cache' = {} /\ answers' = {} /\ strayed' = FALSE
    /\ history' = SubSeq(stored, 1, IF Len(stored) < Kept THEN Len(stored) ELSE Kept)
    /\ UNCHANGED <<latest, stored>>

Init ==
    /\ query = "x" /\ platform = "tiktok" /\ results = None /\ notice = "none"
    /\ latest = 0 /\ asked = None /\ inflight = {} /\ cache = {} /\ answers = {}
    /\ history = <<>> /\ stored = <<>> /\ strayed = FALSE

Answers == \E s \in inflight : (\E some \in BOOLEAN : Answered(s, some)) \/ NotAnswered(s)

Next ==
    \/ \E text \in Terms \cup {"x"} \cup Links : Type(text)
    \/ onSubmit \/ clear \/ Reload
    \/ \E next \in Platforms : onPlatformChange(next)
    \/ \E term \in Terms : onSuggestion(term)
    \/ \E i \in DOMAIN history : onPick(i)
    \/ Answers

Spec == Init /\ [][Next]_vars
FairSpec == Spec /\ WF_vars(Answers)

-----------------------------------------------------------------------------
\* What is on screen belongs to the search asked for last, whichever answer came last.
ResultsAreOfTheNewest == ~ busy => results \in {None, asked}

\* ... and to the platform the toggle shows, unless the toggle was moved with too
\* short a query, or a link was refused, while an answer was due.
ToggleAgrees == ~ busy /\ results # None /\ ~ strayed => results.on = platform

\* A search whose answer was applied in this session is not asked, and charged, again.
\* (One whose answer came too late to be applied may be: its answer is not kept,
\* discover-scroller.tsx:122, although :64-66 means to spare whoever flicks between
\* the platforms a second charge.)
OnlyLateAnswersArePaidAgain ==
    \A s \in inflight, a \in answers : Newest(s) /\ a.key = Of(s) => ~ a.applied

\* The past searches are the newest, none of them twice, and as stored.
HistoryIsStored ==
    /\ history = stored /\ Len(history) <= Kept
    /\ \A i, j \in DOMAIN history : history[i] = history[j] => i = j

\* Every search comes to an end: the server gives up waiting after MAX_WAIT_MS.
SearchEnds == busy ~> ~ busy

\* What the toggle's handler says it makes sure of.
ToggleAlwaysAgrees == ~ busy /\ results # None => results.on = platform
=============================================================================
