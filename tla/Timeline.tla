------------------------------ MODULE Timeline ------------------------------
(* The edits of the studio (features/studio/core): pure functions from a        *)
(* project to a new project, or to a refusal.  An edit is the SET of projects   *)
(* it may make, so a refused edit is the empty set.                             *)
(*                                                                              *)
(* Time on the timeline is counted in units of MIN_DURATION and time in a       *)
(* source in quarters of that, the finest step a speed (a multiple of 0.25)     *)
(* needs, so no edit of the model rounds and the 1e-9 of the code is not        *)
(* needed.  A project is a function from its tracks to sets of items: the code  *)
(* keeps each track sorted by start, which is the same thing, because two items *)
(* of one track never start together (WellFormed).                              *)
EXTENDS Integers, FiniteSets

CONSTANTS
    Tracks,     \* the tracks of the project
    Kind,       \* Kind[t] : the one kind of item track t holds
    Ids,        \* the ids items may have
    Looks,      \* text, colour, volume and position: an item's own settings
    MaxKeys,    \* the most keyframes an item may have (30)
    Horizon,    \* bound: the latest moment the pointer can name
    Span,       \* bound: the latest moment an item may end
    Sources,    \* bound: lengths of the files that can be placed
    Speeds,     \* bound: speeds the slider offers, in quarters
    Pins,       \* bound: moments of an item that may be pinned
    Entrances   \* bound: {TRUE, FALSE}, or less to leave entrances alone

Kinds == {"video", "audio", "image", "text", "caption"}

ASSUME TimelineAssumption ==
    /\ Kind \in [Tracks -> Kinds]
    /\ MaxKeys \in Nat
    /\ Horizon \in Nat /\ Span \in Nat
    /\ Sources \subseteq Nat \ {0}
    /\ Speeds \subseteq Nat
    /\ Entrances \subseteq BOOLEAN

Normal == 4                 \* the speed of an item that never set one
SpeedRange == 1 .. 16       \* 0.25 to 4 times

Item == [id : Ids, kind : Kinds, start : Nat, length : Nat \ {0}, look : Looks,
         trim : Nat, source : Nat, speed : SpeedRange,
         keys : SUBSET Nat, entrance : BOOLEAN]

HasSource(i) == i.kind \in {"video", "audio"}
Animates(i)  == i.kind \in {"video", "image", "text"}
Accepts(t, i) == Kind[t] = i.kind

EndOf(i) == i.start + i.length
Overlap(i, j) == i.start < EndOf(j) /\ j.start < EndOf(i)

-----------------------------------------------------------------------------
Refused == {}

Items(p) == UNION {p[t] : t \in Tracks}
Has(p, id) == \E i \in Items(p) : i.id = id
Find(p, id) == CHOOSE i \in Items(p) : i.id = id
TrackOf(p, id) == CHOOSE t \in Tracks : Find(p, id) \in p[t]
Others(p, id) == {i \in p[TrackOf(p, id)] : i.id # id}

\* What project `p` becomes when item `i` takes the place of whatever had its id.
Put(p, t, i) ==
    LET others == {o \in p[t] : o.id # i.id}
    IN IF \E o \in others : Overlap(o, i)
       THEN Refused
       ELSE {[p EXCEPT ![t] = others \cup {i}]}

AddItem(p, t, i) ==
    IF Accepts(t, i) /\ ~ Has(p, i.id) THEN Put(p, t, i) ELSE Refused

MoveItem(p, id, start, t) ==
    IF Has(p, id) /\ start >= 0 /\ Accepts(t, Find(p, id))
    THEN LET home  == TrackOf(p, id)
             moved == [Find(p, id) EXCEPT !.start = start]
         IN IF t = home
            THEN Put(p, t, moved)
            ELSE {[q EXCEPT ![home] = Others(p, id)] : q \in Put(p, t, moved)}
    ELSE Refused

\* With `ripple`, everything after the item closes the gap.
DeleteItem(p, id, ripple) ==
    IF Has(p, id)
    THEN LET gone == Find(p, id)
             Closed(i) == IF ripple /\ i.start >= EndOf(gone)
                          THEN [i EXCEPT !.start = @ - gone.length] ELSE i
         IN {[p EXCEPT ![TrackOf(p, id)] = {Closed(i) : i \in Others(p, id)}]}
    ELSE Refused

FirstHalf(i, at) ==
    [i EXCEPT !.length = at - i.start, !.keys = {k \in i.keys : k < at - i.start}]

\* Mutation of SecondHalf: the cut is found in the source as if it played at normal speed.
SecondHalf_NoSpeed(i, at, new) ==
    LET first == at - i.start
    IN [i EXCEPT !.id = new, !.start = at, !.length = @ - first,
                 !.trim = IF HasSource(i) THEN @ + first * Normal ELSE @,
                 !.keys = {k - first : k \in {m \in i.keys : m >= first}}]

\* The rest of the item is copied as it is, its entrance included.
SecondHalf(i, at, new) ==
    LET first == at - i.start
    IN [i EXCEPT !.id = new, !.start = at, !.length = @ - first,
                 !.trim = IF HasSource(i) THEN @ + first * i.speed ELSE @,
                 !.keys = {k - first : k \in {m \in i.keys : m >= first}}]

Cuttable(i, at) == i.kind # "caption" /\ at >= i.start + 1 /\ at <= EndOf(i) - 1

SplitItem(p, id, at, new) ==
    IF Has(p, id) /\ ~ Has(p, new) /\ Cuttable(Find(p, id), at)
    THEN LET i == Find(p, id)
         IN {[p EXCEPT ![TrackOf(p, id)] =
                 Others(p, id) \cup {FirstHalf(i, at), SecondHalf(i, at, new)}]}
    ELSE Refused

\* Cuts everything strictly under a moment; `name` gives each tail its new id.
SplitAll(p, at, name) ==
    LET targets == {i \in Items(p) : i.kind # "caption"
                                     /\ at > i.start + 1 /\ at < EndOf(i) - 1}
        Cut(i) == IF i \in targets THEN {FirstHalf(i, at), SecondHalf(i, at, name[i.id])} ELSE {i}
    IN IF targets = {} THEN Refused
       ELSE {[t \in Tracks |-> UNION {Cut(i) : i \in p[t]}]}

\* Mutation of TrimEnd: the shortest length is not asked for.
TrimEnd_Empty(p, id, at) ==
    IF Has(p, id)
    THEN LET i == Find(p, id)
             length == at - i.start
         IN IF (HasSource(i) => i.trim + length * i.speed <= i.source)
            THEN Put(p, TrackOf(p, id), [i EXCEPT !.length = length])
            ELSE Refused
    ELSE Refused

TrimEnd(p, id, at) ==
    IF Has(p, id)
    THEN LET i == Find(p, id)
             length == at - i.start
         IN IF length >= 1
               /\ (HasSource(i) => i.trim + length * i.speed <= i.source)
            THEN Put(p, TrackOf(p, id), [i EXCEPT !.length = length])
            ELSE Refused
    ELSE Refused

TrimStart(p, id, at) ==
    IF Has(p, id)
    THEN LET i == Find(p, id)
             shift == at - i.start
         IN IF at >= 0 /\ i.length - shift >= 1
               /\ (HasSource(i) => i.trim + shift * i.speed >= 0)
            THEN Put(p, TrackOf(p, id),
                     [i EXCEPT !.start = at, !.length = @ - shift,
                               !.trim = IF HasSource(i) THEN @ + shift * i.speed ELSE @,
                               !.keys = {k - shift : k \in {m \in i.keys : m >= shift}}])
            ELSE Refused
    ELSE Refused

\* Replaces an item where it stands: its span is not checked again.
Swap(p, i) ==
    {[p EXCEPT ![TrackOf(p, i.id)] = Others(p, i.id) \cup {i}]}

UpdateItem(p, id, look) ==
    IF Has(p, id) THEN Swap(p, [Find(p, id) EXCEPT !.look = look]) ELSE Refused

SetSpeed(p, id, speed) ==
    IF Has(p, id) /\ speed \in SpeedRange /\ HasSource(Find(p, id))
    THEN LET i == Find(p, id)
         IN UNION {Put(p, TrackOf(p, id), [i EXCEPT !.speed = speed, !.length = n]) :
                   n \in {m \in 1 .. i.length * i.speed : m * speed = i.length * i.speed}}
    ELSE Refused

SetTransition(p, id, on) ==
    IF Has(p, id) /\ Animates(Find(p, id))
    THEN Swap(p, [Find(p, id) EXCEPT !.entrance = on]) ELSE Refused

SetKeyframe(p, id, k) ==
    IF Has(p, id) /\ Animates(Find(p, id)) /\ k \in 0 .. Find(p, id).length
       /\ Cardinality(Find(p, id).keys \cup {k}) <= MaxKeys
    THEN Swap(p, [Find(p, id) EXCEPT !.keys = @ \cup {k}]) ELSE Refused

RemoveKeyframe(p, id, k) ==
    IF Has(p, id) THEN Swap(p, [Find(p, id) EXCEPT !.keys = @ \ {k}]) ELSE Refused

\* Captions that fall in a stretch make room for new ones on track `t`.
ReplaceCaptions(p, from, to, t, new) ==
    LET kept == [u \in Tracks |->
                   IF Kind[u] = "caption"
                   THEN {i \in p[u] : EndOf(i) <= from \/ i.start >= to} ELSE p[u]]
    IN IF /\ Kind[t] = "caption"
          /\ \A i \in new : ~ Has(kept, i.id)
          /\ \A i \in new, j \in kept[t] \cup new : i # j => ~ Overlap(i, j)
       THEN {[kept EXCEPT ![t] = @ \cup new]}
       ELSE Refused

RestyleCaptions(p, look) ==
    {[t \in Tracks |->
        {IF i.kind = "caption" THEN [i EXCEPT !.look = look] ELSE i : i \in p[t]}]}

-----------------------------------------------------------------------------
VARIABLE project

Moments == 0 .. Horizon
EmptyProject == [t \in Tracks |-> {}]
FreshItem(t, id, start, length, source, look) ==
    [id |-> id, kind |-> Kind[t], start |-> start, length |-> length, look |-> look,
     trim |-> 0, source |-> source, speed |-> Normal, keys |-> {}, entrance |-> FALSE]

\* A file is placed whole; a picture, text or caption for a chosen stretch.
Place(t, id, start, n, look) ==
    project' \in AddItem(project, t,
        FreshItem(t, id, start, n, IF Kind[t] \in {"video", "audio"} THEN n * Normal ELSE 0, look))

Move(id, at, t) == project' \in MoveItem(project, id, at, t)
Delete(id, ripple) == project' \in DeleteItem(project, id, ripple)
Split(id, at, new) == project' \in SplitItem(project, id, at, new)
\* makeId gives every tail an id of its own that nothing has.
Renamings ==
    {name \in [{i.id : i \in Items(project)} -> {d \in Ids : ~ Has(project, d)}] :
        \A i, j \in DOMAIN name : i # j => name[i] # name[j]}
SplitEvery(at) == \E name \in Renamings : project' \in SplitAll(project, at, name)
Trim(id, at) ==
    \/ project' \in TrimStart(project, id, at)
    \/ project' \in TrimEnd(project, id, at)
Update(id, look) == project' \in UpdateItem(project, id, look)
Speed(id, speed) == project' \in SetSpeed(project, id, speed)
Entrance(id, on) == project' \in SetTransition(project, id, on)
Pin(id, k) ==
    \/ project' \in SetKeyframe(project, id, k)
    \/ project' \in RemoveKeyframe(project, id, k)
Recaption(t, from, to, id, look) ==
    /\ from < to
    /\ project' \in ReplaceCaptions(project, from, to, t,
                        {FreshItem(t, id, from, to - from, 0, look)})
Restyle(look) == project' \in RestyleCaptions(project, look)

Init == project = EmptyProject

Edit ==
    \/ \E t \in Tracks, id \in Ids, at \in Moments, n \in Sources, look \in Looks :
          Place(t, id, at, n, look)
    \/ \E id \in Ids, at \in Moments :
          \/ \E t \in Tracks : Move(id, at, t)
          \/ \E new \in Ids : Split(id, at, new)
          \/ Trim(id, at)
    \/ \E id \in Ids :
          \/ \E ripple \in BOOLEAN : Delete(id, ripple)
          \/ \E look \in Looks : Update(id, look)
          \/ \E speed \in Speeds : Speed(id, speed)
          \/ \E on \in Entrances : Entrance(id, on)
          \/ \E k \in Pins : Pin(id, k)
    \/ \E at \in Moments : SplitEvery(at)
    \/ \E t \in Tracks, from, to \in Moments, id \in Ids, look \in Looks :
          Recaption(t, from, to, id, look)
    \/ \E look \in Looks : Restyle(look)

InSpan == \A i \in Items(project) : EndOf(i) <= Span

Next == Edit /\ InSpan'

Spec == Init /\ [][Next]_project

-----------------------------------------------------------------------------
(* What parseProject accepts when the project is next opened, and a little more *)

\* Every item sits on a track of its kind (validate.ts: "A track holds a ...").
KindsMatch(p) == \A t \in Tracks : \A i \in p[t] : Accepts(t, i)

\* No two items share an id, on one track or on two.
IdsAreUnique(p) ==
    \A t, u \in Tracks : \A i \in p[t], j \in p[u] : i.id = j.id => t = u /\ i = j

\* No two items of one track share a stretch of time.
NothingOverlaps(p) ==
    \A t \in Tracks : \A i, j \in p[t] : i # j => ~ Overlap(i, j)

\* No clip plays footage its file does not have.
FootageExists(p) ==
    \A i \in Items(p) : HasSource(i) => i.trim + i.length * i.speed <= i.source

TypeOK == project \in [Tracks -> SUBSET Item]

WellFormed(p) ==
    /\ p \in [Tracks -> SUBSET Item]
    /\ KindsMatch(p)
    /\ IdsAreUnique(p)
    /\ NothingOverlaps(p)
    /\ FootageExists(p)

\* Whatever the order of edits, the project can be opened again: ops.ts promises
\* that "an invalid edit can never leave the timeline half changed", and the
\* parser refuses a stored project that breaks any of these.
StaysWellFormed == WellFormed(project)

\* What is on screen or heard: at each moment, each track's source moment.
Plays(t, i) ==
    {<<t, x, i.source, i.look, i.trim + (x - i.start) * i.speed>> : x \in i.start .. EndOf(i) - 1}
Footage(p) ==
    UNION {UNION {Plays(t, i) : i \in {j \in p[t] : HasSource(j)}} : t \in Tracks}

\* Cutting a clip, or everything under the playhead, changes nothing of what the
\* footage shows at any moment (ops.ts: "The second half keeps the same footage
\* going from the cut").
SplitKeepsFootage ==
    \A at \in Moments :
       /\ \A id, new \in Ids : \A q \in SplitItem(project, id, at, new) :
             Footage(q) = Footage(project)
       /\ \A name \in Renamings : \A q \in SplitAll(project, at, name) :
             Footage(q) = Footage(project) /\ WellFormed(q)

\* Dragging an edge of a clip shows or hides footage, and never shifts what remains
\* against the timeline.
TrimKeepsTheRest ==
    \A id \in Ids, at \in Moments :
       \A q \in TrimStart(project, id, at) \cup TrimEnd(project, id, at) :
          Footage(q) \subseteq Footage(project) \/ Footage(project) \subseteq Footage(q)

\* A new speed covers the same stretch of the source (ops.ts: "It covers the same
\* stretch of source"), and sliding back to normal speed restores the item.
SpeedCoversTheSource ==
    \A id \in Ids, speed \in Speeds : \A q \in SetSpeed(project, id, speed) :
       \A r \in SetSpeed(q, id, Find(project, id).speed) : r = project

\* Closing the gap of a deleted item keeps the order of the rest of its track and
\* moves nothing that came before it.
Before(p, i, j) == EndOf(Find(p, i)) <= Find(p, j).start
RippleKeepsOrder ==
    \A gone \in Ids : \A q \in DeleteItem(project, gone, TRUE) : \A t \in Tracks :
       /\ \A i, j \in q[t] :
             Before(q, i.id, j.id) <=> Before(project, i.id, j.id)
       /\ {i \in project[t] : EndOf(i) <= Find(project, gone).start} \subseteq q[t]

\* Making captions twice for one stretch does not stack them, and leaves what lies
\* outside the stretch alone (ops.ts: "so generating captions twice for the same
\* clip does not stack them").
RecaptionDoesNotStack ==
    \A t \in Tracks, from, to \in Moments, id \in Ids, look \in Looks :
       LET made == FreshItem(t, id, from, to - from, 0, look)
       IN \A q \in IF from < to THEN ReplaceCaptions(project, from, to, t, {made}) ELSE {} :
             /\ {i \in Items(q) : i.kind = "caption" /\ i.start < to /\ EndOf(i) > from}
                   = {made}
             /\ {i \in Items(project) : EndOf(i) <= from \/ i.start >= to}
                   \subseteq Items(q)

\* The edits of the studio keep the film.  No track ever holds two items at one time;
\* a split loses, repeats and moves no footage, a trim leaves the rest where it was, a
\* change of speed plays the same stretch of its source, closing a gap keeps the order
\* of what is behind it, and captions made again replace the ones from before.
EditsKeepTheFilm ==
    /\ StaysWellFormed
    /\ SplitKeepsFootage
    /\ TrimKeepsTheRest
    /\ SpeedCoversTheSource
    /\ RippleKeepsOrder
    /\ RecaptionDoesNotStack
==============================================================================
