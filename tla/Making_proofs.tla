------------------------------- MODULE Making_proofs -------------------------------
(**********************************************************************************)
(* What holds of the timeline and of the other parts of Making for every set of   *)
(* tracks, files, groups, links, texts and actions, and for every bound: the       *)
(* types, that the edits keep the film, that what is paid for is what was shown,   *)
(* that screens keep up with what answers late, and that the way in keeps its word.*)
(*                                                                                *)
(* The argument.  The parts share no variable, so a behaviour of Making is one of  *)
(* each part (PartsRun), and each part has an inductive invariant of its own.      *)
(*                                                                                *)
(* Timeline: each edit takes a well-formed project to a well-formed one, for it    *)
(* changes items only within what their sources and neighbours allow (OneTrack);   *)
(* what an edit does to what is shown is then a fact about any well-formed project.*)
(* Media: a link outlives the timer that will ask for it anew (Outlives).          *)
(* AvatarPack: the copy that an upload is written from has every slot that the     *)
(* server has, until an upload lands, and then it is read again first (Sighted).   *)
(* VideoSetup: a price under way or shown is of the request the form stands for,   *)
(* and a form that starts a video leaves nothing to start another (OneVideo).      *)
(* LinkStudy: what is under way and not cancelled is about the link on screen and  *)
(* asks for what the screen lacks (TasksInv, ShownInv).                            *)
(* Captions: what a clip plays of words in turn are words in turn (InsideInTurn),   *)
(* and each word that is grouped leaves the phrases in turn, with those words and   *)
(* no others (PhrasesInTurn).  A fold over a sequence is a function on its length,  *)
(* and what holds of each next value holds of the last (FoldedOver, Climbed).       *)
(* SignIn: attempts let in are numbered within their window.  Those of the last    *)
(* Window belong to two windows at most, and the first of the older one is as old  *)
(* as that window, so their numbers fit below twice the limit (Tries, InPlace).    *)
(**********************************************************************************)
EXTENDS Making, FiniteSetTheorems, FunctionTheorems, SequenceTheorems, TLAPS

-----------------------------------------------------------------------------
(* The timeline.                                                              *)

\* An item with one field changed to one of its range is an item.
LEMMA Retyped ==
    ASSUME NEW i \in Item
    PROVE  /\ \A x \in Ids : [i EXCEPT !.id = x] \in Item
           /\ \A n \in Nat : [i EXCEPT !.start = n] \in Item
           /\ \A n \in Nat \ {0} : [i EXCEPT !.length = n] \in Item
           /\ \A n \in Nat : [i EXCEPT !.trim = n] \in Item
           /\ \A s \in SUBSET Nat : [i EXCEPT !.keys = s] \in Item
           /\ \A n \in SpeedRange : [i EXCEPT !.speed = n] \in Item
           /\ \A b \in BOOLEAN : [i EXCEPT !.entrance = b] \in Item
           /\ \A l \in Looks : [i EXCEPT !.look = l] \in Item
  BY DEF Item

\* The first half of a cut item: an item of the same footage, up to the cut.
LEMMA HeadOf ==
    ASSUME NEW i \in Item, NEW at \in Nat, at > i.start
    PROVE  /\ FirstHalf(i, at) \in Item
           /\ FirstHalf(i, at).id = i.id /\ FirstHalf(i, at).kind = i.kind
           /\ FirstHalf(i, at).start = i.start /\ FirstHalf(i, at).length = at - i.start
           /\ FirstHalf(i, at).trim = i.trim /\ FirstHalf(i, at).source = i.source
           /\ FirstHalf(i, at).speed = i.speed /\ FirstHalf(i, at).look = i.look
<1>1. at - i.start \in Nat \ {0} /\ {k \in i.keys : k < at - i.start} \in SUBSET Nat
  BY DEF Item
<1>2. [i EXCEPT !.length = at - i.start] \in Item
  BY <1>1, Retyped
<1>3. FirstHalf(i, at) = [[i EXCEPT !.length = at - i.start] EXCEPT !.keys = {k \in i.keys : k < at - i.start}]
  BY Zenon DEF FirstHalf
<1>4. FirstHalf(i, at) \in Item
  BY <1>1, <1>2, <1>3, Retyped
<1>5. /\ FirstHalf(i, at).id = i.id /\ FirstHalf(i, at).kind = i.kind
      /\ FirstHalf(i, at).start = i.start /\ FirstHalf(i, at).length = at - i.start
      /\ FirstHalf(i, at).trim = i.trim /\ FirstHalf(i, at).source = i.source
      /\ FirstHalf(i, at).speed = i.speed /\ FirstHalf(i, at).look = i.look
  BY DEF FirstHalf, Item
<1> QED
  BY <1>4, <1>5

\* The second half: an item under a new id, from the cut on.
LEMMA TailOf ==
    ASSUME NEW i \in Item, NEW at \in Nat, NEW new \in Ids, at > i.start, at < EndOf(i)
    PROVE  /\ SecondHalf(i, at, new) \in Item
           /\ SecondHalf(i, at, new).id = new /\ SecondHalf(i, at, new).kind = i.kind
           /\ SecondHalf(i, at, new).start = at
           /\ SecondHalf(i, at, new).length = i.length - (at - i.start)
           /\ SecondHalf(i, at, new).source = i.source
           /\ SecondHalf(i, at, new).speed = i.speed /\ SecondHalf(i, at, new).look = i.look
           /\ HasSource(i) => SecondHalf(i, at, new).trim = i.trim + (at - i.start) * i.speed
<1> DEFINE first == at - i.start
           trim == IF HasSource(i) THEN i.trim + first * i.speed ELSE i.trim
           keys == {k - first : k \in {m \in i.keys : m >= first}}
<1>0. first \in Nat /\ first # 0 /\ i.length - first \in Nat \ {0}
  BY DEF Item, EndOf
<1>1. i.trim \in Nat /\ i.speed \in Nat /\ i.keys \in SUBSET Nat
  BY DEF Item, SpeedRange
<1>2. first * i.speed \in Nat
  BY <1>0, <1>1
<1>3. trim \in Nat
  BY <1>1, <1>2
<1>4. keys \in SUBSET Nat
  BY <1>0, <1>1
<1>5. SecondHalf(i, at, new) = [[[[[i EXCEPT !.id = new] EXCEPT !.start = at] EXCEPT
        !.length = i.length - first] EXCEPT !.trim = trim] EXCEPT !.keys = keys]
  BY Zenon DEF SecondHalf
<1> HIDE DEF first, trim, keys
<1>6. SecondHalf(i, at, new) \in Item
  <2>1. [i EXCEPT !.id = new] \in Item
    BY Retyped
  <2>2. [[i EXCEPT !.id = new] EXCEPT !.start = at] \in Item
    BY <2>1, Retyped
  <2>3. [[[i EXCEPT !.id = new] EXCEPT !.start = at] EXCEPT !.length = i.length - first] \in Item
    BY <1>0, <2>2, Retyped
  <2>4. [[[[i EXCEPT !.id = new] EXCEPT !.start = at] EXCEPT
          !.length = i.length - first] EXCEPT !.trim = trim] \in Item
    BY <1>3, <2>3, Retyped
  <2> QED
    BY <1>4, <1>5, <2>4, Retyped
<1>7. /\ SecondHalf(i, at, new).id = new /\ SecondHalf(i, at, new).kind = i.kind
      /\ SecondHalf(i, at, new).start = at
      /\ SecondHalf(i, at, new).length = i.length - (at - i.start)
      /\ SecondHalf(i, at, new).source = i.source
      /\ SecondHalf(i, at, new).speed = i.speed /\ SecondHalf(i, at, new).look = i.look
      /\ HasSource(i) => SecondHalf(i, at, new).trim = i.trim + (at - i.start) * i.speed
  BY DEF SecondHalf, Item
<1> QED
  BY <1>6, <1>7

-----------------------------------------------------------------------------
\* What a track may hold, and two tracks beside each other.
Footed(i) == HasSource(i) => i.trim + i.length * i.speed <= i.source
\* The items of a track are well-formed and apart.
Fine(t, S) ==
    /\ S \subseteq Item
    /\ \A i \in S : Accepts(t, i) /\ Footed(i)
    /\ \A i, j \in S : i.id = j.id => i = j
    /\ \A i, j \in S : i # j => ~ Overlap(i, j)

\* Two tracks share no id.
Apart(S, T) == \A i \in S, j \in T : i.id # j.id

\* A project is well-formed when each track is, and no two tracks share an id.
LEMMA ByTrack ==
    ASSUME NEW p
    PROVE  WellFormed(p) <=>
              /\ p \in [Tracks -> SUBSET Item]
              /\ \A t \in Tracks : Fine(t, p[t])
              /\ \A t, u \in Tracks : t # u => Apart(p[t], p[u])
  BY DEF WellFormed, KindsMatch, IdsAreUnique, NothingOverlaps, FootageExists, Items, Fine,
         Footed, Apart

\* A project stays well-formed when one track is replaced by one that is fine and apart
\* from the others.
LEMMA OneTrack ==
    ASSUME NEW p, WellFormed(p), NEW t \in Tracks, NEW S, Fine(t, S),
           \A u \in Tracks \ {t} : Apart(S, p[u])
    PROVE  WellFormed([p EXCEPT ![t] = S])
<1> DEFINE q == [p EXCEPT ![t] = S]
<1>1. p \in [Tracks -> SUBSET Item] /\ S \in SUBSET Item
  BY ByTrack DEF Fine
<1>2. q \in [Tracks -> SUBSET Item] /\ q[t] = S /\ \A u \in Tracks \ {t} : q[u] = p[u]
  BY <1>1
<1> HIDE DEF q
<1>3. \A u \in Tracks : Fine(u, q[u])
  BY <1>2, ByTrack
<1>4. \A u, v \in Tracks : u # v => Apart(q[u], q[v])
  BY <1>2, ByTrack DEF Apart
<1>5. WellFormed(q)
  BY <1>2, <1>3, <1>4, ByTrack
<1> QED
  BY <1>5 DEF q

\* A part of a track is as fine as the whole.
LEMMA FewerAreFine ==
    ASSUME NEW t, NEW S, Fine(t, S), NEW T \in SUBSET S
    PROVE  Fine(t, T)
  BY DEF Fine

\* A track takes one more item that overlaps none of its own.
LEMMA OneMoreIsFine ==
    ASSUME NEW t, NEW S, Fine(t, S), NEW i \in Item, Accepts(t, i), Footed(i),
           \A j \in S : j.id # i.id /\ ~ Overlap(j, i)
    PROVE  Fine(t, S \cup {i})
<1>1. \A j \in S : ~ Overlap(i, j)
  BY DEF Overlap, EndOf
<1> QED
  BY <1>1 DEF Fine, Overlap, EndOf, Item

-----------------------------------------------------------------------------
\* The item of an id is on the track of that id, and alone there under it.
LEMMA Found ==
    ASSUME NEW p, WellFormed(p), NEW id, Has(p, id)
    PROVE  /\ Find(p, id) \in Item /\ Find(p, id).id = id /\ Footed(Find(p, id))
           /\ TrackOf(p, id) \in Tracks /\ Find(p, id) \in p[TrackOf(p, id)]
           /\ Accepts(TrackOf(p, id), Find(p, id))
           /\ Others(p, id) = p[TrackOf(p, id)] \ {Find(p, id)}
           /\ \A t \in Tracks : \A i \in p[t] : i.id = id => t = TrackOf(p, id) /\ i = Find(p, id)
           /\ Fine(TrackOf(p, id), Others(p, id))
           /\ \A i \in Others(p, id) : i.id # id
           /\ \A u \in Tracks \ {TrackOf(p, id)} : Apart(Others(p, id), p[u])
<1> DEFINE i == Find(p, id)
           t == TrackOf(p, id)
<1>1. /\ p \in [Tracks -> SUBSET Item] /\ \A u \in Tracks : Fine(u, p[u])
      /\ \A u, v \in Tracks : u # v => Apart(p[u], p[v])
  BY ByTrack
<1>2. i \in Items(p) /\ i.id = id
  BY DEF Has, Find
<1>3. \E u \in Tracks : i \in p[u]
  BY <1>2 DEF Items
<1>4. t \in Tracks /\ i \in p[t]
  BY <1>3 DEF TrackOf
<1>5. \A u \in Tracks : \A j \in p[u] : j.id = id => u = t /\ j = i
  BY <1>1, <1>2, <1>4 DEF Fine, Apart
<1>6. i \in Item /\ Footed(i) /\ Accepts(t, i)
  BY <1>1, <1>4 DEF Fine
<1>7. Others(p, id) = p[t] \ {i} /\ \A j \in Others(p, id) : j.id # id
  BY <1>2, <1>4, <1>5 DEF Others
<1>8. Fine(t, Others(p, id))
  BY <1>1, <1>4, <1>7, FewerAreFine
<1>9. \A u \in Tracks \ {t} : Apart(Others(p, id), p[u])
  BY <1>1, <1>4, <1>7 DEF Apart
<1> QED
  BY <1>2, <1>4, <1>5, <1>6, <1>7, <1>8, <1>9

\* An item that takes the place of another of its id, or of none, on its track.
LEMMA PutKeeps ==
    ASSUME NEW p, WellFormed(p), NEW t \in Tracks, NEW i \in Item, Accepts(t, i), Footed(i),
           \A u \in Tracks \ {t} : \A j \in p[u] : j.id # i.id,
           NEW q \in Put(p, t, i)
    PROVE  WellFormed(q) /\ q = [p EXCEPT ![t] = {o \in p[t] : o.id # i.id} \cup {i}]
<1> DEFINE others == {o \in p[t] : o.id # i.id}
<1>1. q = [p EXCEPT ![t] = others \cup {i}] /\ \A o \in others : ~ Overlap(o, i)
  BY DEF Put, Refused
<1>2. Fine(t, others)
  BY ByTrack, FewerAreFine
<1>3. Fine(t, others \cup {i})
  BY <1>1, <1>2, OneMoreIsFine
<1>4. \A u \in Tracks \ {t} : Apart(others \cup {i}, p[u])
  BY ByTrack DEF Apart
<1> QED
  BY <1>1, <1>3, <1>4, OneTrack

\* An item of a track that is replaced where it stands.
LEMMA SwapKeeps ==
    ASSUME NEW p, WellFormed(p), NEW id, Has(p, id), NEW i \in Item,
           i.id = id, i.kind = Find(p, id).kind, Footed(i),
           i.start = Find(p, id).start, i.length = Find(p, id).length,
           NEW q \in Swap(p, i)
    PROVE  WellFormed(q)
<1> DEFINE t == TrackOf(p, id)
<1>1. q = [p EXCEPT ![t] = Others(p, id) \cup {i}]
  BY DEF Swap
<1>2. \A o \in Others(p, id) : o.id # i.id /\ ~ Overlap(o, i)
  <2>1. \A o \in Others(p, id) : ~ Overlap(o, Find(p, id))
    BY Found, ByTrack DEF Fine
  <2> QED
    BY <2>1, Found DEF Overlap, EndOf
<1>3. Accepts(t, i) /\ t \in Tracks /\ Fine(t, Others(p, id))
  BY Found DEF Accepts
<1>4. Fine(t, Others(p, id) \cup {i})
  BY <1>2, <1>3, OneMoreIsFine
<1>5. \A u \in Tracks \ {t} : Apart(Others(p, id) \cup {i}, p[u])
  BY Found DEF Apart
<1> QED
  BY <1>1, <1>3, <1>4, <1>5, OneTrack

-----------------------------------------------------------------------------
(* Every edit keeps a project well-formed.                                  *)

\* addItem.
LEMMA AddKeeps ==
    ASSUME NEW p, WellFormed(p), NEW t \in Tracks, NEW i \in Item, Footed(i),
           NEW q \in AddItem(p, t, i)
    PROVE  WellFormed(q)
<1>1. Accepts(t, i) /\ ~ Has(p, i.id) /\ q \in Put(p, t, i)
  BY DEF AddItem, Refused
<1>2. \A u \in Tracks : \A j \in p[u] : j.id # i.id
  BY <1>1 DEF Has, Items
<1> QED
  BY <1>1, <1>2, PutKeeps

\* moveItem, on its track or to another.
LEMMA MoveKeeps ==
    ASSUME NEW p, WellFormed(p), NEW id, NEW start \in Nat, NEW t \in Tracks,
           NEW q \in MoveItem(p, id, start, t)
    PROVE  WellFormed(q)
<1> DEFINE i == Find(p, id)
           home == TrackOf(p, id)
           moved == [i EXCEPT !.start = start]
<1>1. Has(p, id) /\ Accepts(t, i)
  BY DEF MoveItem, Refused
<1>2. i \in Item /\ i.id = id /\ Footed(i) /\ home \in Tracks
  BY <1>1, Found
<1>3. /\ moved \in Item /\ moved.id = id /\ moved.kind = i.kind /\ moved.length = i.length
      /\ moved.trim = i.trim /\ moved.speed = i.speed /\ moved.source = i.source
  <2>1. moved \in Item
    BY <1>2, Retyped
  <2> QED
    BY <1>2, <2>1 DEF Item
<1>4. Footed(moved) /\ Accepts(t, moved)
  BY <1>1, <1>2, <1>3 DEF Footed, HasSource, Accepts
<1>5. CASE t = home
  <2>1. q \in Put(p, t, moved)
    BY <1>1, <1>5 DEF MoveItem
  <2>2. \A u \in Tracks \ {t} : \A j \in p[u] : j.id # moved.id
    BY <1>1, <1>3, <1>5, Found
  <2> QED
    BY <1>3, <1>4, <2>1, <2>2, PutKeeps
<1>6. CASE t # home
  <2> DEFINE r == [p EXCEPT ![home] = Others(p, id)]
             others == {o \in p[t] : o.id # moved.id}
  <2>1. PICK s \in Put(p, t, moved) : q = [s EXCEPT ![home] = Others(p, id)]
    BY <1>1, <1>6 DEF MoveItem
  <2>2. s = [p EXCEPT ![t] = others \cup {moved}] /\ \A o \in others : ~ Overlap(o, moved)
    BY <2>1 DEF Put, Refused
  <2>3. p \in [Tracks -> SUBSET Item]
    BY ByTrack
  <2>4. WellFormed(r)
    BY <1>1, <1>2, Found, OneTrack
  <2>5. r[t] = p[t] /\ q = [r EXCEPT ![t] = others \cup {moved}]
    BY <1>2, <1>6, <2>1, <2>2, <2>3
  <2>6. \A u \in Tracks : \A j \in r[u] : j.id # moved.id
    BY <1>1, <1>2, <1>3, <2>3, Found
  <2>7. q \in Put(r, t, moved)
    BY <2>2, <2>5 DEF Put, Refused
  <2> QED
    BY <1>3, <1>4, <2>4, <2>6, <2>7, PutKeeps
<1> QED
  BY <1>5, <1>6

\* What becomes of an item when the one before it goes.
ClosedUp(gone, ripple, i) ==
    IF ripple /\ i.start >= EndOf(gone) THEN [i EXCEPT !.start = @ - gone.length] ELSE i

\* An item moved up is an item with another start.
LEMMA ClosedOf ==
    ASSUME NEW gone \in Item, NEW ripple \in BOOLEAN, NEW i \in Item
    PROVE  LET j == ClosedUp(gone, ripple, i)
           IN /\ j \in Item /\ j.id = i.id /\ j.kind = i.kind /\ j.length = i.length
              /\ j.trim = i.trim /\ j.speed = i.speed /\ j.source = i.source
              /\ j.start = IF ripple /\ i.start >= EndOf(gone)
                           THEN i.start - gone.length ELSE i.start
<1>1. CASE ripple /\ i.start >= EndOf(gone)
  <2> DEFINE n == i.start - gone.length
             j == [i EXCEPT !.start = n]
  <2>1. n \in Nat
    BY <1>1 DEF Item, EndOf
  <2> HIDE DEF n
  <2>2. j \in Item
    BY <2>1, Retyped
  <2>3. /\ j.id = i.id /\ j.kind = i.kind /\ j.length = i.length /\ j.start = n
        /\ j.trim = i.trim /\ j.speed = i.speed /\ j.source = i.source
    BY DEF Item
  <2>4. ClosedUp(gone, ripple, i) = j
    BY <1>1 DEF ClosedUp, n
  <2> HIDE DEF j
  <2> QED
    BY <1>1, <2>2, <2>3, <2>4 DEF n
<1> QED
  BY <1>1 DEF ClosedUp

\* deleteItem, with the gap closed or left.
LEMMA DeleteKeeps ==
    ASSUME NEW p, WellFormed(p), NEW id, NEW ripple \in BOOLEAN,
           NEW q \in DeleteItem(p, id, ripple)
    PROVE  WellFormed(q)
<1> DEFINE gone == Find(p, id)
           t == TrackOf(p, id)
           Closed(i) == ClosedUp(gone, ripple, i)
           S == {Closed(i) : i \in Others(p, id)}
<1>1. Has(p, id) /\ q = [p EXCEPT ![t] = S]
  BY DEF DeleteItem, Refused, ClosedUp
<1>2. /\ gone \in Item /\ t \in Tracks /\ gone \in p[t] /\ Others(p, id) = p[t] \ {gone}
      /\ Fine(t, Others(p, id)) /\ \A u \in Tracks \ {t} : Apart(Others(p, id), p[u])
      /\ Fine(t, p[t])
  BY <1>1, Found, ByTrack
<1>3. \A i \in Others(p, id) :
        /\ Closed(i) \in Item /\ Closed(i).id = i.id /\ Closed(i).kind = i.kind
        /\ Closed(i).length = i.length /\ Closed(i).trim = i.trim
        /\ Closed(i).speed = i.speed /\ Closed(i).source = i.source
        /\ Closed(i).start = IF ripple /\ i.start >= EndOf(gone)
                             THEN i.start - gone.length ELSE i.start
  BY <1>2, ClosedOf DEF Fine, ClosedUp
<1> HIDE DEF Closed
<1>4. \A i, j \in Others(p, id) : i # j => ~ Overlap(Closed(i), Closed(j))
  <2> SUFFICES ASSUME NEW i \in Others(p, id), NEW j \in Others(p, id), i # j
               PROVE  ~ Overlap(Closed(i), Closed(j))
    OBVIOUS
  <2>1. ~ Overlap(i, j) /\ ~ Overlap(i, gone) /\ ~ Overlap(j, gone)
    BY <1>2 DEF Fine
  <2>2. i \in Item /\ j \in Item
    BY <1>2 DEF Fine
  <2> QED
    BY <1>2, <1>3, <2>1, <2>2 DEF Overlap, EndOf, Item
<1>5. Fine(t, S)
  BY <1>2, <1>3, <1>4 DEF Fine, Accepts, Footed, HasSource
<1>6. \A u \in Tracks \ {t} : Apart(S, p[u])
  BY <1>2, <1>3 DEF Apart
<1> QED
  BY <1>1, <1>2, <1>5, <1>6, OneTrack

\* The two halves of a cut: each lies within the item, and they share nothing.
LEMMA Halves ==
    ASSUME NEW i \in Item, Footed(i), NEW at \in Nat, at > i.start, at < EndOf(i), NEW new \in Ids
    PROVE  LET h == FirstHalf(i, at)  r == SecondHalf(i, at, new)
           IN /\ h \in Item /\ h.id = i.id /\ h.kind = i.kind /\ Footed(h)
              /\ r \in Item /\ r.id = new /\ r.kind = i.kind /\ Footed(r)
              /\ h.start = i.start /\ EndOf(h) = at
              /\ r.start = at /\ EndOf(r) = EndOf(i)
<1> DEFINE h == FirstHalf(i, at)
           r == SecondHalf(i, at, new)
<1>1. h \in Item /\ r \in Item
  BY HeadOf, TailOf
<1>2. h.id = i.id /\ h.kind = i.kind /\ h.start = i.start /\ h.length = at - i.start
      /\ h.trim = i.trim /\ h.source = i.source /\ h.speed = i.speed
  BY HeadOf
<1>3. /\ r.id = new /\ r.kind = i.kind /\ r.start = at /\ r.length = i.length - (at - i.start)
      /\ r.source = i.source /\ r.speed = i.speed
      /\ HasSource(i) => r.trim = i.trim + (at - i.start) * i.speed
  BY TailOf
<1> HIDE DEF h, r
<1>4. i.start \in Nat /\ i.length \in Nat /\ i.speed \in Nat /\ i.trim \in Nat /\ i.source \in Nat
  BY DEF Item, SpeedRange
<1>5. EndOf(h) = at /\ EndOf(r) = EndOf(i)
  BY <1>2, <1>3, <1>4 DEF EndOf
<1>6. Footed(h)
  <2>1. (at - i.start) * i.speed <= i.length * i.speed
    <3>1. i.length * i.speed = (at - i.start) * i.speed + (i.length - (at - i.start)) * i.speed
      BY <1>4
    <3>2. (i.length - (at - i.start)) * i.speed \in Nat
      BY <1>4 DEF EndOf
    <3>3. (at - i.start) * i.speed \in Nat
      BY <1>4
    <3> QED
      BY <3>1, <3>2, <3>3
  <2>2. (at - i.start) * i.speed \in Nat /\ i.length * i.speed \in Nat
    BY <1>4
  <2> QED
    BY <1>2, <1>4, <2>1, <2>2 DEF Footed, HasSource
<1>7. Footed(r)
  <2>1. i.length * i.speed = (at - i.start) * i.speed + (i.length - (at - i.start)) * i.speed
    BY <1>4
  <2>2. HasSource(i) => r.trim + r.length * r.speed = i.trim + i.length * i.speed
    BY <1>3, <1>4, <2>1
  <2> QED
    BY <1>3, <2>2 DEF Footed, HasSource
<1>8. /\ h \in Item /\ h.id = i.id /\ h.kind = i.kind /\ Footed(h)
      /\ r \in Item /\ r.id = new /\ r.kind = i.kind /\ Footed(r)
      /\ h.start = i.start /\ EndOf(h) = at
      /\ r.start = at /\ EndOf(r) = EndOf(i)
  BY <1>1, <1>2, <1>3, <1>5, <1>6, <1>7
<1> QED
  BY <1>8 DEF h, r

\* splitItem.
LEMMA SplitKeeps ==
    ASSUME NEW p, WellFormed(p), NEW id, NEW at \in Nat, NEW new \in Ids,
           NEW q \in SplitItem(p, id, at, new)
    PROVE  WellFormed(q)
<1> DEFINE i == Find(p, id)
           t == TrackOf(p, id)
           h == FirstHalf(i, at)
           r == SecondHalf(i, at, new)
           S == Others(p, id) \cup {h}
<1>1. Has(p, id) /\ ~ Has(p, new) /\ Cuttable(i, at)
  BY DEF SplitItem, Refused
<1>2. /\ i \in Item /\ i.id = id /\ Footed(i) /\ t \in Tracks /\ i \in p[t] /\ Accepts(t, i)
      /\ Others(p, id) = p[t] \ {i} /\ Fine(t, Others(p, id)) /\ Fine(t, p[t])
      /\ \A j \in Others(p, id) : j.id # id
      /\ \A u \in Tracks \ {t} : Apart(Others(p, id), p[u])
  BY <1>1, Found, ByTrack
<1>3. at > i.start /\ at < EndOf(i)
  BY <1>1, <1>2 DEF Cuttable, Item, EndOf
<1>4. /\ h \in Item /\ h.id = i.id /\ h.kind = i.kind /\ Footed(h)
      /\ r \in Item /\ r.id = new /\ r.kind = i.kind /\ Footed(r)
      /\ h.start = i.start /\ EndOf(h) = at
      /\ r.start = at /\ EndOf(r) = EndOf(i)
  BY <1>2, <1>3, Halves
<1>5. q = [p EXCEPT ![t] = S \cup {r}]
  BY <1>1 DEF SplitItem
<1>6. \A j \in Items(p) : j.id # new
  BY <1>1 DEF Has
<1>7. \A u \in Tracks : \A j \in p[u] : j.id # new
  BY <1>6 DEF Items
<1> HIDE DEF h, r
<1>8. \A j \in Others(p, id) : j.id # new /\ ~ Overlap(j, h) /\ ~ Overlap(j, r)
  <2> SUFFICES ASSUME NEW j \in Others(p, id)
               PROVE  j.id # new /\ ~ Overlap(j, h) /\ ~ Overlap(j, r)
    OBVIOUS
  <2>1. j.id # new
    BY <1>2, <1>7
  <2>2. j \in Item /\ ~ Overlap(j, i)
    BY <1>2 DEF Fine
  <2>3. EndOf(j) \in Nat /\ EndOf(i) \in Nat /\ j.start \in Nat /\ i.start \in Nat
    BY <1>2, <2>2 DEF EndOf, Item
  <2> QED
    BY <1>3, <1>4, <2>1, <2>2, <2>3 DEF Overlap
<1>9. Fine(t, S)
  BY <1>2, <1>4, <1>8, OneMoreIsFine DEF Accepts
<1>10. ~ Overlap(h, r) /\ h.id # new
  BY <1>2, <1>4, <1>7 DEF Overlap
<1>11. Fine(t, S \cup {r})
  BY <1>2, <1>4, <1>8, <1>9, <1>10, OneMoreIsFine DEF Accepts
<1>12. \A u \in Tracks \ {t} : Apart(S \cup {r}, p[u])
  BY <1>1, <1>2, <1>4, <1>7, Found DEF Apart
<1> QED
  BY <1>2, <1>5, <1>11, <1>12, OneTrack

\* splitAll: every item under the moment is cut, under names of their own.
LEMMA SplitAllKeeps ==
    ASSUME NEW p, WellFormed(p), NEW at \in Nat,
           NEW name \in [{i.id : i \in Items(p)} -> {d \in Ids : ~ Has(p, d)}],
           \A i, j \in DOMAIN name : i # j => name[i] # name[j],
           NEW q \in SplitAll(p, at, name)
    PROVE  WellFormed(q)
<1> DEFINE targets == {i \in Items(p) : i.kind # "caption"
                                        /\ at > i.start + 1 /\ at < EndOf(i) - 1}
           Cut(i) == IF i \in targets THEN {FirstHalf(i, at), SecondHalf(i, at, name[i.id])} ELSE {i}
           S(t) == UNION {Cut(i) : i \in p[t]}
<1>1. q = [t \in Tracks |-> S(t)]
  BY Zenon DEF SplitAll, Refused
<1>2. /\ p \in [Tracks -> SUBSET Item] /\ \A t \in Tracks : Fine(t, p[t])
      /\ \A t, u \in Tracks : t # u => Apart(p[t], p[u])
  BY ByTrack
<1>3. \A i \in Items(p) : i \in Item /\ Footed(i) /\ i.id \in DOMAIN name
  BY <1>2 DEF Items, Fine
<1>4. \A i \in Items(p) : name[i.id] \in Ids /\ \A j \in Items(p) : j.id # name[i.id]
  BY <1>3 DEF Has
<1> DEFINE Piece(x, i) ==
      /\ x \in Item /\ x.kind = i.kind /\ Footed(x) /\ x.id \in {i.id, name[i.id]}
      /\ x.start >= i.start /\ EndOf(x) <= EndOf(i)
<1>5. ASSUME NEW i \in Items(p)
      PROVE  /\ \A x \in Cut(i) : Piece(x, i)
             /\ \A x, y \in Cut(i) : x # y => x.id # y.id /\ ~ Overlap(x, y)
  <2>1. CASE i \notin targets
    BY <1>3, <2>1 DEF EndOf, Item
  <2>2. CASE i \in targets
    <3> DEFINE h == FirstHalf(i, at)
               r == SecondHalf(i, at, name[i.id])
    <3>1. at > i.start /\ at < EndOf(i) /\ i \in Item /\ Footed(i)
      BY <1>3, <2>2 DEF Item, EndOf
    <3>2. /\ h \in Item /\ h.id = i.id /\ h.kind = i.kind /\ Footed(h)
          /\ r \in Item /\ r.id = name[i.id] /\ r.kind = i.kind /\ Footed(r)
          /\ h.start = i.start /\ EndOf(h) = at
          /\ r.start = at /\ EndOf(r) = EndOf(i)
      BY <1>4, <3>1, Halves
    <3>3. Cut(i) = {h, r}
      BY <2>2
    <3> HIDE DEF h, r, Cut, targets
    <3>4. h.id # r.id
      BY <1>4, <3>2
    <3>5. EndOf(i) \in Nat /\ i.start \in Nat
      BY <3>1 DEF EndOf, Item
    <3>6. \A x \in Cut(i) : Piece(x, i)
      BY <3>1, <3>2, <3>3, <3>5
    <3>7. ~ Overlap(h, r) /\ ~ Overlap(r, h)
      BY <3>1, <3>2, <3>5 DEF Overlap
    <3> QED
      BY <3>3, <3>4, <3>6, <3>7
  <2> QED
    BY <2>1, <2>2
<1> HIDE DEF Cut, targets
<1>6. \A t \in Tracks : \A i \in p[t] : i \in Items(p)
  BY DEF Items
<1>7. ASSUME NEW i \in Items(p), NEW j \in Items(p), NEW x \in Cut(i), NEW y \in Cut(j), x.id = y.id
      PROVE  i.id = j.id
  <2>1. x.id \in {i.id, name[i.id]} /\ y.id \in {j.id, name[j.id]}
    BY <1>5
  <2>2. i.id \in DOMAIN name /\ j.id \in DOMAIN name
    BY <1>3
  <2>3. i.id # name[j.id] /\ j.id # name[i.id]
    BY <1>4
  <2> QED
    BY <1>7, <2>1, <2>2, <2>3
<1>8. ASSUME NEW t \in Tracks
      PROVE  Fine(t, S(t))
  <2>1. \A x \in S(t) : \E i \in p[t] : x \in Cut(i)
    OBVIOUS
  <2>2. \A x \in S(t) : x \in Item /\ Accepts(t, x) /\ Footed(x)
    BY <1>2, <1>5, <1>6, <2>1 DEF Fine, Accepts
  <2>3. ASSUME NEW x \in S(t), NEW y \in S(t), x # y
        PROVE  x.id # y.id /\ ~ Overlap(x, y)
    <3>1. PICK i \in p[t] : x \in Cut(i)
      BY <2>1
    <3>2. PICK j \in p[t] : y \in Cut(j)
      BY <2>1
    <3>3. CASE i = j
      BY <1>5, <1>6, <2>3, <3>1, <3>2, <3>3
    <3>4. CASE i # j
      <4>1. i.id # j.id /\ ~ Overlap(i, j) /\ i \in Item /\ j \in Item
        BY <1>2, <3>4 DEF Fine
      <4>2. x.id # y.id
        BY <1>6, <1>7, <3>1, <3>2, <4>1
      <4>3. Piece(x, i) /\ Piece(y, j)
        BY <1>5, <1>6, <3>1, <3>2
      <4>4. ~ Overlap(x, y)
        BY <4>1, <4>3 DEF Overlap, EndOf, Item
      <4> QED
        BY <4>2, <4>4
    <3> QED
      BY <3>3, <3>4
  <2> HIDE DEF S
  <2> QED
    BY <2>2, <2>3 DEF Fine
<1>9. ASSUME NEW t \in Tracks, NEW u \in Tracks, t # u
      PROVE  Apart(S(t), S(u))
  <2> SUFFICES ASSUME NEW x \in S(t), NEW y \in S(u)
               PROVE  x.id # y.id
    BY DEF Apart
  <2>1. PICK i \in p[t] : x \in Cut(i)
    OBVIOUS
  <2>2. PICK j \in p[u] : y \in Cut(j)
    OBVIOUS
  <2>3. i.id # j.id
    BY <1>2, <1>9 DEF Apart
  <2> QED
    BY <1>6, <1>7, <2>1, <2>2, <2>3
<1>10. q \in [Tracks -> SUBSET Item] /\ \A t \in Tracks : q[t] = S(t)
  BY <1>1, <1>8 DEF Fine
<1> HIDE DEF S
<1>11. \A t \in Tracks : Fine(t, q[t])
  BY <1>8, <1>10
<1>12. \A t, u \in Tracks : t # u => Apart(q[t], q[u])
  BY <1>9, <1>10
<1> QED
  BY <1>10, <1>11, <1>12, ByTrack

\* An item set in the place of the one found: PutKeeps for edits of one item.
LEMMA PutBackKeeps ==
    ASSUME NEW p, WellFormed(p), NEW id, Has(p, id), NEW i \in Item,
           i.id = id, i.kind = Find(p, id).kind, Footed(i),
           NEW q \in Put(p, TrackOf(p, id), i)
    PROVE  WellFormed(q)
<1>1. TrackOf(p, id) \in Tracks /\ Accepts(TrackOf(p, id), i)
  BY Found DEF Accepts
<1>2. \A u \in Tracks \ {TrackOf(p, id)} : \A j \in p[u] : j.id # i.id
  BY Found
<1> QED
  BY <1>1, <1>2, PutKeeps

\* trimItem, the end.
LEMMA TrimEndKeeps ==
    ASSUME NEW p, WellFormed(p), NEW id, NEW at \in Nat, NEW q \in TrimEnd(p, id, at)
    PROVE  WellFormed(q)
<1> DEFINE i == Find(p, id)
           n == at - i.start
           j == [i EXCEPT !.length = n]
<1>1. /\ Has(p, id) /\ n >= 1
      /\ HasSource(i) => i.trim + n * i.speed <= i.source
      /\ q \in Put(p, TrackOf(p, id), j)
  BY DEF TrimEnd, Refused
<1>2. i \in Item /\ i.id = id
  BY <1>1, Found
<1>3. n \in Nat \ {0}
  BY <1>1, <1>2 DEF Item
<1> HIDE DEF n
<1>4. j \in Item
  BY <1>2, <1>3, Retyped
<1>5. /\ j.id = id /\ j.kind = i.kind /\ j.length = n
      /\ j.trim = i.trim /\ j.speed = i.speed /\ j.source = i.source
  BY <1>2, <1>3 DEF Item
<1>6. Footed(j)
  BY <1>1, <1>5 DEF Footed, HasSource
<1> QED
  BY <1>1, <1>4, <1>5, <1>6, PutBackKeeps

\* What a trimmed start makes of an item.
Trimmed(i, at) ==
    LET shift == at - i.start
    IN [i EXCEPT !.start = at, !.length = @ - shift,
                 !.trim = IF HasSource(i) THEN @ + shift * i.speed ELSE @,
                 !.keys = {k - shift : k \in {m \in i.keys : m >= shift}}]

\* An item trimmed at its start is an item, with a source for all of its length.
LEMMA TrimmedOf ==
    ASSUME NEW i \in Item, Footed(i), NEW at \in Nat, i.length - (at - i.start) >= 1,
           HasSource(i) => i.trim + (at - i.start) * i.speed >= 0
    PROVE  LET j == Trimmed(i, at)
           IN /\ j \in Item /\ j.id = i.id /\ j.kind = i.kind /\ Footed(j) /\ j.start = at
              /\ j.length = i.length - (at - i.start) /\ EndOf(j) = EndOf(i)
              /\ j.source = i.source /\ j.speed = i.speed /\ j.look = i.look
              /\ HasSource(i) => j.trim = i.trim + (at - i.start) * i.speed
<1> DEFINE shift == at - i.start
           n == i.length - shift
           trim == IF HasSource(i) THEN i.trim + shift * i.speed ELSE i.trim
           keys == {k - shift : k \in {m \in i.keys : m >= shift}}
           j == Trimmed(i, at)
<1>1. i.trim \in Nat /\ i.speed \in Nat /\ i.keys \in SUBSET Nat /\ i.start \in Nat /\ i.length \in Nat
  BY DEF Item, SpeedRange
<1>2. shift \in Int /\ n \in Nat \ {0}
  BY <1>1
<1>3. shift * i.speed \in Int
  BY <1>1, <1>2
<1>4. trim \in Nat
  BY <1>1, <1>3
<1>5. keys \in SUBSET Nat
  BY <1>1, <1>2
<1>6. j = [[[[i EXCEPT !.start = at] EXCEPT !.length = n] EXCEPT !.trim = trim] EXCEPT !.keys = keys]
  BY Zenon DEF Trimmed
<1>7. j \in Item
  <2> HIDE DEF shift, n, trim, keys, j
  <2>1. [i EXCEPT !.start = at] \in Item
    BY Retyped
  <2>2. [[i EXCEPT !.start = at] EXCEPT !.length = n] \in Item
    BY <1>2, <2>1, Retyped
  <2>3. [[[i EXCEPT !.start = at] EXCEPT !.length = n] EXCEPT !.trim = trim] \in Item
    BY <1>4, <2>2, Retyped
  <2> QED
    BY <1>5, <1>6, <2>3, Retyped
<1>8. /\ j.id = i.id /\ j.kind = i.kind /\ j.start = at /\ j.length = i.length - (at - i.start)
      /\ j.source = i.source /\ j.speed = i.speed /\ j.look = i.look
      /\ HasSource(i) => j.trim = i.trim + (at - i.start) * i.speed
  BY DEF Trimmed, Item
<1>9. EndOf(j) = EndOf(i)
  BY <1>1, <1>8 DEF EndOf
<1>10. Footed(j)
  <2>1. i.length * i.speed = shift * i.speed + n * i.speed
    BY <1>1, <1>2
  <2>2. HasSource(i) => j.trim + j.length * j.speed = i.trim + i.length * i.speed
    BY <1>1, <1>3, <1>8, <2>1
  <2> QED
    BY <1>8, <2>2 DEF Footed, HasSource
<1>11. /\ j \in Item /\ j.id = i.id /\ j.kind = i.kind /\ Footed(j) /\ j.start = at
       /\ j.length = i.length - (at - i.start) /\ EndOf(j) = EndOf(i)
       /\ j.source = i.source /\ j.speed = i.speed /\ j.look = i.look
       /\ HasSource(i) => j.trim = i.trim + (at - i.start) * i.speed
  BY <1>7, <1>8, <1>9, <1>10
<1> HIDE DEF j
<1> QED
  BY <1>11 DEF j

\* trimItem, the start.
LEMMA TrimStartKeeps ==
    ASSUME NEW p, WellFormed(p), NEW id, NEW at \in Nat, NEW q \in TrimStart(p, id, at)
    PROVE  WellFormed(q)
<1> DEFINE i == Find(p, id)
           j == Trimmed(i, at)
<1>1. /\ Has(p, id) /\ i.length - (at - i.start) >= 1
      /\ HasSource(i) => i.trim + (at - i.start) * i.speed >= 0
      /\ q \in Put(p, TrackOf(p, id), j)
  BY DEF TrimStart, Refused, Trimmed
<1>2. i \in Item /\ i.id = id /\ Footed(i)
  BY <1>1, Found
<1>3. j \in Item /\ j.id = id /\ j.kind = i.kind /\ Footed(j)
  BY <1>1, <1>2, TrimmedOf
<1> QED
  BY <1>1, <1>3, PutBackKeeps

\* updateItem.
LEMMA UpdateKeeps ==
    ASSUME NEW p, WellFormed(p), NEW id, NEW look \in Looks, NEW q \in UpdateItem(p, id, look)
    PROVE  WellFormed(q)
<1> DEFINE i == Find(p, id)
           j == [i EXCEPT !.look = look]
<1>1. Has(p, id) /\ q \in Swap(p, j)
  BY DEF UpdateItem, Refused
<1>2. i \in Item /\ i.id = id /\ Footed(i)
  BY <1>1, Found
<1>3. j \in Item
  BY <1>2, Retyped
<1>4. /\ j.id = id /\ j.kind = i.kind /\ j.start = i.start /\ j.length = i.length
      /\ j.trim = i.trim /\ j.speed = i.speed /\ j.source = i.source
  BY <1>2 DEF Item
<1>5. Footed(j)
  BY <1>2, <1>4 DEF Footed, HasSource
<1> QED
  BY <1>1, <1>3, <1>4, <1>5, SwapKeeps

\* setTransition.
LEMMA EntranceKeeps ==
    ASSUME NEW p, WellFormed(p), NEW id, NEW on \in BOOLEAN, NEW q \in SetTransition(p, id, on)
    PROVE  WellFormed(q)
<1> DEFINE i == Find(p, id)
           j == [i EXCEPT !.entrance = on]
<1>1. Has(p, id) /\ q \in Swap(p, j)
  BY DEF SetTransition, Refused
<1>2. i \in Item /\ i.id = id /\ Footed(i)
  BY <1>1, Found
<1>3. j \in Item
  BY <1>2, Retyped
<1>4. /\ j.id = id /\ j.kind = i.kind /\ j.start = i.start /\ j.length = i.length
      /\ j.trim = i.trim /\ j.speed = i.speed /\ j.source = i.source
  BY <1>2 DEF Item
<1>5. Footed(j)
  BY <1>2, <1>4 DEF Footed, HasSource
<1> QED
  BY <1>1, <1>3, <1>4, <1>5, SwapKeeps

\* setKeyframe and removeKeyframe.
LEMMA KeyframesKeep ==
    ASSUME NEW p, WellFormed(p), NEW id, NEW k,
           NEW q \in SetKeyframe(p, id, k) \cup RemoveKeyframe(p, id, k)
    PROVE  WellFormed(q)
<1> DEFINE i == Find(p, id)
           j(keys) == [i EXCEPT !.keys = keys]
<1>1. Has(p, id)
  BY DEF SetKeyframe, RemoveKeyframe, Refused
<1>2. i \in Item /\ i.id = id /\ Footed(i)
  BY <1>1, Found
<1>3. PICK keys \in SUBSET Nat : q \in Swap(p, j(keys))
  <2>1. CASE q \in SetKeyframe(p, id, k)
    <3>1. k \in 0 .. i.length /\ q \in Swap(p, j(i.keys \cup {k}))
      BY <2>1 DEF SetKeyframe, Refused
    <3>2. i.keys \cup {k} \in SUBSET Nat
      BY <1>2, <3>1 DEF Item
    <3> QED
      BY <3>1, <3>2
  <2>2. CASE q \in RemoveKeyframe(p, id, k)
    <3>1. q \in Swap(p, j(i.keys \ {k}))
      BY <2>2 DEF RemoveKeyframe, Refused
    <3>2. i.keys \ {k} \in SUBSET Nat
      BY <1>2 DEF Item
    <3> QED
      BY <3>1, <3>2
  <2> QED
    BY <2>1, <2>2
<1>4. j(keys) \in Item
  BY <1>2, Retyped
<1>5. /\ j(keys).id = id /\ j(keys).kind = i.kind /\ j(keys).start = i.start
      /\ j(keys).length = i.length /\ j(keys).trim = i.trim
      /\ j(keys).speed = i.speed /\ j(keys).source = i.source
  BY <1>2 DEF Item
<1>6. Footed(j(keys))
  BY <1>2, <1>5 DEF Footed, HasSource
<1> QED
  BY <1>1, <1>3, <1>4, <1>5, <1>6, SwapKeeps

\* What a new speed makes of an item.
Sped(i, speed, n) == [i EXCEPT !.speed = speed, !.length = n]

\* An item at another speed is an item, with a source for all of its length.
LEMMA SpedOf ==
    ASSUME NEW i \in Item, Footed(i), NEW speed \in SpeedRange, NEW n \in Nat \ {0},
           n * speed = i.length * i.speed
    PROVE  LET j == Sped(i, speed, n)
           IN /\ j \in Item /\ j.id = i.id /\ j.kind = i.kind /\ Footed(j) /\ j.start = i.start
              /\ j.length = n /\ j.speed = speed /\ j.trim = i.trim
              /\ j.source = i.source /\ j.look = i.look
<1> DEFINE j == Sped(i, speed, n)
<1>1. j = [[i EXCEPT !.speed = speed] EXCEPT !.length = n]
  BY Zenon DEF Sped
<1>2. [i EXCEPT !.speed = speed] \in Item
  BY Retyped
<1>3. j \in Item
  BY <1>1, <1>2, Retyped
<1>4. /\ j.id = i.id /\ j.kind = i.kind /\ j.start = i.start /\ j.length = n
      /\ j.speed = speed /\ j.trim = i.trim /\ j.source = i.source /\ j.look = i.look
  BY DEF Sped, Item
<1>5. Footed(j)
  BY <1>4 DEF Footed, HasSource
<1> HIDE DEF j
<1>6. /\ j \in Item /\ j.id = i.id /\ j.kind = i.kind /\ Footed(j) /\ j.start = i.start
      /\ j.length = n /\ j.speed = speed /\ j.trim = i.trim
      /\ j.source = i.source /\ j.look = i.look
  BY <1>3, <1>4, <1>5
<1> QED
  BY <1>6 DEF j

\* setSpeed.
LEMMA SpeedKeeps ==
    ASSUME NEW p, WellFormed(p), NEW id, NEW speed, NEW q \in SetSpeed(p, id, speed)
    PROVE  WellFormed(q)
<1> DEFINE i == Find(p, id)
<1>1. Has(p, id) /\ speed \in SpeedRange
  BY DEF SetSpeed, Refused
<1>2. i \in Item /\ i.id = id /\ Footed(i)
  BY <1>1, Found
<1>3. PICK n \in 1 .. i.length * i.speed :
        n * speed = i.length * i.speed /\ q \in Put(p, TrackOf(p, id), Sped(i, speed, n))
  BY DEF SetSpeed, Refused, Sped
<1>4. n \in Nat \ {0}
  OBVIOUS
<1>5. Sped(i, speed, n) \in Item /\ Sped(i, speed, n).id = id
      /\ Sped(i, speed, n).kind = i.kind /\ Footed(Sped(i, speed, n))
  BY <1>1, <1>2, <1>3, <1>4, SpedOf
<1> QED
  BY <1>1, <1>3, <1>5, PutBackKeeps

\* What a stretch without its captions keeps.
Kept(p, from, to) ==
    [u \in Tracks |-> IF Kind[u] = "caption"
                      THEN {i \in p[u] : EndOf(i) <= from \/ i.start >= to} ELSE p[u]]

\* Dropping the captions of a stretch leaves a project well-formed.
LEMMA KeptOf ==
    ASSUME NEW p, WellFormed(p), NEW from, NEW to
    PROVE  WellFormed(Kept(p, from, to)) /\ \A u \in Tracks : Kept(p, from, to)[u] \subseteq p[u]
<1> DEFINE k == Kept(p, from, to)
<1>1. \A u \in Tracks : k[u] \subseteq p[u]
  BY DEF Kept
<1>2. k \in [Tracks -> SUBSET Item]
  BY ByTrack DEF Kept
<1> HIDE DEF k
<1>3. \A u \in Tracks : Fine(u, k[u])
  BY <1>1, ByTrack, FewerAreFine
<1>4. \A t, u \in Tracks : t # u => Apart(k[t], k[u])
  BY <1>1, ByTrack DEF Apart
<1>5. WellFormed(k)
  BY <1>2, <1>3, <1>4, ByTrack
<1> QED
  BY <1>1, <1>5 DEF k

\* replaceCaptions, for one new caption.
LEMMA RecaptionKeeps ==
    ASSUME NEW p, WellFormed(p), NEW from, NEW to, NEW t \in Tracks,
           NEW i \in Item, Footed(i), i.kind = "caption",
           NEW q \in ReplaceCaptions(p, from, to, t, {i})
    PROVE  WellFormed(q)
<1> DEFINE k == Kept(p, from, to)
<1>1. /\ Kind[t] = "caption" /\ ~ Has(k, i.id)
      /\ \A o \in k[t] : i # o => ~ Overlap(i, o)
      /\ q = [k EXCEPT ![t] = k[t] \cup {i}]
  BY DEF ReplaceCaptions, Refused, Kept
<1>2. WellFormed(k)
  BY KeptOf
<1> HIDE DEF k
<1>3. \A u \in Tracks : \A o \in k[u] : o.id # i.id
  BY <1>1 DEF Has, Items
<1>4. q \in Put(k, t, i)
  <2>1. {o \in k[t] : o.id # i.id} = k[t]
    BY <1>3
  <2>2. \A o \in k[t] : ~ Overlap(o, i)
    BY <1>1, <1>3 DEF Overlap
  <2> QED
    BY <1>1, <2>1, <2>2 DEF Put
<1> QED
  BY <1>1, <1>2, <1>3, <1>4, PutKeeps DEF Accepts

\* The look of all captions at once.
LEMMA RestyleKeeps ==
    ASSUME NEW p, WellFormed(p), NEW look \in Looks, NEW q \in RestyleCaptions(p, look)
    PROVE  WellFormed(q)
<1> DEFINE New(i) == IF i.kind = "caption" THEN [i EXCEPT !.look = look] ELSE i
           S(t) == {New(i) : i \in p[t]}
<1>1. q = [t \in Tracks |-> S(t)]
  BY DEF RestyleCaptions
<1>2. /\ p \in [Tracks -> SUBSET Item] /\ \A t \in Tracks : Fine(t, p[t])
      /\ \A t, u \in Tracks : t # u => Apart(p[t], p[u])
  BY ByTrack
<1>3. ASSUME NEW i \in Item
      PROVE  /\ New(i) \in Item /\ New(i).id = i.id /\ New(i).kind = i.kind
             /\ New(i).start = i.start /\ New(i).length = i.length /\ New(i).trim = i.trim
             /\ New(i).speed = i.speed /\ New(i).source = i.source
  <2>1. [i EXCEPT !.look = look] \in Item
    BY Retyped
  <2> QED
    BY <2>1 DEF Item
<1> HIDE DEF New
<1>4. \A t \in Tracks : Fine(t, S(t))
  <2> SUFFICES ASSUME NEW t \in Tracks
               PROVE  Fine(t, S(t))
    OBVIOUS
  <2>1. Fine(t, p[t])
    BY <1>2
  <2> QED
    BY <1>3, <2>1 DEF Fine, Accepts, Footed, HasSource, Overlap, EndOf
<1>5. \A t, u \in Tracks : t # u => Apart(S(t), S(u))
  BY <1>2, <1>3 DEF Apart
<1>6. q \in [Tracks -> SUBSET Item] /\ \A t \in Tracks : q[t] = S(t)
  BY <1>1, <1>4 DEF Fine
<1> HIDE DEF S
<1> QED
  BY <1>4, <1>5, <1>6, ByTrack

\* A fresh item is an item, with a source for all of its length.
LEMMA FreshOf ==
    ASSUME TimelineAssumption, NEW t \in Tracks, NEW id \in Ids, NEW start \in Nat,
           NEW n \in Nat \ {0}, NEW source \in Nat, NEW look \in Looks,
           Kind[t] \in {"video", "audio"} => n * Normal <= source
    PROVE  LET i == FreshItem(t, id, start, n, source, look)
           IN i \in Item /\ Footed(i) /\ i.kind = Kind[t]
  BY DEF TimelineAssumption, FreshItem, Item, Footed, HasSource, Kinds, SpeedRange, Normal

-----------------------------------------------------------------------------
\* Whatever the order of edits, the project can be opened again (ops.ts: "an invalid
\* edit can never leave the timeline half changed"; validate.ts refuses the rest).
THEOREM EditKeepsWellFormed ==
    ASSUME TimelineAssumption, WellFormed(project), Edit
    PROVE  WellFormed(project')
<1>1. ASSUME NEW t \in Tracks, NEW id \in Ids, NEW at \in Moments, NEW n \in Sources,
             NEW look \in Looks, Place(t, id, at, n, look)
      PROVE  WellFormed(project')
  <2> DEFINE source == IF Kind[t] \in {"video", "audio"} THEN n * Normal ELSE 0
             i == FreshItem(t, id, at, n, source, look)
  <2>1. n \in Nat \ {0} /\ at \in Nat /\ source \in Nat
    BY DEF TimelineAssumption, Moments, Normal
  <2>2. Kind[t] \in {"video", "audio"} => n * Normal <= source
    BY <2>1 DEF Normal
  <2>3. project' \in AddItem(project, t, i)
    BY <1>1 DEF Place
  <2> HIDE DEF source
  <2>4. i \in Item /\ Footed(i)
    BY <2>1, <2>2, FreshOf
  <2> HIDE DEF i
  <2> QED
    BY <2>3, <2>4, AddKeeps
<1>2. ASSUME NEW id \in Ids, NEW at \in Moments, NEW t \in Tracks, Move(id, at, t)
      PROVE  WellFormed(project')
  BY <1>2, MoveKeeps DEF Move, Moments
<1>3. ASSUME NEW id \in Ids, NEW at \in Moments, NEW new \in Ids, Split(id, at, new)
      PROVE  WellFormed(project')
  BY <1>3, SplitKeeps DEF Split, Moments
<1>4. ASSUME NEW id \in Ids, NEW at \in Moments, Trim(id, at)
      PROVE  WellFormed(project')
  BY <1>4, TrimStartKeeps, TrimEndKeeps DEF Trim, Moments
<1>5. ASSUME NEW id \in Ids, NEW ripple \in BOOLEAN, Delete(id, ripple)
      PROVE  WellFormed(project')
  BY <1>5, DeleteKeeps DEF Delete
<1>6. ASSUME NEW id \in Ids, NEW look \in Looks, Update(id, look)
      PROVE  WellFormed(project')
  BY <1>6, UpdateKeeps DEF Update
<1>7. ASSUME NEW id \in Ids, NEW speed \in Speeds, Speed(id, speed)
      PROVE  WellFormed(project')
  BY <1>7, SpeedKeeps DEF Speed
<1>8. ASSUME NEW id \in Ids, NEW on \in Entrances, Entrance(id, on)
      PROVE  WellFormed(project')
  BY <1>8, EntranceKeeps DEF Entrance, TimelineAssumption
<1>9. ASSUME NEW id \in Ids, NEW k \in Pins, Pin(id, k)
      PROVE  WellFormed(project')
  BY <1>9, KeyframesKeep DEF Pin
<1>10. ASSUME NEW at \in Moments, SplitEvery(at)
       PROVE  WellFormed(project')
  BY <1>10, SplitAllKeeps DEF SplitEvery, Renamings, Moments
<1>11. ASSUME NEW t \in Tracks, NEW from \in Moments, NEW to \in Moments, NEW id \in Ids,
              NEW look \in Looks, Recaption(t, from, to, id, look)
       PROVE  WellFormed(project')
  <2> DEFINE i == FreshItem(t, id, from, to - from, 0, look)
  <2>1. /\ from < to /\ project' \in ReplaceCaptions(project, from, to, t, {i})
        /\ Kind[t] = "caption"
    BY <1>11 DEF Recaption, ReplaceCaptions, Refused
  <2>2. from \in Nat /\ to - from \in Nat \ {0}
    BY <2>1 DEF Moments
  <2>3. i \in Item /\ Footed(i) /\ i.kind = "caption"
    BY <2>1, <2>2, FreshOf
  <2> HIDE DEF i
  <2> QED
    BY <2>1, <2>3, RecaptionKeeps
<1>12. ASSUME NEW look \in Looks, Restyle(look)
       PROVE  WellFormed(project')
  BY <1>12, RestyleKeeps DEF Restyle
<1> QED
  BY <1>1, <1>2, <1>3, <1>4, <1>5, <1>6, <1>7, <1>8, <1>9, <1>10, <1>11, <1>12 DEF Edit

\* The edits of ops.ts: whatever their order, the project they lead to is one that
\* parseProject takes back (StaysWellFormed).
THEOREM FilmStaysWellFormed ==
    ASSUME TimelineAssumption
    PROVE  Spec => []StaysWellFormed
<1>1. Init => StaysWellFormed
  <2>1. WellFormed(EmptyProject)
    BY DEF EmptyProject, WellFormed, KindsMatch, IdsAreUnique, NothingOverlaps, FootageExists, Items
  <2> QED
    BY <2>1 DEF Init, StaysWellFormed
<1>2. StaysWellFormed /\ [Next]_project => StaysWellFormed'
  BY EditKeepsWellFormed DEF Next, StaysWellFormed
<1> QED
  BY <1>1, <1>2, PTL DEF Spec

-----------------------------------------------------------------------------
(* What an edit does to what is seen.  Each is about any well-formed project. *)

\* What a track shows.
Shown(t, S) == UNION {Plays(t, i) : i \in {j \in S : HasSource(j)}}

\* What one track shows more, the project shows more.
LEMMA ShownByTrack ==
    ASSUME NEW p, NEW q, NEW t \in Tracks, \A u \in Tracks \ {t} : q[u] = p[u],
           Shown(t, p[t]) \subseteq Shown(t, q[t])
    PROVE  Footage(p) \subseteq Footage(q)
<1>1. \A r : Footage(r) = UNION {Shown(u, r[u]) : u \in Tracks}
  BY DEF Footage, Shown
<1>2. \A u \in Tracks : Shown(u, p[u]) \subseteq Shown(u, q[u])
  OBVIOUS
<1> QED
  BY <1>1, <1>2

\* Two sets of items show what each shows.
LEMMA ShownWith ==
    ASSUME NEW t, NEW S, NEW T
    PROVE  Shown(t, S \cup T) = Shown(t, S) \cup Shown(t, T)
  BY DEF Shown

\* One item shows what it plays, if it has a source.
LEMMA ShownOne ==
    ASSUME NEW t, NEW i
    PROVE  Shown(t, {i}) = IF HasSource(i) THEN Plays(t, i) ELSE {}
  BY DEF Shown

\* The halves of a clip play what the clip plays.
LEMMA HalvesPlay ==
    ASSUME NEW i \in Item, Footed(i), NEW at \in Nat, at > i.start, at < EndOf(i),
           NEW new \in Ids, NEW t
    PROVE  Shown(t, {FirstHalf(i, at), SecondHalf(i, at, new)}) = Shown(t, {i})
<1> DEFINE h == FirstHalf(i, at)
           r == SecondHalf(i, at, new)
<1>1. /\ h.kind = i.kind /\ r.kind = i.kind /\ h.start = i.start /\ EndOf(h) = at
      /\ r.start = at /\ EndOf(r) = EndOf(i)
  BY Halves
<1>2. /\ h.trim = i.trim /\ h.source = i.source /\ h.speed = i.speed /\ h.look = i.look
      /\ r.source = i.source /\ r.speed = i.speed /\ r.look = i.look
      /\ HasSource(i) => r.trim = i.trim + (at - i.start) * i.speed
  BY HeadOf, TailOf
<1> HIDE DEF h, r
<1>3. i.start \in Nat /\ i.speed \in Nat /\ i.trim \in Nat /\ EndOf(i) \in Nat
  BY DEF Item, SpeedRange, EndOf
<1>4. ASSUME HasSource(i)
      PROVE  Plays(t, h) \cup Plays(t, r) = Plays(t, i)
  <2> DEFINE P(x) == <<t, x, i.source, i.look, i.trim + (x - i.start) * i.speed>>
  <2>1. Plays(t, i) = {P(x) : x \in i.start .. EndOf(i) - 1}
    BY DEF Plays
  <2>2. Plays(t, h) = {P(x) : x \in i.start .. at - 1}
    BY <1>1, <1>2 DEF Plays
  <2>3. Plays(t, r) = {<<t, x, i.source, i.look,
                         i.trim + (at - i.start) * i.speed + (x - at) * i.speed>> :
                           x \in at .. EndOf(i) - 1}
    BY <1>1, <1>2, <1>4 DEF Plays
  <2>4. \A x \in at .. EndOf(i) - 1 :
          i.trim + (at - i.start) * i.speed + (x - at) * i.speed
            = i.trim + (x - i.start) * i.speed
    <3> SUFFICES ASSUME NEW x \in at .. EndOf(i) - 1
                 PROVE  (at - i.start) * i.speed + (x - at) * i.speed = (x - i.start) * i.speed
      BY <1>3
    <3> QED
      BY <1>3
  <2>5. Plays(t, r) = {P(x) : x \in at .. EndOf(i) - 1}
    BY <2>3, <2>4
  <2>6. i.start .. EndOf(i) - 1 = (i.start .. at - 1) \cup (at .. EndOf(i) - 1)
    BY <1>3
  <2> HIDE DEF P
  <2> QED
    BY <2>1, <2>2, <2>5, <2>6
<1>5. HasSource(h) <=> HasSource(i)
  BY <1>1 DEF HasSource
<1>6. HasSource(r) <=> HasSource(i)
  BY <1>1 DEF HasSource
<1>7. Shown(t, {h, r}) = Shown(t, {h}) \cup Shown(t, {r})
  BY DEF Shown
<1>8. Shown(t, {h, r}) = Shown(t, {i})
  BY <1>4, <1>5, <1>6, <1>7, ShownOne
<1> QED
  BY <1>8 DEF h, r

\* Cutting an item changes nothing that is shown.
LEMMA SplitShowsTheSame ==
    ASSUME NEW p, WellFormed(p), NEW id, NEW at \in Nat, NEW new \in Ids,
           NEW q \in SplitItem(p, id, at, new)
    PROVE  Footage(q) = Footage(p)
<1> DEFINE i == Find(p, id)
           t == TrackOf(p, id)
           h == FirstHalf(i, at)
           r == SecondHalf(i, at, new)
<1>1. /\ Has(p, id) /\ Cuttable(i, at)
      /\ q = [p EXCEPT ![t] = Others(p, id) \cup {h, r}]
  BY DEF SplitItem, Refused
<1>2. /\ i \in Item /\ Footed(i) /\ t \in Tracks /\ i \in p[t] /\ Others(p, id) = p[t] \ {i}
      /\ p \in [Tracks -> SUBSET Item]
  BY <1>1, Found, ByTrack
<1>3. at > i.start /\ at < EndOf(i)
  BY <1>1, <1>2 DEF Cuttable, Item, EndOf
<1>4. Shown(t, {h, r}) = Shown(t, {i})
  BY <1>2, <1>3, HalvesPlay
<1> HIDE DEF h, r, i, t
<1> DEFINE O == Others(p, id)
<1>5. Shown(t, O \cup {h, r}) = Shown(t, O \cup {i})
  <2>1. Shown(t, O \cup {h, r}) = Shown(t, O) \cup Shown(t, {h, r})
    BY ShownWith
  <2>2. Shown(t, O \cup {i}) = Shown(t, O) \cup Shown(t, {i})
    BY ShownWith
  <2> QED
    BY <1>4, <2>1, <2>2
<1>6. Others(p, id) \cup {i} = p[t]
  BY <1>2
<1>7. q[t] = Others(p, id) \cup {h, r} /\ \A u \in Tracks \ {t} : q[u] = p[u]
  BY <1>1, <1>2
<1>8. Shown(t, q[t]) = Shown(t, p[t])
  BY <1>5, <1>6, <1>7
<1>9. Footage(p) \subseteq Footage(q)
  BY <1>2, <1>7, <1>8, ShownByTrack DEF t
<1>10. Footage(q) \subseteq Footage(p)
  BY <1>2, <1>7, <1>8, ShownByTrack DEF t
<1> QED
  BY <1>9, <1>10

\* Cutting every item under a moment changes nothing that is shown.
LEMMA SplitAllShowsTheSame ==
    ASSUME NEW p, WellFormed(p), NEW at \in Nat,
           NEW name \in [{i.id : i \in Items(p)} -> {d \in Ids : ~ Has(p, d)}],
           NEW q \in SplitAll(p, at, name)
    PROVE  Footage(q) = Footage(p)
<1> DEFINE targets == {i \in Items(p) : i.kind # "caption"
                                        /\ at > i.start + 1 /\ at < EndOf(i) - 1}
           Cut(i) == IF i \in targets THEN {FirstHalf(i, at), SecondHalf(i, at, name[i.id])} ELSE {i}
           S(t) == UNION {Cut(i) : i \in p[t]}
<1>1. q = [t \in Tracks |-> S(t)]
  BY Zenon DEF SplitAll, Refused
<1>2. \A i \in Items(p) : i \in Item /\ Footed(i) /\ name[i.id] \in Ids
  BY ByTrack DEF Items, Fine
<1>3. ASSUME NEW i \in Items(p), NEW t
      PROVE  Shown(t, Cut(i)) = Shown(t, {i})
  <2>1. CASE i \in targets
    <3>1. at > i.start /\ at < EndOf(i) /\ i \in Item /\ Footed(i) /\ name[i.id] \in Ids
      BY <1>2, <2>1 DEF Item, EndOf
    <3> QED
      BY <2>1, <3>1, HalvesPlay
  <2> QED
    BY <2>1
<1> HIDE DEF Cut
<1>4. ASSUME NEW t \in Tracks
      PROVE  Shown(t, S(t)) = Shown(t, p[t])
  <2>1. Shown(t, S(t)) = UNION {Shown(t, Cut(i)) : i \in p[t]}
    BY DEF Shown
  <2>2. Shown(t, p[t]) = UNION {Shown(t, {i}) : i \in p[t]}
    BY DEF Shown
  <2>3. \A i \in p[t] : Shown(t, Cut(i)) = Shown(t, {i})
    BY <1>3 DEF Items
  <2>4. {Shown(t, Cut(i)) : i \in p[t]} = {Shown(t, {i}) : i \in p[t]}
    BY <2>3
  <2> QED
    BY <2>1, <2>2, <2>4
<1> HIDE DEF S
<1>5. \A t \in Tracks : q[t] = S(t)
  BY <1>1
<1>6. Footage(q) = UNION {Shown(t, q[t]) : t \in Tracks} /\ Footage(p) = UNION {Shown(t, p[t]) : t \in Tracks}
  BY DEF Footage, Shown
<1> QED
  BY <1>4, <1>5, <1>6

\* A clip that was put back longer or shorter at one end plays more or less.
LEMMA PutBackShows ==
    ASSUME NEW p, WellFormed(p), NEW id, Has(p, id), NEW j, j.id = id,
           NEW q \in Put(p, TrackOf(p, id), j),
           LET i == Find(p, id)  t == TrackOf(p, id)
           IN Shown(t, {i}) \subseteq Shown(t, {j}) \/ Shown(t, {j}) \subseteq Shown(t, {i})
    PROVE  Footage(q) \subseteq Footage(p) \/ Footage(p) \subseteq Footage(q)
<1> DEFINE i == Find(p, id)
           t == TrackOf(p, id)
<1>1. /\ t \in Tracks /\ i \in p[t] /\ Others(p, id) = p[t] \ {i} /\ p \in [Tracks -> SUBSET Item]
  BY Found, ByTrack
<1>2. q = [p EXCEPT ![t] = Others(p, id) \cup {j}]
  BY DEF Put, Refused, Others
<1> DEFINE O == Others(p, id)
<1>0. Shown(t, {i}) \subseteq Shown(t, {j}) \/ Shown(t, {j}) \subseteq Shown(t, {i})
  OBVIOUS
<1> HIDE DEF i, t
<1>3. q[t] = Others(p, id) \cup {j} /\ \A u \in Tracks \ {t} : q[u] = p[u]
  BY <1>1, <1>2
<1>4. p[t] = Others(p, id) \cup {i}
  BY <1>1
<1>5. Shown(t, p[t]) \subseteq Shown(t, q[t]) \/ Shown(t, q[t]) \subseteq Shown(t, p[t])
  <2>1. Shown(t, O \cup {j}) = Shown(t, O) \cup Shown(t, {j})
    BY ShownWith
  <2>2. Shown(t, O \cup {i}) = Shown(t, O) \cup Shown(t, {i})
    BY ShownWith
  <2> QED
    BY <1>0, <1>3, <1>4, <2>1, <2>2
<1>6. CASE Shown(t, p[t]) \subseteq Shown(t, q[t])
  BY <1>1, <1>3, <1>6, ShownByTrack
<1>7. CASE Shown(t, q[t]) \subseteq Shown(t, p[t])
  BY <1>1, <1>3, <1>7, ShownByTrack
<1> QED
  BY <1>5, <1>6, <1>7

\* A trim hides what was shown, or shows more of the source: nothing is shown at another
\* moment than before.
LEMMA TrimShows ==
    ASSUME NEW p, WellFormed(p), NEW id, NEW at \in Nat,
           NEW q \in TrimStart(p, id, at) \cup TrimEnd(p, id, at)
    PROVE  Footage(q) \subseteq Footage(p) \/ Footage(p) \subseteq Footage(q)
<1> DEFINE i == Find(p, id)
           t == TrackOf(p, id)
<1>1. Has(p, id)
  BY DEF TrimStart, TrimEnd, Refused
<1>2. i \in Item /\ i.id = id /\ Footed(i)
  BY <1>1, Found
<1>3. i.start \in Nat /\ i.speed \in Nat /\ i.trim \in Nat /\ EndOf(i) \in Nat /\ i.length \in Nat
  BY <1>2 DEF Item, SpeedRange, EndOf
<1>4. CASE q \in TrimStart(p, id, at)
  <2> DEFINE j == Trimmed(i, at)
  <2>1. /\ i.length - (at - i.start) >= 1 /\ q \in Put(p, t, j)
        /\ HasSource(i) => i.trim + (at - i.start) * i.speed >= 0
    BY <1>4 DEF TrimStart, Refused, Trimmed
  <2>2. /\ j.id = i.id /\ j.kind = i.kind /\ j.start = at /\ EndOf(j) = EndOf(i)
        /\ j.source = i.source /\ j.speed = i.speed /\ j.look = i.look
        /\ HasSource(i) => j.trim = i.trim + (at - i.start) * i.speed
    BY <1>2, <2>1, TrimmedOf
  <2> HIDE DEF j, i, t
  <2>3. HasSource(j) <=> HasSource(i)
    BY <2>2 DEF HasSource
  <2>4. ASSUME HasSource(i)
        PROVE  Plays(t, i) \subseteq Plays(t, j) \/ Plays(t, j) \subseteq Plays(t, i)
    <3> DEFINE P(x) == <<t, x, i.source, i.look, i.trim + (x - i.start) * i.speed>>
    <3>1. Plays(t, i) = {P(x) : x \in i.start .. EndOf(i) - 1}
      BY DEF Plays
    <3>2. Plays(t, j) = {<<t, x, i.source, i.look,
                           i.trim + (at - i.start) * i.speed + (x - at) * i.speed>> :
                             x \in at .. EndOf(i) - 1}
      BY <2>2, <2>4 DEF Plays
    <3>3. \A x \in at .. EndOf(i) - 1 :
            i.trim + (at - i.start) * i.speed + (x - at) * i.speed
              = i.trim + (x - i.start) * i.speed
      <4> SUFFICES ASSUME NEW x \in at .. EndOf(i) - 1
                   PROVE  (at - i.start) * i.speed + (x - at) * i.speed = (x - i.start) * i.speed
        BY <1>3
      <4> QED
        BY <1>3
    <3>4. Plays(t, j) = {P(x) : x \in at .. EndOf(i) - 1}
      BY <3>2, <3>3
    <3> HIDE DEF P
    <3>5. CASE at <= i.start
      <4>1. i.start .. EndOf(i) - 1 \subseteq at .. EndOf(i) - 1
        BY <1>3, <3>5
      <4> QED
        BY <3>1, <3>4, <4>1
    <3>6. CASE i.start <= at
      <4>1. at .. EndOf(i) - 1 \subseteq i.start .. EndOf(i) - 1
        BY <1>3, <3>6
      <4> QED
        BY <3>1, <3>4, <4>1
    <3> QED
      BY <1>3, <3>5, <3>6
  <2>5. Shown(t, {i}) \subseteq Shown(t, {j}) \/ Shown(t, {j}) \subseteq Shown(t, {i})
    BY <2>3, <2>4, ShownOne
  <2>6. j.id = id
    BY <1>2, <2>2
  <2> QED
    BY <1>1, <2>1, <2>5, <2>6, PutBackShows DEF i, t
<1>5. CASE q \in TrimEnd(p, id, at)
  <2> DEFINE n == at - i.start
             j == [i EXCEPT !.length = n]
  <2>1. n >= 1 /\ q \in Put(p, t, j)
    BY <1>5 DEF TrimEnd, Refused
  <2>2. /\ j.id = i.id /\ j.kind = i.kind /\ j.start = i.start /\ j.length = n
        /\ j.source = i.source /\ j.speed = i.speed /\ j.look = i.look /\ j.trim = i.trim
    <3> HIDE DEF n, i
    <3> QED
      BY <1>2 DEF Item
  <2> HIDE DEF j, i, t
  <2>3. HasSource(j) <=> HasSource(i)
    BY <2>2 DEF HasSource
  <2>4. EndOf(j) = at
    BY <1>3, <2>2 DEF EndOf
  <2> DEFINE P(x) == <<t, x, i.source, i.look, i.trim + (x - i.start) * i.speed>>
  <2>5. Plays(t, i) = {P(x) : x \in i.start .. EndOf(i) - 1}
    BY DEF Plays
  <2>6. Plays(t, j) = {P(x) : x \in i.start .. at - 1}
    BY <2>2, <2>4 DEF Plays
  <2> HIDE DEF P
  <2>7. \/ i.start .. EndOf(i) - 1 \subseteq i.start .. at - 1
        \/ i.start .. at - 1 \subseteq i.start .. EndOf(i) - 1
    BY <1>3
  <2>8. Plays(t, i) \subseteq Plays(t, j) \/ Plays(t, j) \subseteq Plays(t, i)
    BY <2>5, <2>6, <2>7
  <2>9. Shown(t, {i}) \subseteq Shown(t, {j}) \/ Shown(t, {j}) \subseteq Shown(t, {i})
    BY <2>3, <2>8, ShownOne
  <2>10. j.id = id
    BY <1>2, <2>2
  <2> QED
    BY <1>1, <2>1, <2>9, <2>10, PutBackShows DEF i, t
<1> QED
  BY <1>4, <1>5

\* Whatever is on a track is found there.
LEMMA FindsIt ==
    ASSUME NEW p, WellFormed(p), NEW t \in Tracks, NEW i \in p[t]
    PROVE  Has(p, i.id) /\ Find(p, i.id) = i /\ TrackOf(p, i.id) = t
<1>1. Has(p, i.id)
  BY DEF Has, Items
<1> QED
  BY <1>1, Found

\* A speed that is set and set back leaves the project as it was.
LEMMA SpeedAndBack ==
    ASSUME NEW p, WellFormed(p), NEW id, NEW speed, NEW q \in SetSpeed(p, id, speed),
           NEW r \in SetSpeed(q, id, Find(p, id).speed)
    PROVE  r = p
<1> DEFINE i == Find(p, id)
           t == TrackOf(p, id)
           O == Others(p, id)
<1>1. Has(p, id) /\ speed \in SpeedRange
  BY DEF SetSpeed, Refused
<1>2. /\ i \in Item /\ i.id = id /\ Footed(i) /\ t \in Tracks /\ i \in p[t] /\ O = p[t] \ {i}
      /\ \A o \in O : o.id # id
      /\ p \in [Tracks -> SUBSET Item]
  BY <1>1, Found, ByTrack
<1>3. PICK n \in 1 .. i.length * i.speed :
        n * speed = i.length * i.speed /\ q \in Put(p, t, Sped(i, speed, n))
  BY DEF SetSpeed, Refused, Sped
<1> DEFINE j == Sped(i, speed, n)
<1>4. /\ j \in Item /\ j.id = id /\ j.length = n /\ j.speed = speed /\ Footed(j)
  BY <1>1, <1>2, <1>3, SpedOf
<1>5. q = [p EXCEPT ![t] = {o \in p[t] : o.id # j.id} \cup {j}]
  BY <1>3 DEF Put, Refused
<1>6. {o \in p[t] : o.id # j.id} = O
  BY <1>4 DEF Others
<1>7. q[t] = O \cup {j} /\ q \in [Tracks -> SUBSET Item]
  BY <1>2, <1>4, <1>5, <1>6
<1>8. WellFormed(q)
  BY SpeedKeeps
<1>9. Find(q, id) = j /\ TrackOf(q, id) = t
  BY <1>2, <1>4, <1>7, <1>8, FindsIt
<1>10. PICK m \in 1 .. j.length * j.speed :
         /\ m * i.speed = j.length * j.speed
         /\ r \in Put(q, t, [j EXCEPT !.speed = i.speed, !.length = m])
  BY <1>9 DEF SetSpeed, Refused
<1>11. m = i.length
  <2>1. m * i.speed = i.length * i.speed
    BY <1>3, <1>4, <1>10
  <2>2. i.speed \in 1 .. 16 /\ i.length \in Nat /\ m \in Nat
    BY <1>2, <1>4, <1>10 DEF Item, SpeedRange
  <2> HIDE DEF i, j
  <2> QED
    BY <2>1, <2>2
<1>12. [j EXCEPT !.speed = i.speed, !.length = i.length] = i
  <2> DEFINE a == i.speed
             b == i.length
             J == [[i EXCEPT !.speed = speed] EXCEPT !.length = n]
             K == [[J EXCEPT !.speed = a] EXCEPT !.length = b]
  <2>1. [j EXCEPT !.speed = i.speed, !.length = i.length] = K
    BY Zenon DEF Sped
  <2>2. K = i
    BY <1>2 DEF Item
  <2> QED
    BY <2>1, <2>2
<1> HIDE DEF j
<1>13. r = [q EXCEPT ![t] = {o \in q[t] : o.id # i.id} \cup {i}]
  BY <1>10, <1>11, <1>12 DEF Put, Refused
<1>14. {o \in q[t] : o.id # i.id} \cup {i} = p[t]
  BY <1>2, <1>4, <1>7
<1> HIDE DEF i, t, O
<1> QED
  BY <1>2, <1>5, <1>13, <1>14

\* Closing the gap of a deleted item keeps the order of the rest, and what lies before it.
LEMMA RippleOrders ==
    ASSUME NEW p, WellFormed(p), NEW id, NEW q \in DeleteItem(p, id, TRUE), NEW u \in Tracks
    PROVE  /\ \A i, j \in q[u] : Before(q, i.id, j.id) <=> Before(p, i.id, j.id)
           /\ {i \in p[u] : EndOf(i) <= Find(p, id).start} \subseteq q[u]
<1> DEFINE gone == Find(p, id)
           t == TrackOf(p, id)
           Closed(i) == ClosedUp(gone, TRUE, i)
<1>1. Has(p, id) /\ q = [p EXCEPT ![t] = {Closed(i) : i \in Others(p, id)}]
  BY DEF DeleteItem, Refused, ClosedUp
<1>2. /\ gone \in Item /\ t \in Tracks /\ gone \in p[t] /\ Others(p, id) = p[t] \ {gone}
      /\ Fine(t, p[t]) /\ p \in [Tracks -> SUBSET Item]
  BY <1>1, Found, ByTrack
<1>3. WellFormed(q)
  BY DeleteKeeps
<1>4. \A i \in q[u] : Find(q, i.id) = i
  BY <1>3, FindsIt
<1>5. \A i \in p[u] : Find(p, i.id) = i
  BY FindsIt
<1>6. CASE u # t
  <2>1. q[u] = p[u]
    BY <1>1, <1>2, <1>6
  <2> QED
    BY <1>4, <1>5, <2>1 DEF Before
<1>7. CASE u = t
  <2>1. q[u] = {Closed(i) : i \in p[u] \ {gone}}
    BY <1>1, <1>2, <1>7
  <2>2. \A i \in p[u] :
          /\ Closed(i) \in Item /\ Closed(i).id = i.id /\ Closed(i).length = i.length
          /\ Closed(i).start = IF i.start >= EndOf(gone) THEN i.start - gone.length ELSE i.start
    <3> SUFFICES ASSUME NEW i \in p[u]
                 PROVE  /\ Closed(i) \in Item /\ Closed(i).id = i.id /\ Closed(i).length = i.length
                        /\ Closed(i).start = IF i.start >= EndOf(gone) THEN i.start - gone.length ELSE i.start
      OBVIOUS
    <3>1. i \in Item /\ TRUE \in BOOLEAN
      BY <1>2, <1>7 DEF Fine
    <3> QED
      BY <1>2, <3>1, ClosedOf
  <2>3. ASSUME NEW i \in p[u] \ {gone}, NEW j \in p[u] \ {gone}
        PROVE  EndOf(Closed(i)) <= Closed(j).start <=> EndOf(i) <= j.start
    <3>1. ~ Overlap(i, gone) /\ ~ Overlap(j, gone) /\ i \in Item /\ j \in Item
      BY <1>2, <1>7 DEF Fine
    <3> HIDE DEF Closed, gone
    <3> QED
      BY <1>2, <2>2, <3>1 DEF Overlap, EndOf, Item
  <2>4. ASSUME NEW i \in q[u], NEW j \in q[u]
        PROVE  Before(q, i.id, j.id) <=> Before(p, i.id, j.id)
    <3>1. PICK a \in p[u] \ {gone} : i = Closed(a)
      BY <2>1
    <3>2. PICK b \in p[u] \ {gone} : j = Closed(b)
      BY <2>1
    <3>3. Find(q, i.id) = i /\ Find(q, j.id) = j /\ Find(p, i.id) = a /\ Find(p, j.id) = b
      BY <1>4, <1>5, <2>2, <3>1, <3>2
    <3> QED
      BY <2>3, <3>1, <3>2, <3>3 DEF Before
  <2>5. ASSUME NEW i \in p[u], EndOf(i) <= gone.start
        PROVE  i \in q[u]
    <3>1. i # gone /\ Closed(i) = i
      BY <1>2, <1>7, <2>5 DEF ClosedUp, EndOf, Item, Fine
    <3> QED
      BY <2>1, <3>1
  <2> QED
    BY <2>4, <2>5
<1> QED
  BY <1>6, <1>7

\* New captions of a stretch replace those in it, and leave those outside it.
LEMMA RecaptionReplaces ==
    ASSUME NEW p, WellFormed(p), NEW from \in Nat, NEW to \in Nat, from < to, NEW t \in Tracks,
           NEW made \in Item, Footed(made), made.kind = Kind[t], made.start = from, EndOf(made) = to,
           NEW q \in ReplaceCaptions(p, from, to, t, {made})
    PROVE  /\ {i \in Items(q) : i.kind = "caption" /\ i.start < to /\ EndOf(i) > from} = {made}
           /\ {i \in Items(p) : EndOf(i) <= from \/ i.start >= to} \subseteq Items(q)
<1> DEFINE k == Kept(p, from, to)
<1>1. /\ Kind[t] = "caption" /\ q = [k EXCEPT ![t] = k[t] \cup {made}]
  BY DEF ReplaceCaptions, Refused, Kept
<1>2. /\ \A u \in Tracks : \A i \in p[u] : i \in Item /\ Kind[u] = i.kind
      /\ \A u \in Tracks : k[u] \subseteq p[u]
  BY ByTrack, KeptOf DEF Fine, Accepts
<1>3. \A u \in Tracks : \A i \in k[u] : i.kind = "caption" => EndOf(i) <= from \/ i.start >= to
  BY <1>2 DEF Kept
<1>4. \A u \in Tracks : \A i \in p[u] : EndOf(i) <= from \/ i.start >= to => i \in k[u]
  BY DEF Kept
<1>5. k \in [Tracks -> SUBSET Item]
  BY KeptOf, ByTrack
<1> HIDE DEF k
<1>6. \A i : i \in Items(q) <=> i = made \/ i \in Items(k)
  <2>1. \A u \in Tracks : q[u] = IF u = t THEN k[t] \cup {made} ELSE k[u]
    BY <1>1, <1>5
  <2> QED
    BY <2>1 DEF Items
<1>7. \A i \in Items(k) : i \in Item /\ (i.kind = "caption" => EndOf(i) <= from \/ i.start >= to)
  BY <1>2, <1>3 DEF Items
<1>8. \A i \in Items(k) : ~ (i.kind = "caption" /\ i.start < to /\ EndOf(i) > from)
  BY <1>7 DEF Item, EndOf
<1>9. made.kind = "caption" /\ made.start < to /\ EndOf(made) > from
  BY <1>1
<1>10. {i \in Items(p) : EndOf(i) <= from \/ i.start >= to} \subseteq Items(k)
  BY <1>4 DEF Items
<1> QED
  BY <1>6, <1>8, <1>9, <1>10

\* The edits of the studio keep the film (module Timeline says of each what that means),
\* from every project they can lead to.
THEOREM FilmIsKept ==
    ASSUME TimelineAssumption
    PROVE  Spec => []EditsKeepTheFilm
<1>1. ASSUME WellFormed(project)
      PROVE  EditsKeepTheFilm
  <2>1. SplitKeepsFootage
    BY <1>1, SplitShowsTheSame, SplitAllShowsTheSame, SplitAllKeeps
       DEF SplitKeepsFootage, Renamings, Moments
  <2>2. TrimKeepsTheRest
    BY <1>1, TrimShows DEF TrimKeepsTheRest, Moments
  <2>3. SpeedCoversTheSource
    BY <1>1, SpeedAndBack DEF SpeedCoversTheSource
  <2>4. RippleKeepsOrder
    BY <1>1, RippleOrders DEF RippleKeepsOrder
  <2>5. RecaptionDoesNotStack
    <3> SUFFICES ASSUME NEW t \in Tracks, NEW from \in Moments, NEW to \in Moments,
                        NEW id \in Ids, NEW look \in Looks, from < to,
                        NEW q \in ReplaceCaptions(project, from, to, t,
                                      {FreshItem(t, id, from, to - from, 0, look)})
                 PROVE  LET made == FreshItem(t, id, from, to - from, 0, look)
                        IN /\ {i \in Items(q) : i.kind = "caption" /\ i.start < to /\ EndOf(i) > from}
                                = {made}
                           /\ {i \in Items(project) : EndOf(i) <= from \/ i.start >= to}
                                \subseteq Items(q)
      BY DEF RecaptionDoesNotStack
    <3> DEFINE made == FreshItem(t, id, from, to - from, 0, look)
    <3>1. from \in Nat /\ to \in Nat /\ to - from \in Nat \ {0} /\ Kind[t] = "caption"
      BY DEF Moments, ReplaceCaptions, Refused
    <3>2. made \in Item /\ Footed(made) /\ made.kind = Kind[t]
      BY <3>1, FreshOf
    <3>3. made.start = from /\ EndOf(made) = to
      BY <3>1 DEF FreshItem, EndOf
    <3> HIDE DEF made
    <3>4. q \in ReplaceCaptions(project, from, to, t, {made})
      BY DEF made
    <3>5. /\ {i \in Items(q) : i.kind = "caption" /\ i.start < to /\ EndOf(i) > from} = {made}
          /\ {i \in Items(project) : EndOf(i) <= from \/ i.start >= to} \subseteq Items(q)
      BY <1>1, <3>1, <3>2, <3>3, <3>4, RecaptionReplaces
    <3> QED
      BY <3>5 DEF made
  <2> QED
    BY <1>1, <2>1, <2>2, <2>3, <2>4, <2>5 DEF EditsKeepTheFilm, StaysWellFormed
<1>2. Spec => []StaysWellFormed
  BY FilmStaysWellFormed
<1>3. StaysWellFormed => EditsKeepTheFilm
  BY <1>1 DEF StaysWellFormed
<1> QED
  BY <1>2, <1>3, PTL

-----------------------------------------------------------------------------
(* The files of the studio (media).                                           *)

\* While the studio is open, a link that is not being asked for outlives the timer.
Outlives ==
    \A f \in media_assets : media_mounted /\ f \notin media_missed /\ (\A q \in media_fetches : f \notin q)
      => media_left[f] > media_timer

\* A file is new until it is confirmed, and joins the project after that.
UploadIsNew ==
    media_uploading # media!NoUpload =>
      IF media_uploading.step = "probing" THEN media_uploading.file \in media_stored \ media_assets ELSE media_uploading.file \notin media_stored

\* What holds throughout of the files and their links.
MediaInv ==
    /\ media!TypeOK /\ Outlives /\ UploadIsNew
    /\ media_assets \subseteq media_stored /\ media_known \subseteq media_assets
       /\ \A q \in media_fetches : q \subseteq media_assets

-----------------------------------------------------------------------------
\* A set of files has the same size everywhere.
LEMMA FilesCount == \A S : media!Cardinality(S) = Cardinality(S)
BY Zenon DEF media!Cardinality, Cardinality

\* An upload is a file and a step.
LEMMA UploadIs ==
    /\ media!NoUpload.step = "none"
    /\ \A f \in Files, s \in media!Steps : /\ [file |-> f, step |-> s] \in [file : Files, step : media!Steps]
                                           /\ [file |-> f, step |-> s].file = f
                                              /\ [file |-> f, step |-> s].step = s
    /\ \A u \in [file : Files, step : media!Steps], s \in media!Steps :
         /\ [u EXCEPT !.step = s] \in [file : Files, step : media!Steps]
         /\ [u EXCEPT !.step = s].file = u.file /\ [u EXCEPT !.step = s].step = s
         /\ u # media!NoUpload
<1>1. media!NoUpload.step = "none" /\ "none" \notin media!Steps  BY DEF media!NoUpload, media!Steps
<1>2. \A u \in [file : Files, step : media!Steps] : u.step \in media!Steps  OBVIOUS
<1>. QED  BY <1>1, <1>2

\* The upload goes from step to step.
LEMMA UploadKeeps ==
    ASSUME MediaAssumption, MediaInv,
           (\E f \in Files : media!Pick(f)) \/ media!Slot \/ media!Sent \/ media!Confirmed
             \/ media!UploadFails
    PROVE  MediaInv'
<1>0. UNCHANGED <<media_mounted, media_assets, media_left, media_known, media_timer, media_fetches,
                  media_fails, media_missed>>
  <2>1. \A f : media!Pick(f) => UNCHANGED <<media_mounted, media_assets, media_left, media_known,
                                            media_timer, media_fetches, media_fails, media_missed>>
        BY DEF media!Pick
  <2>. QED  BY <2>1 DEF media!Slot, media!Sent, media!Confirmed, media!UploadFails, media!Advance
<1>1. media_uploading = media!NoUpload \/ media_uploading \in [file : Files, step : media!Steps]
      BY DEF MediaInv, media!TypeOK
<1>2. /\ media_uploading' = media!NoUpload \/ media_uploading' \in [file : Files, step : media!Steps]
      /\ media_stored \subseteq media_stored' /\ media_stored' \subseteq Files /\ UploadIsNew'
  <2>1. ASSUME NEW f \in Files, media!Pick(f)
        PROVE  media_uploading' \in [file : Files, step : media!Steps] /\ media_stored' = media_stored
          /\ UploadIsNew'
    <3>1. media_uploading' = [file |-> f, step |-> "slot"] /\ f \notin media_stored
          /\ media_stored' = media_stored /\ "slot" \in media!Steps
          BY <2>1 DEF media!Pick, media!Steps
    <3>. QED  BY <3>1, UploadIs DEF UploadIsNew
  <2>2. ASSUME NEW s \in media!Steps, NEW t \in media!Steps, media!Advance(s, t), s # "probing",
               IF t = "probing" THEN media_stored' = media_stored \cup {media_uploading.file} ELSE media_stored' = media_stored
        PROVE  /\ media_uploading' \in [file : Files, step : media!Steps]
               /\ media_stored \subseteq media_stored' /\ media_stored' \subseteq Files /\ UploadIsNew'
    <3>1. media_uploading.step = s /\ media_uploading' = [media_uploading EXCEPT !.step = t]
          /\ media_assets' = media_assets
          BY <2>2 DEF media!Advance
    <3>2. media_uploading \in [file : Files, step : media!Steps]  BY <1>1, <3>1, UploadIs DEF media!Steps
    <3>3. media_uploading' \in [file : Files, step : media!Steps]
          /\ media_uploading'.file = media_uploading.file /\ media_uploading'.step = t
          BY <3>1, <3>2, UploadIs
    <3>4. media_uploading.file \notin media_stored /\ media_uploading.file \in Files
          BY <2>2, <3>1, <3>2, UploadIs DEF MediaInv, UploadIsNew
    <3>5. media_stored \subseteq Files /\ media_assets \subseteq media_stored  BY DEF MediaInv, media!TypeOK
    <3>. QED  BY <2>2, <3>1, <3>3, <3>4, <3>5 DEF UploadIsNew
  <2>3. media_stored \subseteq Files  BY DEF MediaInv, media!TypeOK
  <2>4. CASE media!Slot  BY <2>2, <2>4 DEF media!Slot, media!Steps
  <2>5. CASE media!Sent  BY <2>2, <2>5 DEF media!Sent, media!Steps
  <2>6. CASE media!Confirmed
    <3>1. media!Advance("confirming", "probing") /\ media_stored' = media_stored \cup {media_uploading.file}
          BY <2>6 DEF media!Confirmed
    <3>2. "confirming" \in media!Steps /\ "probing" \in media!Steps  BY DEF media!Steps
    <3>. QED  BY <2>2, <3>1, <3>2
  <2>7. CASE media!UploadFails  BY <2>3, <2>7 DEF media!UploadFails, UploadIsNew
  <2>. QED  BY <2>1, <2>3, <2>4, <2>5, <2>6, <2>7
<1>3. Outlives'  BY <1>0 DEF MediaInv, Outlives
<1>4. media!TypeOK'  BY <1>0, <1>2 DEF MediaInv, media!TypeOK
<1>. QED  BY <1>0, <1>2, <1>3, <1>4 DEF MediaInv

\* What is asked for.
LEMMA AskingIs ==
    ASSUME NEW S, NEW T, media_fetches \subseteq SUBSET T, S \subseteq T
    PROVE  /\ media!Asking(S) \subseteq SUBSET T /\ media_fetches \subseteq media!Asking(S)
           /\ \A f \in S : \E q \in media!Asking(S) : f \in q
           /\ \A q \in media!Asking(S) : q = S \/ q \in media_fetches
BY DEF media!Asking

\* Links are asked for, and the studio is left.
LEMMA FetchesKeep ==
    ASSUME MediaAssumption, MediaInv, media!Added \/ media!Mount \/ media!Unmount \/ media!Refresh
    PROVE  MediaInv'
<1>0. /\ media_uploading = media!NoUpload \/ media_uploading \in [file : Files, step : media!Steps]
      /\ media_assets \subseteq media_stored /\ media_stored \subseteq Files
         /\ media_known \subseteq media_assets
      /\ media_fetches \subseteq SUBSET media_assets /\ Period \in Nat /\ media_timer \in 0 .. Period
      BY DEF MediaInv, media!TypeOK, MediaAssumption
<1>1. CASE media!Added
  <2>1. /\ media_uploading.step = "probing" /\ media_uploading' = media!NoUpload
           /\ media_assets' = media_assets \cup {media_uploading.file}
        /\ media_fetches' = (IF media_mounted THEN media!Asking(media_assets' \ media_known) ELSE media_fetches)
        /\ UNCHANGED <<media_mounted, media_stored, media_left, media_known, media_timer, media_fails,
                       media_missed>>
        BY <1>1 DEF media!Added
  <2>2. media_uploading \in [file : Files, step : media!Steps]
        /\ media_uploading.file \in media_stored \ media_assets
        BY <1>0, <2>1, UploadIs DEF MediaInv, UploadIsNew
  <2>3. media_assets' \subseteq media_stored /\ media_assets' \subseteq Files
        /\ media_known \subseteq media_assets'
        BY <1>0, <2>1, <2>2
  <2>4. media_fetches' \subseteq SUBSET media_assets'  BY <1>0, <2>1, <2>3, AskingIs
  <2>5. Outlives'
    <3>. SUFFICES ASSUME NEW f \in media_assets', media_mounted, f \notin media_missed,
                         \A q \in media_fetches' : f \notin q
                  PROVE  media_left[f] > media_timer
         BY <2>1 DEF Outlives
    <3>1. media_fetches \subseteq SUBSET media_assets' /\ media_assets' \ media_known \subseteq media_assets'
          BY <1>0, <2>1
    <3>2. media_fetches' = media!Asking(media_assets' \ media_known)  BY <2>1
    <3>3. media_fetches \subseteq media_fetches'
          /\ \A g \in media_assets' \ media_known : \E q \in media_fetches' : g \in q
          BY <3>2 DEF media!Asking
    <3>4. f \in media_known /\ \A q \in media_fetches : f \notin q  BY <3>3
    <3>. QED  BY <1>0, <3>4 DEF MediaInv, Outlives
  <2>6. media!TypeOK'  BY <2>1, <2>3, <2>4 DEF MediaInv, media!TypeOK
  <2>. QED  BY <2>1, <2>3, <2>4, <2>5, <2>6 DEF MediaInv, UploadIsNew
<1>2. CASE media!Mount \/ media!Refresh
  <2>1. /\ media_fetches' = media!Asking(media_assets) /\ media_timer' = Period /\ media_mounted' = TRUE
        /\ UNCHANGED <<media_uploading, media_stored, media_assets, media_left, media_known, media_fails,
                       media_missed>>
        BY <1>2 DEF media!Mount, media!Refresh, MediaInv, media!TypeOK
  <2>2. media_fetches' \subseteq SUBSET media_assets
        /\ \A f \in media_assets : \E q \in media_fetches' : f \in q
        BY <1>0, <2>1, AskingIs
  <2>3. Outlives'  BY <2>1, <2>2 DEF Outlives
  <2>4. media_fetches' \subseteq SUBSET Files /\ media_timer' \in 0 .. Period  BY <1>0, <2>1, <2>2
  <2>5. media!TypeOK'  BY <2>1, <2>4 DEF MediaInv, media!TypeOK
  <2>. QED  BY <1>0, <2>1, <2>2, <2>3, <2>5 DEF MediaInv, UploadIsNew
<1>3. CASE media!Unmount
  <2>1. media_mounted' = FALSE /\ media_fetches' = {}
        /\ UNCHANGED <<media_uploading, media_stored, media_assets, media_left, media_known, media_timer,
                       media_fails, media_missed>>
        BY <1>3 DEF media!Unmount
  <2>. QED  BY <2>1 DEF MediaInv, media!TypeOK, Outlives, UploadIsNew
<1>. QED  BY <1>1, <1>2, <1>3

\* Answers, and time.
LEMMA LinksKeep ==
    ASSUME MediaAssumption, MediaInv,
           media!Tick \/ (\E q \in media_fetches : media!Resolved(q) \/ media!Unresolved(q))
             \/ UNCHANGED media!vars
    PROVE  MediaInv'
<1>0. /\ media_assets \subseteq Files /\ media_known \subseteq media_assets /\ media_missed \subseteq Files
      /\ media_fetches \subseteq SUBSET media_assets /\ media_left \in [Files -> 0 .. Life]
         /\ media_timer \in 0 .. Period
      /\ Period \in Nat /\ Life \in Nat /\ Period < Life
      BY DEF MediaInv, media!TypeOK, MediaAssumption
<1>1. CASE UNCHANGED media!vars  BY <1>1 DEF media!vars, MediaInv, media!TypeOK, Outlives, UploadIsNew
<1>2. ASSUME NEW q \in media_fetches, media!Resolved(q) PROVE MediaInv'
  <2>1. Cardinality(q) <= AtOnce
    <3>1. q \subseteq Files /\ IsFiniteSet(Files) /\ Cardinality(Files) <= AtOnce /\ AtOnce \in Nat
          BY <1>0 DEF MediaAssumption
    <3>2. IsFiniteSet(q) /\ Cardinality(q) <= Cardinality(Files)  BY <3>1, FS_Subset
    <3>3. Cardinality(q) \in Nat /\ Cardinality(Files) \in Nat  BY <3>1, <3>2, FS_CardinalityType
    <3>. QED  BY <3>1, <3>2, <3>3
  <2>2. /\ media_fetches' = media_fetches \ {q} /\ media_known' = media_known \cup q
           /\ media_missed' = media_missed \ q
        /\ media_left' = [f \in Files |-> IF f \in q THEN Life ELSE media_left[f]]
        /\ UNCHANGED <<media_mounted, media_uploading, media_stored, media_assets, media_timer, media_fails>>
        BY <1>2, <2>1, FilesCount DEF media!Resolved
  <2>3. media_left' \in [Files -> 0 .. Life]
    <3>1. Life \in 0 .. Life  BY <1>0
    <3>. QED  BY <1>0, <2>2, <3>1
  <2>4. Outlives'
    <3>. SUFFICES ASSUME NEW f \in media_assets, media_mounted, f \notin media_missed',
                         \A p \in media_fetches' : f \notin p
                  PROVE  media_left'[f] > media_timer
         BY <2>2 DEF Outlives
    <3>1. CASE f \in q
      <4>1. media_left'[f] = Life  BY <1>0, <2>2, <3>1
      <4>. QED  BY <1>0, <4>1
    <3>2. CASE f \notin q
      <4>1. media_left'[f] = media_left[f] /\ f \notin media_missed /\ \A p \in media_fetches : f \notin p
            BY <1>0, <2>2, <3>2
      <4>. QED  BY <4>1 DEF MediaInv, Outlives
    <3>. QED  BY <3>1, <3>2
  <2>5. media!TypeOK'  BY <1>0, <2>2, <2>3 DEF MediaInv, media!TypeOK
  <2>. QED  BY <1>0, <2>2, <2>4, <2>5 DEF MediaInv, UploadIsNew
<1>3. ASSUME NEW q \in media_fetches, media!Unresolved(q) PROVE MediaInv'
  <2>1. /\ media_fetches' = media_fetches \ {q} /\ media_missed' = media_missed \cup q
           /\ media_fails < MaxFails /\ media_fails' = media_fails + 1
        /\ UNCHANGED <<media_mounted, media_uploading, media_stored, media_assets, media_left, media_known,
                       media_timer>>
        BY <1>3 DEF media!Unresolved
  <2>2. Outlives'
    <3>. SUFFICES ASSUME NEW f \in media_assets, media_mounted, f \notin media_missed',
                         \A p \in media_fetches' : f \notin p
                  PROVE  media_left[f] > media_timer
         BY <2>1 DEF Outlives
    <3>1. f \notin media_missed /\ \A p \in media_fetches : f \notin p  BY <2>1
    <3>. QED  BY <3>1 DEF MediaInv, Outlives
  <2>3. media_fails' \in 0 .. MaxFails
    <3>1. media_fails \in 0 .. MaxFails /\ MaxFails \in Nat  BY DEF MediaInv, media!TypeOK, MediaAssumption
    <3>. QED  BY <2>1, <3>1
  <2>4. media!TypeOK'  BY <1>0, <2>1, <2>3 DEF MediaInv, media!TypeOK
  <2>. QED  BY <1>0, <2>1, <2>2, <2>4 DEF MediaInv, UploadIsNew
<1>4. CASE media!Tick
  <2>1. /\ media_fetches = {} /\ (media_mounted => media_timer > 0)
        /\ media_left' = [f \in Files |-> IF media_left[f] > 0 THEN media_left[f] - 1 ELSE 0]
        /\ media_timer' = (IF media_mounted THEN media_timer - 1 ELSE media_timer)
        /\ UNCHANGED <<media_mounted, media_uploading, media_stored, media_assets, media_known,
                       media_fetches, media_fails, media_missed>>
        BY <1>4 DEF media!Tick
  <2>2. \A f \in Files : media_left[f] \in 0 .. Life
        /\ media_left'[f] = IF media_left[f] > 0 THEN media_left[f] - 1 ELSE 0
        BY <1>0, <2>1
  <2>3. media_left' \in [Files -> 0 .. Life] /\ media_timer' \in 0 .. Period
    <3>1. \A f \in Files : (IF media_left[f] > 0 THEN media_left[f] - 1 ELSE 0) \in 0 .. Life  BY <1>0, <2>2
    <3>. QED  BY <1>0, <2>1, <3>1
  <2>4. Outlives'
    <3>. SUFFICES ASSUME NEW f \in media_assets, media_mounted, f \notin media_missed
                  PROVE media_left'[f] > media_timer'
         BY <2>1 DEF Outlives
    <3>1. media_left[f] > media_timer  BY <2>1 DEF MediaInv, Outlives
    <3>. QED  BY <1>0, <2>1, <2>2, <3>1
  <2>5. media!TypeOK'  BY <2>1, <2>3 DEF MediaInv, media!TypeOK
  <2>. QED  BY <2>1, <2>4, <2>5 DEF MediaInv, UploadIsNew
<1>. QED  BY <1>1, <1>2, <1>3, <1>4

\* Every step keeps the links alive.
LEMMA MediaKeeps == ASSUME MediaAssumption, MediaInv, [media!Next]_(media!vars) PROVE MediaInv'
BY UploadKeeps, FetchesKeep, LinksKeep DEF media!Next

\* It holds when the studio is opened.
LEMMA MediaStarts == ASSUME MediaAssumption, media!Init PROVE MediaInv
<1>1. /\ Period \in 0 .. Period /\ 0 \in 0 .. Life /\ 0 \in 0 .. MaxFails  BY DEF MediaAssumption
<1>2. media_left = [f \in Files |-> 0]  BY DEF media!Init
<1>3. media_left \in [Files -> 0 .. Life]  BY <1>1, <1>2
<1>. QED  BY <1>1, <1>3 DEF media!Init, MediaInv, media!TypeOK, Outlives, UploadIsNew

\* What it promises: a link that outlives the timer is alive.
LEMMA MediaPromises == ASSUME MediaAssumption, MediaInv PROVE media!LinksStayAlive /\ media!AssetsAreStored
<1>1. \A f \in media_assets : media_left[f] > media_timer => media_left[f] > 0
  <2>1. media_left \in [Files -> 0 .. Life] /\ media_timer \in 0 .. Period /\ Period \in Nat /\ Life \in Nat
        /\ media_assets \subseteq Files
        BY DEF MediaInv, media!TypeOK, MediaAssumption
  <2>. QED  BY <2>1
<1>. QED  BY <1>1 DEF MediaInv, Outlives, media!LinksStayAlive, media!AssetsAreStored

-----------------------------------------------------------------------------
(* The time fields of the schedule form (clock).                              *)

\* Zones and times stay within reach.
LEMMA ZoneKeeps == ASSUME clock!TypeOK, [clock!Next]_<<clock_zone, clock_local>> PROVE clock!TypeOK'
BY DEF clock!TypeOK, clock!Next, clock!SetZone, clock!SetLocal

\* They are when the page is opened.
LEMMA ClockStarts == ASSUME ClockAssumption, clock!Init PROVE clock!TypeOK
<1>1. Reach \in Nat  BY DEF ClockAssumption
<1>2. 0 \in -Reach .. Reach  BY <1>1
<1>. QED  BY <1>2 DEF clock!TypeOK, clock!Init, clock!Zones

\* When a clock shows a time, the time is turned into an instant at which it does.
LEMMA ClockReadsBack == ASSUME ClockAssumption, clock!TypeOK
    PROVE clock!ReadsBack /\ clock!SkippedIsTheLaterEast
<1>. DEFINE b == clock_zone.before
            c == clock_zone.before + clock_zone.shift
<1>1. /\ Reach \in Int /\ 0 <= Reach /\ clock_local \in Int /\ -Reach <= clock_local /\ clock_local <= Reach
      /\ clock_zone.before \in Int /\ clock_zone.shift \in Int
      /\ -2 * Reach <= b /\ b <= 2 * Reach /\ -2 * Reach <= c /\ c <= 2 * Reach
  <2>1. clock_zone.before \in Offsets /\ clock_zone.shift \in Shifts /\ clock_local \in -Reach .. Reach
        /\ Reach \in Nat
        BY DEF clock!TypeOK, clock!Zones, ClockAssumption
  <2>2. Reach \in Int /\ 0 <= Reach /\ clock_local \in Int /\ -Reach <= clock_local /\ clock_local <= Reach
        BY <2>1
  <2>3. clock_zone.before \in Int /\ clock_zone.shift \in Int  BY <2>1 DEF ClockAssumption
  <2>4. -2 * Reach <= b /\ b <= 2 * Reach /\ -2 * Reach <= c /\ c <= 2 * Reach
        BY <2>1 DEF ClockAssumption
  <2>. QED  BY <2>2, <2>3, <2>4
<1>2. \A i \in Int : clock!Offset(clock_zone, i) = IF i < 0 THEN b ELSE c  BY DEF clock!Offset
<1>. HIDE DEF b, c
<1>3. b \in Int /\ c \in Int  BY <1>1 DEF b, c
<1>4. \A i \in Int : i \in clock!Readings(clock_local, clock_zone) <=>
        /\ -3 * Reach <= i /\ i <= 3 * Reach
        /\ (i < 0 /\ i + b = clock_local) \/ (i >= 0 /\ i + c = clock_local)
  <2>. TAKE i \in Int
  <2>1. i \in clock!Instants <=> -3 * Reach <= i /\ i <= 3 * Reach  BY <1>1 DEF clock!Instants
  <2>. QED  BY <1>2, <1>3, <2>1 DEF clock!Readings, clock!Shows
<1>5. /\ clock_local < 0 /\ clock_local - b < 0 => clock!ToUtc(clock_local, clock_zone) = clock_local - b
      /\ clock_local < 0 /\ clock_local - b >= 0 => clock!ToUtc(clock_local, clock_zone) = clock_local - c
      /\ clock_local >= 0 /\ clock_local - c < 0 => clock!ToUtc(clock_local, clock_zone) = clock_local - b
      /\ clock_local >= 0 /\ clock_local - c >= 0 => clock!ToUtc(clock_local, clock_zone) = clock_local - c
  <2>1. clock_local - b \in Int /\ clock_local - c \in Int  BY <1>1, <1>3
  <2>. QED  BY <1>1, <1>2, <1>3, <2>1 DEF clock!ToUtc
<1>6. \A i \in clock!Readings(clock_local, clock_zone) : i \in Int  BY <1>1 DEF clock!Readings, clock!Instants
<1>7. /\ clock_local - b < 0 => clock_local - b \in clock!Readings(clock_local, clock_zone)
      /\ clock_local - c >= 0 => clock_local - c \in clock!Readings(clock_local, clock_zone)
  <2>1. clock_local - b \in Int /\ clock_local - c \in Int  BY <1>1, <1>3
  <2>. QED  BY <1>1, <1>3, <1>4, <2>1
<1>8. clock!ReadsBack
  <2>. SUFFICES ASSUME NEW i \in clock!Readings(clock_local, clock_zone)
                PROVE clock!ToUtc(clock_local, clock_zone) \in clock!Readings(clock_local, clock_zone)
       BY DEF clock!ReadsBack
  <2>1. (i < 0 /\ i = clock_local - b) \/ (i >= 0 /\ i = clock_local - c)  BY <1>1, <1>3, <1>4, <1>6
  <2>2. clock_local - b \in Int /\ clock_local - c \in Int  BY <1>1, <1>3
  <2>. QED  BY <1>7, <1>1, <1>3, <1>5, <2>1, <2>2
<1>9. clock!SkippedIsTheLaterEast
  <2>. SUFFICES ASSUME clock_zone.before >= 0, clock!Readings(clock_local, clock_zone) = {}
                PROVE clock!ToUtc(clock_local, clock_zone) = clock_local - b
       BY DEF clock!SkippedIsTheLaterEast, b
  <2>1. clock_local - b \in Int /\ clock_local - c \in Int  BY <1>1, <1>3
  <2>2. ~ (clock_local - b < 0) /\ ~ (clock_local - c >= 0)  BY <1>7
  <2>3. b >= 0  BY DEF b
  <2>. QED  BY <1>1, <1>3, <1>5, <2>1, <2>2, <2>3
<1>. QED  BY <1>8, <1>9

-----------------------------------------------------------------------------
(* The live avatar flow and its groups of files (pack).                       *)

\* How many files each slot holds.
Filling == [Slots -> 0 .. MaxFiles]

\* The uploads the server has not done yet.
UnderWay == {t \in pack_tasks : t.what = "upload" /\ ~ t.done}

\* Every slot that is filled at the server is filled in a copy.
Covers(base, id) == \A s \in Slots : pack_stored[id].slots[s] # 0 => base[s] # 0

\* The uploads step or the group page is on screen.
Shows == pack_page = "group" \/ (pack_page = "flow" /\ pack_step = 1 /\ pack_group # pack!NoCopy)

\* No file more than the bound is under way, and the groups are what they are.
GroupsInv ==
    /\ pack_stored \in [Groups -> [slots : Filling, consent : [Slots -> BOOLEAN]]]
    /\ IsFiniteSet(pack_tasks) /\ pack_files + Cardinality(UnderWay) <= MaxFiles
    /\ \A g \in Groups : pack_listing[g] \in pack!Copies /\ pack_listing[g].id = g
    /\ pack_group = pack!NoCopy \/ pack_group.id \in Groups
    /\ pack_mine = pack!NoView \/ pack_mine.id \in Groups

\* Continue is pressed on a step that has a next.
FlowStepsInv ==
    /\ pack_continuing => pack_step <= pack!Last
    /\ pack_jumped \/ (pack_step <= pack!Last /\ (pack_continuing => pack_step < pack!Last))

\* The uploads step is left with its copy and its tasks; the group page stays what it is.
UploadsInv ==
    /\ pack_page = "flow" /\ pack_step # 1 => pack_mine = pack!NoView /\ \A t \in pack_tasks : ~ t.here
    /\ pack_page = "flow" /\ pack_group = pack!NoCopy => pack_tasks = {}
    /\ pack_page = "group" => pack_mine # pack!NoView /\ pack_group = pack!NoCopy
       /\ \A t \in pack_tasks : t.here /\ t.id = pack_mine.id

\* A screen that is not misled has one task at a time, and its copy covers what the server
\* holds until an upload has landed that it has not read back.
Sighted ==
    /\ \A t, u \in pack_tasks : t = u
    /\ \A t \in pack_tasks : t.what = "upload" /\ ~ t.done => Covers(t.base, t.id)
    /\ pack_page = "flow" /\ pack_step = 1 => \A t \in pack_tasks : t.here /\ t.id = pack_group.id
    /\ pack_page = "flow" /\ pack_mine # pack!NoView => pack_mine.id = pack_group.id
    /\ Shows /\ (\A t \in pack_tasks : ~ (t.what = "upload" /\ t.done)) => Covers(pack!Held, pack!Here.id)

\* What holds throughout of the flow.
PackInv ==
    /\ pack!TypeOK /\ GroupsInv /\ FlowStepsInv /\ UploadsInv /\ (pack_misled \/ Sighted)
    /\ pack!CopyIsOfTheGroupPicked

-----------------------------------------------------------------------------
\* A set of tasks has the same size everywhere.
LEMMA TasksCount == \A S : pack!Cardinality(S) = Cardinality(S)
BY Zenon DEF pack!Cardinality, Cardinality

\* The marks of none differ from every copy and view of a group.
LEMMA MarksAre ==
    ASSUME PackAssumption, GroupsInv
    PROVE  /\ pack!NoCopy.id = pack!None /\ pack!NoView.id = pack!None
           /\ \A g \in Groups : /\ pack!Copy(g) # pack!NoCopy /\ pack!Copy(g).id = g
                                   /\ pack!Copy(g).slots = pack_stored[g].slots
                                /\ pack!Copy(g) \in pack!Copies
                                /\ pack!View(g) # pack!NoView /\ pack!View(g).id = g
                                   /\ pack!View(g).slots = pack_stored[g].slots
                                /\ pack!View(g) \in [id : Groups \cup {pack!None}, slots : Filling,
                                      consent : [Slots -> BOOLEAN]]
                                /\ pack_stored[g].slots \in Filling
                                   /\ pack_stored[g].consent \in [Slots -> BOOLEAN]
                                /\ pack_listing[g] # pack!NoCopy
           /\ MaxFiles \in Nat /\ "voice" \in Slots /\ "face" \in Slots
<1>1. pack!NoCopy.id = pack!None /\ pack!NoView.id = pack!None  BY DEF pack!NoCopy, pack!NoView
<1>2. \A g \in Groups : g # pack!None /\ pack_stored[g].slots \in Filling
      /\ pack_stored[g].consent \in [Slots -> BOOLEAN]
      BY DEF PackAssumption, GroupsInv
<1>3. \A g \in Groups : /\ pack!Copy(g).id = g /\ pack!Copy(g).slots = pack_stored[g].slots
                        /\ pack!View(g).id = g /\ pack!View(g).slots = pack_stored[g].slots
                           /\ pack_listing[g].id = g
      BY DEF pack!Copy, pack!View, GroupsInv
<1>4. \A g \in Groups : pack!Copy(g) # pack!NoCopy /\ pack!View(g) # pack!NoView
      /\ pack_listing[g] # pack!NoCopy
      BY <1>1, <1>2, <1>3
<1>5. \A g \in Groups : /\ pack!Copy(g) \in pack!Copies
                        /\ pack!View(g) \in [id : Groups \cup {pack!None}, slots : Filling,
                              consent : [Slots -> BOOLEAN]]
      BY <1>2 DEF pack!Copy, pack!Copies, pack!View, Filling
<1>. QED  BY <1>1, <1>2, <1>3, <1>4, <1>5 DEF PackAssumption

\* Leaving the uploads step does not make tasks more.
LEMMA LeftTasks ==
    ASSUME PackAssumption, PackInv, NEW L, L = {[t EXCEPT !.here = FALSE] : t \in pack_tasks}
    PROVE  /\ L \subseteq pack!Tasks /\ IsFiniteSet(L)
           /\ pack_files + Cardinality({t \in L : t.what = "upload" /\ ~ t.done}) <= MaxFiles
           /\ \A c \in L : ~ c.here
           /\ \A c \in L : \E t \in pack_tasks : /\ c = [t EXCEPT !.here = FALSE]
                                                 /\ c.what = t.what /\ c.done = t.done /\ c.base = t.base
                                                    /\ c.id = t.id
           /\ pack_tasks = {} => L = {}
<1>. DEFINE P == {t \in L : t.what = "upload" /\ ~ t.done}
            f == [t \in pack_tasks |-> [t EXCEPT !.here = FALSE]]
            g == [t \in UnderWay |-> [t EXCEPT !.here = FALSE]]
<1>1. pack_tasks \subseteq pack!Tasks /\ IsFiniteSet(pack_tasks)
      /\ pack_files + Cardinality(UnderWay) <= MaxFiles
      /\ pack_files \in Nat /\ MaxFiles \in Nat
      BY DEF PackInv, pack!TypeOK, GroupsInv, PackAssumption
<1>2. \A t \in pack!Tasks : LET c == [t EXCEPT !.here = FALSE]
                            IN c \in pack!Tasks /\ ~ c.here /\ c.what = t.what /\ c.done = t.done
                              /\ c.base = t.base /\ c.id = t.id
      BY DEF pack!Tasks
<1>3. IsFiniteSet(UnderWay) /\ UnderWay \subseteq pack_tasks  BY <1>1, FS_Subset DEF UnderWay
<1>4. f \in Surjection(pack_tasks, L)
  <2>1. f \in [pack_tasks -> L] /\ \A c \in L : \E t \in pack_tasks : f[t] = c  OBVIOUS
  <2>. HIDE DEF f
  <2>. QED  BY <2>1 DEF Surjection
<1>5. IsFiniteSet(L)  BY <1>1, <1>4, FS_Surjection
<1>6. g \in Surjection(UnderWay, P)
  <2>1. \A t \in UnderWay : g[t] \in P  BY <1>1, <1>2 DEF UnderWay
  <2>2. g \in [UnderWay -> P]  BY <2>1
  <2>3. \A c \in P : \E t \in UnderWay : g[t] = c
    <3>. SUFFICES ASSUME NEW c \in P PROVE \E t \in UnderWay : g[t] = c  OBVIOUS
    <3>1. PICK t \in pack_tasks : c = [t EXCEPT !.here = FALSE]  OBVIOUS
    <3>2. c.what = t.what /\ c.done = t.done  BY <1>1, <1>2, <3>1
    <3>. QED  BY <3>1, <3>2 DEF UnderWay
  <2>. HIDE DEF g
  <2>. QED  BY <2>2, <2>3 DEF Surjection
<1>. HIDE DEF P
<1>7. IsFiniteSet(P) /\ Cardinality(P) <= Cardinality(UnderWay)  BY <1>3, <1>6, FS_Surjection
<1>8. Cardinality(P) \in Nat /\ Cardinality(UnderWay) \in Nat  BY <1>3, <1>7, FS_CardinalityType
<1>9. pack_files + Cardinality(P) <= MaxFiles  BY <1>1, <1>7, <1>8
<1>10. \A c \in L : \E t \in pack_tasks : /\ c = [t EXCEPT !.here = FALSE] /\ c \in pack!Tasks /\ ~ c.here
                                          /\ c.what = t.what /\ c.done = t.done /\ c.base = t.base
                                             /\ c.id = t.id
  <2>. SUFFICES ASSUME NEW c \in L
                PROVE  \E t \in pack_tasks : /\ c = [t EXCEPT !.here = FALSE] /\ c \in pack!Tasks /\ ~ c.here
                                             /\ c.what = t.what /\ c.done = t.done /\ c.base = t.base
                                                /\ c.id = t.id
      OBVIOUS
  <2>1. PICK t \in pack_tasks : c = [t EXCEPT !.here = FALSE]  OBVIOUS
  <2>2. t \in pack!Tasks  BY <1>1
  <2>. QED  BY <1>2, <2>1, <2>2
<1>11. pack_tasks = {} => L = {}  OBVIOUS
<1>. QED  BY <1>5, <1>9, <1>10, <1>11 DEF P

\* A step of the flow: to another step of the group that was picked, or to the uploads of
\* the group of the address.
LEMMA GoToKeeps ==
    ASSUME PackAssumption, PackInv, pack_page = "flow", NEW n \in 0 .. pack!Last + 1, NEW odd \in BOOLEAN,
           pack!GoTo(n, odd),
           UNCHANGED <<pack_page, pack_stored, pack_files>>,
           \/ pack_group' = pack_group
           \/ n = 1 /\ \E g \in Groups : pack_group' = pack!Copy(g)
              /\ (pack_group # pack!NoCopy => odd \/ pack_group.id = g)
    PROVE  /\ pack_step' = n /\ pack_tasks' \subseteq pack!Tasks /\ pack_misled' \in BOOLEAN
              /\ (pack_misled => pack_misled') /\ (odd => pack_misled')
           /\ pack_mine' \in [id : Groups \cup {pack!None}, slots : Filling, consent : [Slots -> BOOLEAN]]
           /\ GroupsInv' /\ UploadsInv' /\ (pack_misled' \/ Sighted')
<1>. DEFINE L == {[t EXCEPT !.here = FALSE] : t \in pack_tasks}
<1>1. /\ pack_step' = n
      /\ pack_mine' = (IF pack_step = 1 /\ n # 1 THEN pack!NoView ELSE pack_mine)
      /\ pack_tasks' = (IF pack_step = 1 /\ n # 1 THEN L ELSE pack_tasks)
      /\ pack_misled' = (pack_misled \/ odd \/ (n = 1 /\ pack_step # 1 /\ pack_group # pack!NoCopy
                                      /\ (pack_tasks # {} \/ pack_group.slots # pack_stored[pack_group.id].slots)))
      /\ pack_listing' = (IF n = 0 /\ pack_step # 0 THEN pack!Listed ELSE pack_listing)
      BY DEF pack!GoTo
<1>2. /\ L \subseteq pack!Tasks /\ IsFiniteSet(L)
      /\ pack_files + Cardinality({t \in L : t.what = "upload" /\ ~ t.done}) <= MaxFiles
      /\ \A c \in L : ~ c.here
      /\ \A c \in L : \E t \in pack_tasks : /\ c = [t EXCEPT !.here = FALSE]
                                            /\ c.what = t.what /\ c.done = t.done /\ c.base = t.base
                                               /\ c.id = t.id
      /\ pack_tasks = {} => L = {}
      BY LeftTasks
<1>. HIDE DEF L
<1>3. pack!TypeOK /\ GroupsInv /\ UploadsInv /\ (pack_misled \/ Sighted) /\ pack_misled \in BOOLEAN
      /\ pack_mine \in [id : Groups \cup {pack!None}, slots : Filling, consent : [Slots -> BOOLEAN]]
      BY DEF PackInv, pack!TypeOK, Filling
<1>4. pack!NoView \in [id : Groups \cup {pack!None}, slots : Filling, consent : [Slots -> BOOLEAN]]
  <2>1. 0 \in 0 .. MaxFiles  BY DEF PackAssumption
  <2>. QED  BY <2>1 DEF pack!NoView, pack!Empty, pack!Unasked, Filling
<1>5. pack_mine' \in [id : Groups \cup {pack!None}, slots : Filling, consent : [Slots -> BOOLEAN]]
      BY <1>1, <1>3, <1>4
<1>6. pack_tasks' \subseteq pack!Tasks /\ pack_misled' \in BOOLEAN  BY <1>1, <1>2, <1>3 DEF pack!TypeOK
<1>7. GroupsInv'
  <2>1. \A g \in Groups : pack_listing'[g] \in pack!Copies /\ pack_listing'[g].id = g
        BY <1>1, <1>3, MarksAre DEF GroupsInv, pack!Listed
  <2>2. pack_group' = pack!NoCopy \/ pack_group'.id \in Groups  BY <1>3, MarksAre DEF GroupsInv
  <2>3. pack_mine' = pack!NoView \/ pack_mine'.id \in Groups  BY <1>1, <1>3 DEF GroupsInv
  <2>4. IsFiniteSet(pack_tasks') /\ pack_files + Cardinality(UnderWay') <= MaxFiles
        BY <1>1, <1>2, <1>3 DEF GroupsInv, UnderWay
  <2>. QED  BY <1>3, <2>1, <2>2, <2>3, <2>4 DEF GroupsInv
<1>8. UploadsInv'
  <2>1. n # 1 => pack_mine' = pack!NoView /\ \A t \in pack_tasks' : ~ t.here
        BY <1>1, <1>2, <1>3 DEF UploadsInv
  <2>2. pack_group' = pack!NoCopy => pack_tasks' = {}
    <3>1. pack_group' = pack!NoCopy => pack_group = pack!NoCopy  BY <1>3, MarksAre
    <3>. QED  BY <1>1, <1>2, <1>3, <3>1 DEF UploadsInv
  <2>. QED  BY <1>1, <2>1, <2>2 DEF UploadsInv
<1>9. ASSUME ~ pack_misled' PROVE Sighted'
  <2>1. Sighted /\ ~ odd /\ (n = 1 /\ pack_step # 1 /\ pack_group # pack!NoCopy => pack_tasks = {} /\ pack_group.slots = pack_stored[pack_group.id].slots)
        BY <1>1, <1>3, <1>9
  <2>2. \A t, u \in pack_tasks' : t = u
    <3>1. \A t, u \in pack_tasks : t = u  BY <2>1 DEF Sighted
    <3>2. \A c, d \in L : c = d
      <4>. SUFFICES ASSUME NEW c \in L, NEW d \in L PROVE c = d  OBVIOUS
      <4>1. PICK t \in pack_tasks : c = [t EXCEPT !.here = FALSE]  BY <1>2
      <4>2. PICK u \in pack_tasks : d = [u EXCEPT !.here = FALSE]  BY <1>2
      <4>3. t = u  BY <3>1
      <4>. QED  BY <4>1, <4>2, <4>3
    <3>3. pack_tasks' = pack_tasks \/ pack_tasks' = L  BY <1>1
    <3>. QED  BY <3>1, <3>2, <3>3
  <2>3. \A t \in pack_tasks' : t.what = "upload" /\ ~ t.done => Covers(t.base, t.id)'
    <3>1. \A t \in pack_tasks : t.what = "upload" /\ ~ t.done => Covers(t.base, t.id)  BY <2>1 DEF Sighted
    <3>2. \A b, i : Covers(b, i)' <=> Covers(b, i)  BY DEF Covers
    <3>3. CASE pack_tasks' = pack_tasks  BY <3>1, <3>2, <3>3
    <3>4. CASE pack_tasks' = L  BY <1>2, <3>1, <3>2, <3>4
    <3>. QED  BY <1>1, <3>3, <3>4
  <2>4. CASE n # 1
    <3>1. pack_mine' = pack!NoView /\ pack_step' # 1 /\ pack_page' = "flow"
          BY <1>1, <1>3, <2>4 DEF UploadsInv
    <3>. QED  BY <2>2, <2>3, <3>1 DEF Sighted, Shows
  <2>5. CASE n = 1 /\ pack_step # 1
    <3>1. pack_mine = pack!NoView /\ pack_mine' = pack!NoView /\ pack_tasks' = pack_tasks
          BY <1>1, <1>3, <2>5 DEF UploadsInv
    <3>2. pack_tasks = {}  BY <1>3, <2>1, <2>5 DEF UploadsInv
    <3>3. Shows' => pack_group' # pack!NoCopy /\ pack_group'.slots = pack_stored[pack_group'.id].slots
      <4>1. CASE pack_group' = pack_group  BY <2>1, <2>5, <4>1 DEF Shows
      <4>2. ASSUME NEW g \in Groups, pack_group' = pack!Copy(g)
            PROVE  pack_group' # pack!NoCopy /\ pack_group'.slots = pack_stored[pack_group'.id].slots
            BY <1>3, <4>2, MarksAre
      <4>. QED  BY <4>1, <4>2
    <3>4. Shows' => Covers(pack!Held, pack!Here.id)'  BY <3>1, <3>3 DEF Covers, pack!Held, pack!Here
    <3>. QED  BY <2>2, <2>3, <3>1, <3>2, <3>4 DEF Sighted
  <2>6. CASE n = 1 /\ pack_step = 1
    <3>1. pack_mine' = pack_mine /\ pack_tasks' = pack_tasks /\ pack_step' = 1  BY <1>1, <2>6
    <3>2. CASE pack_group' = pack_group
      <4>1. Covers(pack!Held, pack!Here.id)' <=> Covers(pack!Held, pack!Here.id)
            BY <3>1, <3>2 DEF Covers, pack!Held, pack!Here
      <4>2. Shows' <=> Shows  BY <2>6, <3>1, <3>2 DEF Shows
      <4>. QED  BY <2>1, <2>2, <2>3, <2>6, <3>1, <3>2, <4>1, <4>2 DEF Sighted
    <3>3. ASSUME NEW g \in Groups, pack_group' = pack!Copy(g), pack_group # pack!NoCopy => pack_group.id = g
          PROVE Sighted'
      <4>1. pack_group' # pack!NoCopy /\ pack_group'.id = g /\ pack_group'.slots = pack_stored[g].slots
            BY <1>3, <3>3, MarksAre
      <4>2. CASE pack_group = pack!NoCopy
        <5>1. pack_tasks = {}  BY <1>3, <4>2 DEF UploadsInv
        <5>2. pack_mine = pack!NoView
          <6>1. pack_mine # pack!NoView => pack_mine.id = pack!None  BY <1>3, <2>1, <4>2, MarksAre DEF Sighted
          <6>. QED  BY <1>3, <6>1 DEF GroupsInv, PackAssumption
        <5>3. Covers(pack!Held, pack!Here.id)'  BY <3>1, <4>1, <5>2 DEF Covers, pack!Held, pack!Here
        <5>. QED  BY <2>2, <2>3, <3>1, <5>1, <5>2, <5>3 DEF Sighted
      <4>3. CASE pack_group # pack!NoCopy
        <5>1. pack_group.id = g /\ Shows  BY <2>6, <3>3, <4>3 DEF Shows
        <5>2. (\A t \in pack_tasks : ~ (t.what = "upload" /\ t.done)) => Covers(pack!Held, pack!Here.id)'
          <6>1. CASE pack_mine = pack!NoView  BY <3>1, <4>1, <6>1 DEF Covers, pack!Held, pack!Here
          <6>2. CASE pack_mine # pack!NoView
            <7>1. Covers(pack!Held, pack!Here.id)' <=> Covers(pack!Held, pack!Here.id)
                  BY <3>1, <4>1, <5>1, <6>2 DEF Covers, pack!Held, pack!Here
            <7>. QED  BY <2>1, <5>1, <7>1 DEF Sighted
          <6>. QED  BY <6>1, <6>2
        <5>3. \A t \in pack_tasks : t.here /\ t.id = pack_group'.id  BY <2>1, <2>6, <4>1, <5>1 DEF Sighted
        <5>4. pack_mine # pack!NoView => pack_mine.id = pack_group'.id  BY <2>1, <4>1, <5>1 DEF Sighted
        <5>. QED  BY <2>2, <2>3, <3>1, <5>2, <5>3, <5>4 DEF Sighted
      <4>. QED  BY <4>2, <4>3
    <3>. QED  BY <2>1, <3>2, <3>3
  <2>. QED  BY <2>4, <2>5, <2>6
<1>10. (pack_misled => pack_misled') /\ (odd => pack_misled')  BY <1>1
<1>. QED  BY <1>1, <1>5, <1>6, <1>7, <1>8, <1>9, <1>10

\* A task begun where no task runs.
LEMMA BeginKeeps ==
    ASSUME PackAssumption, PackInv, pack!Idle, NEW what \in {"upload", "consent", "clone"}, NEW s \in Slots,
           pack!Begin(what, s),
           what = "upload" => pack_files + Cardinality(UnderWay) < MaxFiles,
           UNCHANGED <<pack_page, pack_stored, pack_files, pack_step, pack_continuing, pack_group,
                       pack_listing, pack_picks, pack_linked, pack_detail, pack_mine,
                       pack_voice, pack_brief, pack_made, pack_jumped, pack_misled>>
    PROVE  PackInv'
<1>. DEFINE t == [what |-> what, slot |-> s, id |-> pack!Here.id, here |-> TRUE, base |-> pack!Held,
      done |-> FALSE]
<1>1. pack!TypeOK /\ GroupsInv /\ FlowStepsInv /\ UploadsInv /\ (pack_misled \/ Sighted)
      /\ pack!CopyIsOfTheGroupPicked
      BY DEF PackInv
<1>2. pack!NoCopy.id = pack!None /\ pack!NoView.id = pack!None /\ MaxFiles \in Nat  BY <1>1, MarksAre
<1>3. /\ pack_page \in {"flow", "group"} /\ (pack_page = "flow" => pack_step = 1 /\ pack_group # pack!NoCopy)
      /\ (pack_page = "group" => pack_mine # pack!NoView) /\ Shows
      BY <1>1 DEF pack!Idle, UploadsInv, Shows
<1>4. pack!Here.id \in Groups /\ pack!Held \in Filling
  <2>1. pack_group.slots \in Filling /\ pack_mine.slots \in Filling
        BY <1>1 DEF pack!TypeOK, pack!Copies, Filling
  <2>. QED  BY <1>1, <1>3, <2>1 DEF GroupsInv, pack!Here, pack!Held
<1>5. \E r : r = t  OBVIOUS
<1>. HIDE DEF t
<1>6. PICK r : r = t  BY <1>5
<1>7. /\ r \in pack!Tasks /\ r.what = what /\ r.here /\ ~ r.done /\ r.id = pack!Here.id /\ r.base = pack!Held
      /\ pack_tasks' = pack_tasks \cup {r}
      BY <1>4, <1>6 DEF t, pack!Tasks, Filling, pack!Begin
<1>8. pack_tasks' \subseteq pack!Tasks  BY <1>1, <1>7 DEF pack!TypeOK
<1>9. pack!TypeOK'  BY <1>1, <1>8 DEF pack!TypeOK, pack!Copy, pack!Copies
<1>10. GroupsInv'
  <2>1. IsFiniteSet(pack_tasks) /\ IsFiniteSet(pack_tasks')  BY <1>1, <1>7, FS_AddElement DEF GroupsInv
  <2>2. IsFiniteSet(UnderWay) /\ Cardinality(UnderWay) \in Nat
        BY <2>1, FS_Subset, FS_CardinalityType DEF UnderWay
  <2>3. pack_files + Cardinality(UnderWay') <= MaxFiles
    <3>1. CASE what = "upload"
      <4>1. UnderWay' = UnderWay \cup {r}  BY <1>7, <3>1 DEF UnderWay
      <4>2. Cardinality(UnderWay \cup {r}) = IF r \in UnderWay THEN Cardinality(UnderWay) ELSE Cardinality(UnderWay) + 1
            BY <2>2, FS_AddElement
      <4>3. pack_files \in Nat  BY <1>1, <1>2 DEF pack!TypeOK
      <4>. QED  BY <1>2, <2>2, <3>1, <4>1, <4>2, <4>3
    <3>2. CASE what # "upload"
      <4>1. UnderWay' = UnderWay  BY <1>7, <3>2 DEF UnderWay
      <4>. QED  BY <1>1, <4>1 DEF GroupsInv
    <3>. QED  BY <3>1, <3>2
  <2>. QED  BY <1>1, <2>1, <2>3 DEF GroupsInv
<1>11. FlowStepsInv' /\ pack!CopyIsOfTheGroupPicked'  BY <1>1 DEF FlowStepsInv, pack!CopyIsOfTheGroupPicked
<1>12. UploadsInv'
  <2>1. pack_page = "group" => r.id = pack_mine.id  BY <1>7 DEF pack!Here
  <2>. QED  BY <1>1, <1>3, <1>7, <2>1 DEF UploadsInv
<1>13. ASSUME ~ pack_misled PROVE Sighted'
  <2>1. Sighted /\ \A u \in pack_tasks : ~ u.here  BY <1>1, <1>13 DEF pack!Idle
  <2>2. pack_tasks = {}  BY <1>1, <1>3, <2>1 DEF Sighted, UploadsInv
  <2>3. Covers(pack!Held, pack!Here.id)  BY <1>3, <2>1, <2>2 DEF Sighted
  <2>4. pack_tasks' = {r}  BY <1>7, <2>2
  <2>5. \A b, i : Covers(b, i)' <=> Covers(b, i)  BY DEF Covers
  <2>6. pack!Held' = pack!Held /\ pack!Here' = pack!Here  BY DEF pack!Held, pack!Here
  <2>7. Covers(pack!Held, pack!Here.id)'  BY <2>3, <2>6 DEF Covers
  <2>8. \A u \in pack_tasks' : u.what = "upload" /\ ~ u.done => Covers(u.base, u.id)'
        BY <1>7, <2>3, <2>4, <2>5
  <2>9. pack_page = "flow" => r.id = pack_group.id  BY <1>7 DEF pack!Here
  <2>. QED  BY <1>7, <2>1, <2>4, <2>7, <2>8, <2>9 DEF Sighted
<1>. QED  BY <1>9, <1>10, <1>11, <1>12, <1>13 DEF PackInv

\* The server has done a task: it stays until the group has been read again.
LEMMA LandedIs ==
    ASSUME PackAssumption, PackInv, NEW t \in pack_tasks, ~ t.done
    PROVE  /\ pack!Landed(t) \subseteq pack!Tasks /\ IsFiniteSet(pack!Landed(t))
           /\ \E d : /\ d \in pack!Tasks /\ d.done /\ d.what = t.what /\ d.id = t.id /\ d.here = t.here
                     /\ pack!Landed(t) = (pack_tasks \ {t}) \cup {d}
           /\ t \in pack!Tasks
           /\ IsFiniteSet({u \in pack!Landed(t) : u.what = "upload" /\ ~ u.done})
           /\ {u \in pack!Landed(t) : u.what = "upload" /\ ~ u.done} = UnderWay \ {t}
<1>1. pack_tasks \subseteq pack!Tasks /\ IsFiniteSet(pack_tasks)  BY DEF PackInv, pack!TypeOK, GroupsInv
<1>2. \E d : d = [t EXCEPT !.done = TRUE]  OBVIOUS
<1>3. PICK d : d = [t EXCEPT !.done = TRUE]  BY <1>2
<1>4. t \in pack!Tasks  BY <1>1
<1>5. d \in pack!Tasks /\ d.done /\ d.what = t.what /\ d.id = t.id /\ d.here = t.here
      BY <1>3, <1>4 DEF pack!Tasks
<1>6. pack!Landed(t) = (pack_tasks \ {t}) \cup {d}  BY <1>3 DEF pack!Landed
<1>7. IsFiniteSet(pack_tasks \ {t})  BY <1>1, FS_Subset
<1>8. IsFiniteSet(pack!Landed(t))  BY <1>6, <1>7, FS_AddElement
<1>9. IsFiniteSet({u \in pack!Landed(t) : u.what = "upload" /\ ~ u.done})  BY <1>8, FS_Subset
<1>10. {u \in pack!Landed(t) : u.what = "upload" /\ ~ u.done} = UnderWay \ {t}  BY <1>5, <1>6 DEF UnderWay
<1>. QED  BY <1>1, <1>4, <1>5, <1>6, <1>8, <1>9, <1>10

\* The server does what a task asks: only an upload changes slots, and it keeps those its
\* copy has.
LEMMA LandedKeeps ==
    ASSUME PackAssumption, PackInv, NEW t \in pack_tasks, ~ t.done, pack_page # "editor",
           pack_tasks' = pack!Landed(t),
           pack_stored' \in [Groups -> [slots : Filling, consent : [Slots -> BOOLEAN]]],
           pack_files' \in 0 .. MaxFiles, pack_voice' \in BOOLEAN,
           \/ pack_files' = pack_files /\ t.what # "upload"
              /\ \A g \in Groups : pack_stored'[g].slots = pack_stored[g].slots
           \/ pack_files' = pack_files + 1 /\ t.what = "upload",
           UNCHANGED <<pack_page, pack_step, pack_continuing, pack_group, pack_listing, pack_picks,
                       pack_linked, pack_detail, pack_mine, pack_brief,
                       pack_made, pack_jumped, pack_misled>>
    PROVE  PackInv'
<1>1. pack!TypeOK /\ GroupsInv /\ FlowStepsInv /\ UploadsInv /\ (pack_misled \/ Sighted)
      /\ pack!CopyIsOfTheGroupPicked
      BY DEF PackInv
<1>2. PICK d : /\ d \in pack!Tasks /\ d.done /\ d.what = t.what /\ d.id = t.id /\ d.here = t.here
               /\ pack_tasks' = (pack_tasks \ {t}) \cup {d}
      BY LandedIs
<1>3. pack!TypeOK'
  <2>1. \A g \in Groups : pack!Copy(g)' \in pack!Copies /\ pack_stored'[g].consent \in [Slots -> BOOLEAN]
        BY DEF pack!Copy, pack!Copies, Filling
  <2>2. pack_tasks' \subseteq pack!Tasks  BY LandedIs
  <2>. QED  BY <1>1, <2>1, <2>2 DEF pack!TypeOK
<1>4. GroupsInv'
  <2>1. IsFiniteSet(pack_tasks') /\ UnderWay' = UnderWay \ {t}  BY LandedIs DEF UnderWay
  <2>2. IsFiniteSet(UnderWay) /\ Cardinality(UnderWay) \in Nat
        BY <1>1, FS_Subset, FS_CardinalityType DEF UnderWay, GroupsInv
  <2>3. pack_files' + Cardinality(UnderWay') <= MaxFiles
    <3>1. pack_files \in Nat /\ MaxFiles \in Nat  BY <1>1, MarksAre DEF pack!TypeOK
    <3>2. CASE t.what # "upload"
      <4>1. UnderWay' = UnderWay /\ pack_files' = pack_files  BY <2>1, <3>2 DEF UnderWay
      <4>. QED  BY <1>1, <4>1 DEF GroupsInv
    <3>3. CASE t.what = "upload"
      <4>1. t \in UnderWay  BY <3>3 DEF UnderWay
      <4>2. Cardinality(UnderWay \ {t}) = Cardinality(UnderWay) - 1  BY <2>2, <4>1, FS_RemoveElement
      <4>3. pack_files + Cardinality(UnderWay) <= MaxFiles  BY <1>1 DEF GroupsInv
      <4>4. pack_files' = pack_files + 1  BY <3>3
      <4>5. Cardinality(UnderWay') = Cardinality(UnderWay) - 1  BY <2>1, <4>2
      <4>. QED  BY <2>2, <3>1, <4>3, <4>4, <4>5
    <3>. QED  BY <3>2, <3>3
  <2>. QED  BY <1>1, <2>1, <2>3 DEF GroupsInv
<1>5. FlowStepsInv' /\ pack!CopyIsOfTheGroupPicked'  BY <1>1 DEF FlowStepsInv, pack!CopyIsOfTheGroupPicked
<1>6. UploadsInv'  BY <1>1, <1>2 DEF UploadsInv
<1>7. ASSUME ~ pack_misled PROVE Sighted'
  <2>1. Sighted  BY <1>1, <1>7
  <2>2. pack_tasks = {t} /\ pack_tasks' = {d}  BY <1>2, <2>1 DEF Sighted
  <2>3. pack_page = "flow" /\ pack_step = 1 => d.here /\ d.id = pack_group.id  BY <1>2, <2>1 DEF Sighted
  <2>4. ASSUME Shows', \A u \in pack_tasks' : ~ (u.what = "upload" /\ u.done)
        PROVE  Covers(pack!Held, pack!Here.id)'
    <3>1. t.what # "upload"  BY <1>2, <2>2, <2>4
    <3>2. pack!Held' = pack!Held /\ pack!Here' = pack!Here  BY DEF pack!Held, pack!Here
    <3>3. Shows  BY <2>4 DEF Shows
    <3>4. Covers(pack!Held, pack!Here.id)  BY <2>1, <2>2, <3>1, <3>3 DEF Sighted
    <3>5. pack!Here.id \in Groups
          BY <1>1, <3>3 DEF GroupsInv, UploadsInv, Shows, pack!Here
    <3>. QED  BY <3>1, <3>2, <3>4, <3>5 DEF Covers
  <2>5. \A u \in pack_tasks' : ~ (u.what = "upload" /\ ~ u.done)  BY <1>2, <2>2
  <2>. QED  BY <2>1, <2>2, <2>3, <2>4, <2>5 DEF Sighted
<1>. QED  BY <1>3, <1>4, <1>5, <1>6, <1>7 DEF PackInv

\* The three tasks at the server.
LEMMA UploadedKeeps ==
    ASSUME PackAssumption, PackInv, NEW t \in pack_tasks, pack!Uploaded(t)
    PROVE  PackInv' /\ (~ pack_misled => \A g \in Groups,
          s \in Slots : pack_stored[g].slots[s] # 0 => pack_stored'[g].slots[s] # 0)
<1>1. /\ pack_page # "editor" /\ t.what = "upload" /\ ~ t.done /\ pack_files' = pack_files + 1
         /\ pack_tasks' = pack!Landed(t)
      /\ pack_stored' = [pack_stored EXCEPT ![t.id].slots = pack!Written(t)]
      BY DEF pack!Uploaded
<1>2. pack!TypeOK /\ GroupsInv /\ (pack_misled \/ Sighted)  BY DEF PackInv
<1>3. t \in pack!Tasks /\ t.base \in Filling /\ t.id \in Groups /\ t.slot \in Slots
      BY <1>2 DEF pack!TypeOK, pack!Tasks, Filling
<1>4. pack_files \in Nat /\ pack_files + 1 <= MaxFiles /\ MaxFiles \in Nat
  <2>1. IsFiniteSet(UnderWay) /\ Cardinality(UnderWay) \in Nat
        BY <1>2, FS_Subset, FS_CardinalityType DEF UnderWay, GroupsInv
  <2>2. Cardinality(UnderWay) # 0  BY <1>1, <2>1, FS_EmptySet DEF UnderWay
  <2>3. pack_files \in Nat /\ MaxFiles \in Nat  BY <1>2, MarksAre DEF pack!TypeOK
  <2>4. pack_files + Cardinality(UnderWay) <= MaxFiles  BY <1>2 DEF GroupsInv
  <2>. QED  BY <2>1, <2>2, <2>3, <2>4
<1>5. pack!Written(t) \in Filling  BY <1>3, <1>4 DEF pack!Written, Filling
<1>6. pack_stored' \in [Groups -> [slots : Filling, consent : [Slots -> BOOLEAN]]]
  <2>1. pack_stored \in [Groups -> [slots : Filling, consent : [Slots -> BOOLEAN]]]  BY <1>2 DEF GroupsInv
  <2>. QED  BY <1>1, <1>3, <1>5, <2>1
<1>7. pack_files' \in 0 .. MaxFiles /\ pack_voice' \in BOOLEAN
      BY <1>1, <1>2, <1>4 DEF pack!Uploaded, pack!TypeOK
<1>8. PackInv'  BY <1>1, <1>6, <1>7, LandedKeeps DEF pack!Uploaded
<1>9. ASSUME ~ pack_misled, NEW g \in Groups, NEW s \in Slots, pack_stored[g].slots[s] # 0
      PROVE  pack_stored'[g].slots[s] # 0
  <2>1. pack_stored \in [Groups -> [slots : Filling, consent : [Slots -> BOOLEAN]]]  BY <1>2 DEF GroupsInv
  <2>2. CASE g # t.id
    <3>1. pack_stored'[g] = pack_stored[g]  BY <1>1, <2>1, <2>2
    <3>. QED  BY <1>9, <3>1
  <2>3. CASE g = t.id
    <3>1. pack_stored'[g].slots = pack!Written(t)  BY <1>1, <2>1, <2>3
    <3>2. t.base[s] # 0  BY <1>1, <1>2, <1>9, <2>3 DEF Sighted, Covers
    <3>3. pack!Written(t)[s] = IF s = t.slot THEN pack_files + 1 ELSE t.base[s]
          BY <1>3 DEF pack!Written, Filling
    <3>. QED  BY <1>4, <3>1, <3>2, <3>3
  <2>. QED  BY <2>2, <2>3
<1>. QED  BY <1>8, <1>9

\* A consent is recorded, and changes no slot.
LEMMA ConsentedKeeps ==
    ASSUME PackAssumption, PackInv, NEW t \in pack_tasks, pack!Consented(t)
    PROVE  PackInv' /\ \A g \in Groups : pack_stored'[g].slots = pack_stored[g].slots
<1>1. /\ pack_page # "editor" /\ t.what = "consent" /\ ~ t.done /\ pack_files' = pack_files
         /\ pack_tasks' = pack!Landed(t)
      /\ pack_stored' = [pack_stored EXCEPT ![t.id].consent[t.slot] = TRUE]
      BY DEF pack!Consented
<1>2. pack!TypeOK /\ GroupsInv  BY DEF PackInv
<1>3. t \in pack!Tasks /\ t.id \in Groups /\ t.slot \in Slots  BY <1>2 DEF pack!TypeOK, pack!Tasks
<1>4. pack_stored \in [Groups -> [slots : Filling, consent : [Slots -> BOOLEAN]]]  BY <1>2 DEF GroupsInv
<1>5. pack_stored[t.id] \in [slots : Filling, consent : [Slots -> BOOLEAN]]  BY <1>3, <1>4
<1>6. [pack_stored[t.id].consent EXCEPT ![t.slot] = TRUE] \in [Slots -> BOOLEAN]  BY <1>5
<1>7. \E r : r = [pack_stored[t.id] EXCEPT !.consent = [pack_stored[t.id].consent EXCEPT ![t.slot] = TRUE]]  OBVIOUS
<1>8. PICK r : r = [pack_stored[t.id] EXCEPT !.consent = [pack_stored[t.id].consent EXCEPT ![t.slot] = TRUE]]
      BY <1>7
<1>9. r \in [slots : Filling, consent : [Slots -> BOOLEAN]] /\ r.slots = pack_stored[t.id].slots
      BY <1>5, <1>6, <1>8
<1>10. pack_stored' = [pack_stored EXCEPT ![t.id] = r]  BY <1>1, <1>8, Zenon
<1>11. pack_stored' \in [Groups -> [slots : Filling, consent : [Slots -> BOOLEAN]]]  BY <1>4, <1>9, <1>10
<1>12. \A g \in Groups : pack_stored'[g].slots = pack_stored[g].slots
  <2>. SUFFICES ASSUME NEW g \in Groups PROVE pack_stored'[g].slots = pack_stored[g].slots  OBVIOUS
  <2>1. pack_stored'[g] = IF g = t.id THEN r ELSE pack_stored[g]  BY <1>4, <1>10
  <2>. QED  BY <1>9, <2>1
<1>13. pack_files' \in 0 .. MaxFiles /\ pack_voice' \in BOOLEAN  BY <1>1, <1>2 DEF pack!Consented, pack!TypeOK
<1>14. PackInv'  BY <1>1, <1>11, <1>12, <1>13, LandedKeeps DEF pack!Consented
<1>. QED  BY <1>12, <1>14

\* A voice is cloned, and changes no slot.
LEMMA ClonedKeeps ==
    ASSUME PackAssumption, PackInv, NEW t \in pack_tasks, pack!Cloned(t)
    PROVE  PackInv' /\ pack_stored' = pack_stored
<1>1. pack!TypeOK /\ GroupsInv  BY DEF PackInv
<1>2. /\ pack_stored' \in [Groups -> [slots : Filling, consent : [Slots -> BOOLEAN]]]
      /\ pack_files' \in 0 .. MaxFiles /\ pack_voice' \in BOOLEAN /\ pack_stored' = pack_stored
      BY <1>1 DEF pack!Cloned, pack!TypeOK, GroupsInv
<1>. QED  BY <1>2, LandedKeeps DEF pack!Cloned

\* A task is refused, and the screen is free again.
LEMMA RefusedKeeps ==
    ASSUME PackAssumption, PackInv, NEW t \in pack_tasks, pack!Refused(t)
    PROVE  PackInv' /\ pack_stored' = pack_stored
<1>1. pack!TypeOK /\ GroupsInv /\ FlowStepsInv /\ UploadsInv /\ (pack_misled \/ Sighted)
      /\ pack!CopyIsOfTheGroupPicked
      BY DEF PackInv
<1>2. /\ pack_tasks' = pack_tasks \ {t} /\ ~ t.done
      /\ UNCHANGED <<pack_page, pack_stored, pack_files, pack_step, pack_continuing, pack_group,
                     pack_listing, pack_picks, pack_linked, pack_detail, pack_mine,
                     pack_voice, pack_brief, pack_made, pack_jumped, pack_misled>>
      BY DEF pack!Refused
<1>3. pack!TypeOK'  BY <1>1, <1>2 DEF pack!TypeOK, pack!Copy
<1>4. GroupsInv'
  <2>1. IsFiniteSet(pack_tasks)  BY <1>1 DEF GroupsInv
  <2>2. IsFiniteSet(pack_tasks') /\ IsFiniteSet(UnderWay)  BY <1>2, <2>1, FS_Subset DEF UnderWay
  <2>3. UnderWay' \subseteq UnderWay  BY <1>2 DEF UnderWay
  <2>4. Cardinality(UnderWay') <= Cardinality(UnderWay) /\ IsFiniteSet(UnderWay')  BY <2>2, <2>3, FS_Subset
  <2>5. Cardinality(UnderWay') \in Nat /\ Cardinality(UnderWay) \in Nat  BY <2>2, <2>4, FS_CardinalityType
  <2>6. pack_files \in Nat /\ MaxFiles \in Nat  BY <1>1, MarksAre DEF pack!TypeOK
  <2>7. pack_files + Cardinality(UnderWay) <= MaxFiles  BY <1>1 DEF GroupsInv
  <2>8. pack_files + Cardinality(UnderWay') <= MaxFiles  BY <2>4, <2>5, <2>6, <2>7
  <2>. QED  BY <1>1, <1>2, <2>2, <2>8 DEF GroupsInv
<1>5. FlowStepsInv' /\ pack!CopyIsOfTheGroupPicked' /\ UploadsInv'
      BY <1>1, <1>2 DEF FlowStepsInv, pack!CopyIsOfTheGroupPicked, UploadsInv
<1>6. ASSUME ~ pack_misled PROVE Sighted'
  <2>1. Sighted /\ pack_tasks = {t} /\ pack_tasks' = {}  BY <1>1, <1>2, <1>6 DEF Sighted
  <2>2. pack!Held' = pack!Held /\ pack!Here' = pack!Here /\ Shows' = Shows
        BY <1>2 DEF pack!Held, pack!Here, Shows
  <2>3. Shows => Covers(pack!Held, pack!Here.id)  BY <1>2, <2>1 DEF Sighted
  <2>4. Shows' => Covers(pack!Held, pack!Here.id)'  BY <1>2, <2>2, <2>3 DEF Covers
  <2>. QED  BY <1>2, <2>1, <2>4 DEF Sighted
<1>. QED  BY <1>2, <1>3, <1>4, <1>5, <1>6 DEF PackInv

\* After a task the group is read: the copies are the server's, or the screen is misled.
LEMMA RefreshKeeps ==
    ASSUME PackAssumption, PackInv, NEW t \in pack_tasks, NEW ok \in BOOLEAN, pack!refresh(t, ok)
    PROVE  PackInv' /\ pack_stored' = pack_stored
<1>1. pack!TypeOK /\ GroupsInv /\ FlowStepsInv /\ UploadsInv /\ (pack_misled \/ Sighted)
      /\ pack!CopyIsOfTheGroupPicked
      BY DEF PackInv
<1>2. /\ pack_page # "editor" /\ t.done /\ pack_tasks' = pack_tasks \ {t}
      /\ pack_mine' = (IF ok /\ t.here THEN pack!View(t.id) ELSE pack_mine)
      /\ pack_detail' = (IF ok /\ pack_page = "flow" THEN pack!Copy(t.id) ELSE pack_detail)
      /\ pack_misled' = (pack_misled \/ ~ ok \/ (pack_page = "flow" /\ pack_group.id # t.id))
      /\ UNCHANGED <<pack_page, pack_stored, pack_files, pack_step, pack_continuing, pack_group,
                     pack_listing, pack_picks, pack_linked, pack_voice, pack_brief,
                     pack_made, pack_jumped>>
      BY DEF pack!refresh
<1>3. t \in pack!Tasks /\ t.id \in Groups  BY <1>1 DEF pack!TypeOK, pack!Tasks
<1>4. /\ pack!Copy(t.id) \in pack!Copies /\ pack!Copy(t.id).id = t.id /\ pack!View(t.id).id = t.id
         /\ pack!View(t.id) # pack!NoView
      /\ pack!View(t.id).slots = pack_stored[t.id].slots
      /\ pack!View(t.id) \in [id : Groups \cup {pack!None}, slots : Filling, consent : [Slots -> BOOLEAN]]
      BY <1>1, <1>3, MarksAre
<1>5. pack!TypeOK'
  <2>1. pack_detail' \in pack!Copies  BY <1>1, <1>2, <1>4 DEF pack!TypeOK
  <2>2. pack_mine' \in [id : Groups \cup {pack!None}, slots : [Slots -> 0 .. MaxFiles],
        consent : [Slots -> BOOLEAN]]
        BY <1>1, <1>2, <1>4 DEF pack!TypeOK, Filling
  <2>3. pack_misled' \in BOOLEAN  BY <1>1, <1>2 DEF pack!TypeOK
  <2>. QED  BY <1>1, <1>2, <2>1, <2>2, <2>3 DEF pack!TypeOK, pack!Copy
<1>6. GroupsInv'
  <2>1. IsFiniteSet(pack_tasks) /\ pack_files + Cardinality(UnderWay) <= MaxFiles  BY <1>1 DEF GroupsInv
  <2>2. IsFiniteSet(pack_tasks') /\ UnderWay' = UnderWay  BY <1>2, <2>1, FS_Subset DEF UnderWay
  <2>3. pack_mine' = pack!NoView \/ pack_mine'.id \in Groups  BY <1>1, <1>2, <1>3, <1>4 DEF GroupsInv
  <2>. QED  BY <1>1, <1>2, <2>1, <2>2, <2>3 DEF GroupsInv
<1>7. FlowStepsInv' /\ pack!CopyIsOfTheGroupPicked'
  <2>1. pack!CopyIsOfTheGroupPicked'
        BY <1>1, <1>2, <1>4 DEF pack!CopyIsOfTheGroupPicked
  <2>. QED  BY <1>1, <1>2, <2>1 DEF FlowStepsInv
<1>8. UploadsInv'  BY <1>1, <1>2, <1>4 DEF UploadsInv
<1>9. ASSUME ~ pack_misled' PROVE Sighted'
  <2>1. Sighted /\ ok /\ (pack_page = "flow" => pack_group.id = t.id)  BY <1>1, <1>2, <1>9
  <2>2. pack_tasks' = {}  BY <1>2, <2>1 DEF Sighted
  <2>3. pack_page = "flow" /\ pack_mine' # pack!NoView => pack_mine'.id = pack_group.id
        BY <1>2, <1>4, <2>1 DEF Sighted
  <2>4. ASSUME Shows' PROVE Covers(pack!Held, pack!Here.id)'
    <3>1. t.here  BY <1>1, <1>2, <2>1, <2>4 DEF Shows, UploadsInv, Sighted
    <3>2. pack_mine' = pack!View(t.id)  BY <1>2, <2>1, <3>1
    <3>3. pack!Held' = pack_stored[t.id].slots  BY <1>4, <3>2 DEF pack!Held
    <3>4. pack!Here'.id = t.id  BY <1>2, <1>4, <2>1, <3>2 DEF pack!Here
    <3>. QED  BY <1>2, <3>3, <3>4 DEF Covers
  <2>. QED  BY <1>2, <2>2, <2>3, <2>4 DEF Sighted
<1>. QED  BY <1>2, <1>5, <1>6, <1>7, <1>8, <1>9 DEF PackInv

\* The steps of the flow: Continue's timer, the step picked, Back, and the two reads.
LEMMA FlowKeeps ==
    ASSUME PackAssumption, PackInv,
           \/ pack!Continued \/ pack!Back \/ (\E n \in 0 .. pack!Last : pack!PickStep(n))
           \/ \E g \in Groups, ok \in BOOLEAN : pack!Entered(g, ok)
    PROVE  PackInv' /\ pack_stored' = pack_stored
<1>1. pack!TypeOK /\ FlowStepsInv /\ pack!CopyIsOfTheGroupPicked  BY DEF PackInv
<1>2. pack_step \in 0 .. 4 /\ pack!Last = 3 /\ pack_jumped \in BOOLEAN /\ pack_continuing \in BOOLEAN
      /\ pack_misled \in BOOLEAN
      BY <1>1 DEF pack!TypeOK, pack!Last
<1>3. ASSUME NEW n \in 0 .. pack!Last + 1, NEW odd \in BOOLEAN, pack_page = "flow", pack!GoTo(n, odd),
             UNCHANGED <<pack_page, pack_stored, pack_files, pack_group, pack_linked, pack_voice, pack_brief,
                         pack_made>>,
             pack_detail' \in pack!Copies, pack_picks' \subseteq Groups, pack_jumped' \in BOOLEAN,
                   pack_continuing' \in BOOLEAN,
             pack_continuing' => n < pack!Last \/ (pack_jumped' /\ n <= pack!Last), pack_jumped'
               \/ n <= pack!Last,
             pack!CopyIsOfTheGroupPicked'
      PROVE  PackInv'
  <2>1. /\ pack_step' = n /\ pack_tasks' \subseteq pack!Tasks /\ pack_misled' \in BOOLEAN
        /\ pack_mine' \in [id : Groups \cup {pack!None}, slots : Filling, consent : [Slots -> BOOLEAN]]
        /\ GroupsInv' /\ UploadsInv' /\ (pack_misled' \/ Sighted')
        BY <1>3, GoToKeeps
  <2>2. pack!TypeOK'  BY <1>1, <1>3, <2>1 DEF pack!TypeOK, pack!Copy, Filling, GroupsInv
  <2>3. FlowStepsInv'  BY <1>2, <1>3, <2>1 DEF FlowStepsInv
  <2>. QED  BY <1>3, <2>1, <2>2, <2>3 DEF PackInv
<1>4. pack_detail \in pack!Copies /\ pack_picks \subseteq Groups  BY <1>1 DEF pack!TypeOK
<1>5. CASE pack!Continued
  <2>1. /\ pack_page = "flow" /\ pack_continuing /\ pack_continuing' = FALSE
           /\ pack!GoTo(pack_step + 1, FALSE)
        /\ UNCHANGED <<pack_page, pack_stored, pack_files, pack_group, pack_picks, pack_linked, pack_detail,
                       pack_voice, pack_brief, pack_made, pack_jumped>>
        BY <1>5 DEF pack!Continued
  <2>2. pack_step <= 3 /\ (pack_jumped \/ pack_step < 3)  BY <1>1, <1>2, <2>1 DEF FlowStepsInv
  <2>3. pack_step + 1 \in 0 .. pack!Last + 1 /\ (pack_jumped' \/ pack_step + 1 <= pack!Last)
        BY <1>2, <2>1, <2>2
  <2>4. pack_misled => pack_misled'  BY <2>1 DEF pack!GoTo
  <2>5. pack!CopyIsOfTheGroupPicked'  BY <1>1, <2>1, <2>4 DEF pack!CopyIsOfTheGroupPicked
  <2>6. pack_jumped' \in BOOLEAN /\ pack_continuing' \in BOOLEAN  BY <1>2, <2>1
  <2>. QED  BY <1>3, <1>4, <2>1, <2>3, <2>5, <2>6
<1>6. CASE pack!Back
  <2>1. /\ pack_page = "flow" /\ pack_step > 0 /\ ~ pack_continuing /\ pack!GoTo(pack_step - 1, FALSE)
        /\ UNCHANGED <<pack_page, pack_stored, pack_files, pack_continuing, pack_group, pack_picks,
                       pack_linked, pack_detail, pack_voice, pack_brief, pack_made, pack_jumped>>
        BY <1>6 DEF pack!Back
  <2>2. pack_step - 1 \in 0 .. pack!Last + 1 /\ pack_step - 1 <= pack!Last  BY <1>2, <2>1
  <2>3. pack_misled => pack_misled'  BY <2>1 DEF pack!GoTo
  <2>4. pack!CopyIsOfTheGroupPicked'  BY <1>1, <2>1, <2>3 DEF pack!CopyIsOfTheGroupPicked
  <2>5. pack_jumped' \in BOOLEAN /\ pack_continuing' = FALSE  BY <1>2, <2>1
  <2>. QED  BY <1>3, <1>4, <2>1, <2>2, <2>4, <2>5
<1>7. ASSUME NEW n \in 0 .. pack!Last, pack!PickStep(n) PROVE PackInv' /\ pack_stored' = pack_stored
  <2>1. /\ pack_page = "flow" /\ pack!GoTo(n, FALSE) /\ pack_jumped' = (pack_jumped \/ pack_continuing)
        /\ UNCHANGED <<pack_page, pack_stored, pack_files, pack_continuing, pack_group, pack_picks,
                       pack_linked, pack_detail, pack_voice, pack_brief, pack_made>>
        BY <1>7 DEF pack!PickStep
  <2>2. n \in 0 .. pack!Last + 1 /\ n <= pack!Last  BY <1>2
  <2>3. pack_misled => pack_misled'  BY <2>1 DEF pack!GoTo
  <2>4. pack!CopyIsOfTheGroupPicked'  BY <1>1, <2>1, <2>3 DEF pack!CopyIsOfTheGroupPicked
  <2>5. pack_jumped' \in BOOLEAN /\ pack_continuing' \in BOOLEAN /\ (pack_continuing' => pack_jumped')
        BY <1>2, <2>1
  <2>. QED  BY <1>3, <1>4, <2>1, <2>2, <2>4, <2>5
<1>8. ASSUME NEW g \in Groups, NEW ok \in BOOLEAN, pack!Entered(g, ok)
      PROVE PackInv' /\ pack_stored' = pack_stored
  <2>1. /\ pack_page = "flow" /\ g \in pack_picks /\ pack_picks' = pack_picks \ {g}
        /\ pack_detail' = (IF ok THEN pack!Copy(g) ELSE pack_detail)
        /\ pack!GoTo(1, ~ ok \/ pack_group.id # g)
        /\ UNCHANGED <<pack_page, pack_stored, pack_files, pack_continuing, pack_group, pack_linked,
                       pack_voice, pack_brief, pack_made, pack_jumped>>
        BY <1>8 DEF pack!Entered
  <2>2. pack!Copy(g) \in pack!Copies /\ pack!Copy(g).id = g  BY MarksAre DEF PackInv
  <2>3. pack_misled' => TRUE  OBVIOUS
  <2>4. ~ pack_misled' => ok /\ pack_group.id = g  BY <2>1 DEF pack!GoTo
  <2>5. pack!CopyIsOfTheGroupPicked'  BY <2>1, <2>2, <2>4 DEF pack!CopyIsOfTheGroupPicked
  <2>6. pack_detail' \in pack!Copies /\ pack_picks' \subseteq Groups  BY <1>4, <2>1, <2>2
  <2>7. 1 \in 0 .. pack!Last + 1 /\ 1 < pack!Last /\ (~ ok \/ pack_group.id # g) \in BOOLEAN  BY <1>2
  <2>8. pack_jumped' \in BOOLEAN /\ pack_continuing' \in BOOLEAN  BY <1>2, <2>1
  <2>9. \E odd \in BOOLEAN : odd = (~ ok \/ pack_group.id # g)  BY <2>7
  <2>10. PICK odd \in BOOLEAN : odd = (~ ok \/ pack_group.id # g)  BY <2>9
  <2>11. pack!GoTo(1, odd)  BY <2>1, <2>10
  <2>12. 1 <= pack!Last  BY <1>2
  <2>13. UNCHANGED <<pack_page, pack_stored, pack_files, pack_group, pack_linked, pack_voice, pack_brief,
                     pack_made>>
         BY <2>1
  <2>14. PackInv'  BY <1>3, <2>1, <2>5, <2>6, <2>7, <2>8, <2>11, <2>12, <2>13
  <2>. QED  BY <2>13, <2>14
<1>9. pack_stored' = pack_stored  BY <1>5, <1>6, <1>7, <1>8 DEF pack!Continued, pack!Back
<1>10. PackInv'
  <2>1. pack!Continued => PackInv'  BY <1>5
  <2>2. pack!Back => PackInv'  BY <1>6
  <2>. QED  BY <1>7, <1>8, <2>1, <2>2
<1>. QED  BY <1>9, <1>10

\* The group of the address is read, or cannot be.
LEMMA AddressKeeps ==
    ASSUME PackAssumption, PackInv, NEW ok \in BOOLEAN, pack!Linked(ok)
    PROVE  PackInv' /\ pack_stored' = pack_stored
<1>1. pack!TypeOK /\ GroupsInv /\ FlowStepsInv /\ UploadsInv /\ (pack_misled \/ Sighted)
      /\ pack!CopyIsOfTheGroupPicked
      BY DEF PackInv
<1>2. /\ pack_page = "flow" /\ pack_linked # pack!None /\ pack_linked' = pack!None /\ pack_linked \in Groups
      /\ UNCHANGED <<pack_page, pack_stored, pack_files, pack_continuing, pack_picks, pack_voice, pack_brief,
                     pack_made>>
      /\ pack_jumped' = (pack_jumped \/ (ok /\ pack_continuing))
      BY <1>1 DEF pack!Linked, pack!TypeOK
<1>3. pack_jumped \in BOOLEAN /\ pack_continuing \in BOOLEAN /\ pack_jumped' \in BOOLEAN
      BY <1>1, <1>2 DEF pack!TypeOK
<1>4. CASE ok
  <2>1. /\ pack_group' = pack!Copy(pack_linked) /\ pack_detail' = pack_group'
        /\ pack!GoTo(1, pack_group # pack!NoCopy /\ pack_group.id # pack_linked)
        BY <1>4 DEF pack!Linked
  <2>2. (pack_group # pack!NoCopy /\ pack_group.id # pack_linked) \in BOOLEAN /\ 1 \in 0 .. pack!Last + 1
        /\ pack!Last = 3
        BY DEF pack!Last
  <2>3. \/ pack_group' = pack_group
        \/ 1 = 1 /\ \E g \in Groups : pack_group' = pack!Copy(g)
                            /\ (pack_group # pack!NoCopy => (pack_group # pack!NoCopy /\ pack_group.id # pack_linked) \/ pack_group.id = g)
        BY <1>2, <2>1
  <2>4. /\ pack_step' = 1 /\ pack_tasks' \subseteq pack!Tasks /\ pack_misled' \in BOOLEAN
        /\ pack_mine' \in [id : Groups \cup {pack!None}, slots : Filling, consent : [Slots -> BOOLEAN]]
        /\ GroupsInv' /\ UploadsInv' /\ (pack_misled' \/ Sighted')
        BY <1>2, <2>1, <2>2, <2>3, GoToKeeps
  <2>5. pack!Copy(pack_linked) \in pack!Copies  BY <1>1, <1>2, MarksAre
  <2>6. pack!TypeOK'
        BY <1>1, <1>2, <1>3, <2>1, <2>2, <2>4, <2>5 DEF pack!TypeOK, pack!Copy, Filling, GroupsInv
  <2>7. FlowStepsInv'  BY <1>1, <1>2, <1>3, <2>2, <2>4 DEF FlowStepsInv
  <2>8. pack!CopyIsOfTheGroupPicked'  BY <2>1 DEF pack!CopyIsOfTheGroupPicked
  <2>. QED  BY <1>2, <2>4, <2>6, <2>7, <2>8 DEF PackInv
<1>5. CASE ~ ok
  <2>1. UNCHANGED <<pack_group, pack_detail, pack_step, pack_mine, pack_tasks, pack_misled, pack_listing>>
        /\ pack_jumped' = pack_jumped
        BY <1>2, <1>3, <1>5 DEF pack!Linked
  <2>2. pack!TypeOK'  BY <1>1, <1>2, <2>1 DEF pack!TypeOK, pack!Copy
  <2>3. GroupsInv' /\ FlowStepsInv' /\ UploadsInv' /\ pack!CopyIsOfTheGroupPicked'
        BY <1>1, <1>2, <2>1 DEF GroupsInv, UnderWay, FlowStepsInv, UploadsInv, pack!CopyIsOfTheGroupPicked
  <2>4. Sighted => Sighted'  BY <1>2, <2>1 DEF Sighted, Covers, Shows, pack!Held, pack!Here
  <2>. QED  BY <1>1, <1>2, <2>1, <2>2, <2>3, <2>4 DEF PackInv
<1>. QED  BY <1>4, <1>5

\* A group is picked on the group step.
LEMMA EnterKeeps ==
    ASSUME PackAssumption, PackInv, NEW g \in Groups, pack!enterAssets(g)
    PROVE  PackInv' /\ pack_stored' = pack_stored
<1>1. pack!TypeOK /\ GroupsInv /\ FlowStepsInv /\ UploadsInv /\ (pack_misled \/ Sighted)
      /\ pack!CopyIsOfTheGroupPicked
      BY DEF PackInv
<1>2. /\ pack_page = "flow" /\ pack_step = 0 /\ pack_group' = pack_listing[g]
         /\ pack_picks' = pack_picks \cup {g}
      /\ UNCHANGED <<pack_page, pack_stored, pack_files, pack_step, pack_continuing, pack_listing,
                     pack_linked, pack_detail, pack_mine, pack_tasks,
                     pack_voice, pack_brief, pack_made, pack_jumped, pack_misled>>
      BY DEF pack!enterAssets
<1>3. pack_listing[g] \in pack!Copies /\ pack_listing[g].id = g /\ pack_listing[g] # pack!NoCopy
      BY <1>1, MarksAre DEF GroupsInv
<1>4. pack!TypeOK'  BY <1>1, <1>2, <1>3 DEF pack!TypeOK, pack!Copy
<1>5. GroupsInv'  BY <1>1, <1>2, <1>3 DEF GroupsInv, UnderWay
<1>6. FlowStepsInv' /\ UploadsInv' /\ pack!CopyIsOfTheGroupPicked'
      BY <1>1, <1>2, <1>3 DEF FlowStepsInv, UploadsInv, pack!CopyIsOfTheGroupPicked
<1>7. Sighted => Sighted'
  <2>1. ASSUME Sighted PROVE Sighted'
    <3>1. pack_mine = pack!NoView /\ ~ Shows'  BY <1>1, <1>2 DEF UploadsInv, Shows
    <3>2. \A b, i : Covers(b, i)' <=> Covers(b, i)  BY <1>2 DEF Covers
    <3>. QED  BY <1>2, <2>1, <3>1, <3>2 DEF Sighted
  <2>. QED  BY <2>1
<1>. QED  BY <1>1, <1>2, <1>4, <1>5, <1>6, <1>7 DEF PackInv

\* The presses that touch neither the group nor its tasks.
LEMMA FlowPressKeeps ==
    ASSUME PackAssumption, PackInv, pack!handleContinue \/ pack!Brief \/ pack!Generate \/ UNCHANGED pack!vars
    PROVE  PackInv' /\ pack_stored' = pack_stored
<1>1. pack!TypeOK /\ GroupsInv /\ FlowStepsInv /\ UploadsInv /\ (pack_misled \/ Sighted)
      /\ pack!CopyIsOfTheGroupPicked
      BY DEF PackInv
<1>2. /\ UNCHANGED <<pack_stored, pack_files, pack_step, pack_group, pack_listing, pack_picks, pack_linked,
                     pack_detail, pack_mine, pack_tasks, pack_voice, pack_jumped, pack_misled>>
      /\ pack_page' \in {"flow", "group", "editor"} /\ (pack_page' = pack_page \/ pack_page' = "editor")
      /\ pack_brief' \in BOOLEAN /\ pack_made' \in Groups \cup {pack!None} /\ pack_continuing' \in BOOLEAN
      /\ (pack_continuing' => pack_continuing \/ pack_step < pack!Last)
  <2>1. pack!TypeOK  BY <1>1
  <2>2. CASE pack!handleContinue  BY <2>1, <2>2 DEF pack!handleContinue, pack!TypeOK
  <2>3. CASE pack!Brief  BY <2>1, <2>3 DEF pack!Brief, pack!TypeOK
  <2>4. CASE pack!Generate
    <3>1. pack_detail.id \in Groups \cup {pack!None}  BY <2>1 DEF pack!TypeOK, pack!Copies
    <3>. QED  BY <2>1, <2>4, <3>1 DEF pack!Generate, pack!TypeOK
  <2>5. CASE UNCHANGED pack!vars  BY <2>1, <2>5 DEF pack!vars, pack!TypeOK
  <2>. QED  BY <2>2, <2>3, <2>4, <2>5
<1>3. pack!TypeOK'  BY <1>1, <1>2 DEF pack!TypeOK, pack!Copy
<1>4. GroupsInv'  BY <1>1, <1>2 DEF GroupsInv, UnderWay
<1>5. FlowStepsInv'
  <2>1. pack_step \in 0 .. pack!Last + 1 /\ pack!Last = 3  BY <1>1 DEF pack!TypeOK, pack!Last
  <2>. QED  BY <1>1, <1>2, <2>1 DEF FlowStepsInv
<1>6. UploadsInv' /\ pack!CopyIsOfTheGroupPicked'  BY <1>1, <1>2 DEF UploadsInv, pack!CopyIsOfTheGroupPicked
<1>7. ASSUME Sighted PROVE Sighted'
  <2>1. \A b, i : Covers(b, i)' <=> Covers(b, i)  BY <1>2 DEF Covers
  <2>2. CASE pack_page' = pack_page
    <3>1. pack!Held' = pack!Held /\ pack!Here' = pack!Here /\ Shows' = Shows
          BY <1>2, <2>2 DEF pack!Held, pack!Here, Shows
    <3>2. Covers(pack!Held, pack!Here.id)' <=> Covers(pack!Held, pack!Here.id)  BY <1>2, <3>1 DEF Covers
    <3>. QED  BY <1>2, <1>7, <2>1, <2>2, <3>1, <3>2 DEF Sighted
  <2>3. CASE pack_page' = "editor"
    <3>1. ~ Shows'  BY <2>3 DEF Shows
    <3>. QED  BY <1>2, <1>7, <2>1, <2>3, <3>1 DEF Sighted
  <2>. QED  BY <1>2, <2>2, <2>3
<1>. QED  BY <1>1, <1>2, <1>3, <1>4, <1>5, <1>6, <1>7 DEF PackInv

\* Every step keeps the copy that the uploads are written from as full as the server's, and
\* so no upload of a screen that is not misled empties a slot.
LEMMA PackKeeps ==
    ASSUME PackAssumption, PackInv, [pack!Next]_(pack!vars)
    PROVE  /\ PackInv'
           /\ ~ pack_misled => \A g \in Groups, s \in Slots : pack_stored[g].slots[s] # 0
              => pack_stored'[g].slots[s] # 0
<1>1. ASSUME PackInv' /\ pack_stored' = pack_stored
      PROVE  /\ PackInv'
             /\ ~ pack_misled => \A g \in Groups, s \in Slots : pack_stored[g].slots[s] # 0
                => pack_stored'[g].slots[s] # 0
      BY <1>1
<1>2. CASE pack!handleContinue \/ pack!Brief \/ pack!Generate \/ UNCHANGED pack!vars
      BY <1>1, <1>2, FlowPressKeeps
<1>3. CASE \/ pack!Continued \/ pack!Back \/ (\E n \in 0 .. pack!Last : pack!PickStep(n))
           \/ \E g \in Groups, ok \in BOOLEAN : pack!Entered(g, ok)
      BY <1>1, <1>3, FlowKeeps
<1>4. ASSUME NEW g \in Groups, pack!enterAssets(g) PROVE PackInv' /\ pack_stored' = pack_stored
      BY <1>4, EnterKeeps
<1>5. ASSUME NEW ok \in BOOLEAN, pack!Linked(ok) PROVE PackInv' /\ pack_stored' = pack_stored
      BY <1>5, AddressKeeps
<1>6. ASSUME NEW s \in Slots, pack!upload(s) \/ pack!consent(s) PROVE PackInv' /\ pack_stored' = pack_stored
  <2>1. CASE pack!upload(s)
    <3>1. pack_files + Cardinality(UnderWay) < MaxFiles  BY <2>1, TasksCount DEF pack!upload, UnderWay
    <3>. QED  BY <2>1, <3>1, BeginKeeps DEF pack!upload
  <2>2. CASE pack!consent(s)  BY <2>2, BeginKeeps DEF pack!consent
  <2>. QED  BY <1>6, <2>1, <2>2
<1>7. CASE pack!clone
  <2>1. "voice" \in Slots  BY DEF PackAssumption
  <2>. QED  BY <1>1, <1>7, <2>1, BeginKeeps DEF pack!clone
<1>8. ASSUME NEW t \in pack_tasks, pack!Consented(t)
      PROVE PackInv' /\ \A g \in Groups : pack_stored'[g].slots = pack_stored[g].slots
      BY <1>8, ConsentedKeeps
<1>9. ASSUME NEW t \in pack_tasks,
             pack!Cloned(t) \/ pack!Refused(t) \/ \E ok \in BOOLEAN : pack!refresh(t, ok)
      PROVE  PackInv' /\ pack_stored' = pack_stored
      BY <1>9, ClonedKeeps, RefusedKeeps, RefreshKeeps
<1>10. ASSUME NEW t \in pack_tasks, pack!Uploaded(t)
       PROVE  /\ PackInv'
              /\ ~ pack_misled => \A g \in Groups, s \in Slots : pack_stored[g].slots[s] # 0
                 => pack_stored'[g].slots[s] # 0
       BY <1>10, UploadedKeeps
<1>11. CASE pack!Next
  <2>1. \/ pack!handleContinue \/ pack!Brief \/ pack!Generate
        \/ pack!Continued \/ pack!Back \/ (\E n \in 0 .. pack!Last : pack!PickStep(n))
           \/ (\E g \in Groups, ok \in BOOLEAN : pack!Entered(g, ok))
        \/ (\E g \in Groups : pack!enterAssets(g)) \/ (\E ok \in BOOLEAN : pack!Linked(ok))
        \/ (\E s \in Slots : pack!upload(s) \/ pack!consent(s)) \/ pack!clone
        \/ (\E t \in pack_tasks : pack!Uploaded(t)) \/ (\E t \in pack_tasks : pack!Consented(t))
        \/ \E t \in pack_tasks : pack!Cloned(t) \/ pack!Refused(t) \/ \E ok \in BOOLEAN : pack!refresh(t, ok)
        BY <1>11 DEF pack!Next
  <2>. QED  BY <2>1, <1>1, <1>2, <1>3, <1>4, <1>5, <1>6, <1>7, <1>8, <1>9, <1>10
<1>. QED  BY <1>2, <1>11

\* It holds when the flow, or a group's page, is opened.
LEMMA PackStarts ==
    ASSUME PackAssumption, pack!Init
    PROVE  PackInv
<1>1. 0 \in 0 .. MaxFiles /\ pack!Empty \in Filling /\ pack!Unasked \in [Slots -> BOOLEAN] /\ pack!Last = 3
      BY DEF PackAssumption, pack!Empty, pack!Unasked, Filling, pack!Last
<1>2. pack_stored \in [Groups -> [slots : Filling, consent : [Slots -> BOOLEAN]]]  BY <1>1 DEF pack!Init
<1>3. \A g \in Groups : /\ pack!Copy(g) \in pack!Copies /\ pack!Copy(g).id = g
                        /\ pack!View(g) \in [id : Groups \cup {pack!None}, slots : Filling,
                              consent : [Slots -> BOOLEAN]]
                        /\ pack!View(g).id = g /\ pack!View(g) # pack!NoView
  <2>1. \A g \in Groups : g # pack!None /\ pack_stored[g].slots \in Filling
        /\ pack_stored[g].consent \in [Slots -> BOOLEAN]
        BY <1>2 DEF PackAssumption
  <2>. QED  BY <2>1 DEF pack!Copy, pack!Copies, pack!View, pack!NoView, Filling
<1>4. pack!NoCopy \in pack!Copies
      /\ pack!NoView \in [id : Groups \cup {pack!None}, slots : Filling, consent : [Slots -> BOOLEAN]]
      BY <1>1 DEF pack!NoCopy, pack!Copies, pack!NoView, Filling
<1>5. /\ pack_page \in {"flow", "group"} /\ pack_files = 0 /\ pack_step = 0 /\ pack_continuing = FALSE
         /\ pack_group = pack!NoCopy
      /\ pack_listing = pack!Listed /\ pack_picks = {} /\ pack_detail = pack!NoCopy /\ pack_tasks = {}
         /\ pack_voice = FALSE /\ pack_brief = FALSE
      /\ pack_made = pack!None /\ pack_jumped = FALSE /\ pack_misled = FALSE
         /\ pack_linked \in Groups \cup {pack!None}
      BY DEF pack!Init
<1>6. pack_page = "flow" => pack_mine = pack!NoView  BY DEF pack!Init
<1>7. pack_page = "group" => \E g \in Groups : pack_mine = pack!View(g)  BY DEF pack!Init
<1>8. /\ pack_mine \in [id : Groups \cup {pack!None}, slots : Filling, consent : [Slots -> BOOLEAN]]
      /\ pack_mine = pack!NoView \/ pack_mine.id \in Groups
      /\ pack_page = "group" => pack_mine # pack!NoView
      BY <1>3, <1>4, <1>5, <1>6, <1>7
<1>9. \A g \in Groups : pack_listing[g] \in pack!Copies /\ pack_listing[g].id = g
      BY <1>3, <1>5 DEF pack!Listed
<1>10. pack!TypeOK
  <2>1. \A g \in Groups : pack_stored[g].consent \in [Slots -> BOOLEAN]  BY <1>2
  <2>2. pack_files \in 0 .. MaxFiles /\ pack_step \in 0 .. pack!Last + 1  BY <1>1, <1>5
  <2>3. pack_mine \in [id : Groups \cup {pack!None}, slots : [Slots -> 0 .. MaxFiles],
        consent : [Slots -> BOOLEAN]]
        BY <1>8 DEF Filling
  <2>4. pack_picks \subseteq Groups /\ pack_tasks \subseteq pack!Tasks /\ pack_group \in pack!Copies
        /\ pack_detail \in pack!Copies
        /\ pack_made \in Groups \cup {pack!None}
        BY <1>4, <1>5
  <2>. QED  BY <1>3, <1>5, <1>9, <2>1, <2>2, <2>3, <2>4 DEF pack!TypeOK
<1>11. GroupsInv
  <2>1. IsFiniteSet(pack_tasks) /\ UnderWay = {} /\ Cardinality(UnderWay) = 0
        BY <1>5, FS_EmptySet DEF UnderWay
  <2>2. pack_files + Cardinality(UnderWay) <= MaxFiles  BY <1>5, <2>1 DEF PackAssumption
  <2>. QED  BY <1>2, <1>5, <1>8, <1>9, <2>1, <2>2 DEF GroupsInv
<1>12. FlowStepsInv /\ UploadsInv /\ pack!CopyIsOfTheGroupPicked
       BY <1>1, <1>5, <1>6, <1>8 DEF FlowStepsInv, UploadsInv, pack!CopyIsOfTheGroupPicked
<1>13. Sighted
  <2>1. Shows => pack_page = "group"  BY <1>5 DEF Shows
  <2>2. ASSUME pack_page = "group" PROVE Covers(pack!Held, pack!Here.id)
    <3>1. PICK g \in Groups : pack_mine = pack!View(g)  BY <1>7, <2>2
    <3>2. pack!Held = pack_stored[g].slots /\ pack!Here.id = g
          BY <1>3, <2>2, <3>1 DEF pack!Held, pack!Here, pack!View
    <3>. QED  BY <3>2 DEF Covers
  <2>. QED  BY <1>5, <1>6, <2>1, <2>2 DEF Sighted
<1>. QED  BY <1>10, <1>11, <1>12, <1>13 DEF PackInv

\* What the invariant promises of the steps.
LEMMA PackPromises ==
    ASSUME PackInv
    PROVE  pack!TypeOK /\ pack!CopyIsOfTheGroupPicked /\ pack!StepExists
BY DEF PackInv, FlowStepsInv, pack!StepExists

-----------------------------------------------------------------------------
(* The form of a new video and its review (setup).                            *)

\* The requests to start a video that are still unanswered.
Starts == {s \in setup_sends : s.stage = "asked"}

\* A step is left by Continue only from one that has a next.
FormStepsInv ==
    /\ setup_continuing => setup_step <= setup!Last
    /\ setup_jumped \/ (setup_step <= setup!Last /\ (setup_continuing => setup_step < setup!Last))

\* A quote that still counts, and the price on screen, are of what the review step shows.
PricesInv ==
    /\ setup_credits # setup!NoPrice => setup_step = setup!Last
       /\ setup_credits = setup!Priced(setup_who, setup_text)
    /\ \A q \in setup_quotes : q.live => setup_step = setup!Last
       /\ q.req = setup!Priced(setup_who, setup_text)

\* Nothing was sent; or one request was, and the review step waits for its job or for the
\* project of it; or the project is open.
OneVideo ==
    \/ setup_again
    \/ setup_jobs = 0 /\ setup_sends = {}
    \/ setup_jobs = 1 /\ setup_sends = {} /\ setup_page = "editor"
    \/ /\ setup_page = "form" /\ setup_step = setup!Last /\ setup_starting
       /\ \E r \in setup!Requests :
            \/ setup_jobs = 0 /\ setup_sends = {[req |-> r, stage |-> "asked", here |-> TRUE]}
            \/ setup_jobs = 1 /\ setup_sends = {[req |-> r, stage |-> "started", here |-> TRUE]}

\* No more jobs can come of what was sent than the bound lets be started.
JobsBounded == IsFiniteSet(setup_sends) /\ setup_jobs + Cardinality(Starts) <= MaxStarts + 1

\* What holds throughout of the form.
SetupInv ==
    /\ setup!TypeOK /\ FormStepsInv /\ PricesInv /\ OneVideo /\ JobsBounded
    /\ setup_brought # setup!None => setup_text = setup_brought

-----------------------------------------------------------------------------
\* A set of requests has the same size everywhere.
LEMMA RequestsCount == \A S : setup!Cardinality(S) = Cardinality(S)
BY Zenon DEF setup!Cardinality, Cardinality

\* What is priced is a request.
LEMMA PricedIs == ASSUME NEW w \in {"clip", "avatar"}, NEW t \in SUBSET Texts
    PROVE setup!Priced(w, t) \in setup!Requests
BY DEF setup!Priced, setup!Requests

\* Forgetting does not make requests more.
LEMMA ForgottenAreNoMore ==
    ASSUME NEW S, IsFiniteSet(S), NEW T, T = {[s EXCEPT !.here = FALSE] : s \in S}
    PROVE  IsFiniteSet(T) /\ Cardinality(T) <= Cardinality(S)
<1>. DEFINE f == [s \in S |-> [s EXCEPT !.here = FALSE]]
<1>1. f \in [S -> T] /\ \A x \in T : \E s \in S : f[s] = x  OBVIOUS
<1>. HIDE DEF f
<1>2. f \in Surjection(S, T)  BY <1>1 DEF Surjection
<1>. QED  BY <1>2, FS_Surjection

\* Requests of which some page may have stopped hearing.
LEMMA SendsForgotten ==
    ASSUME SetupAssumption, SetupInv, setup_sends' = {[s EXCEPT !.here = FALSE] : s \in setup_sends},
           setup_jobs' = setup_jobs
    PROVE  /\ setup_sends' \subseteq [req : setup!Requests, stage : {"asked", "started"}, here : BOOLEAN]
           /\ JobsBounded'
<1>1. setup_sends \subseteq [req : setup!Requests, stage : {"asked", "started"}, here : BOOLEAN]
      BY DEF SetupInv, setup!TypeOK
<1>2. IsFiniteSet(setup_sends)  BY DEF SetupInv, JobsBounded
<1>3. IsFiniteSet(setup_sends')  BY <1>2, ForgottenAreNoMore
<1>4. IsFiniteSet(Starts) /\ Starts \subseteq setup_sends  BY <1>2, FS_Subset DEF Starts
<1>5. Starts' = {[s EXCEPT !.here = FALSE] : s \in Starts}  BY <1>1 DEF Starts
<1>6. IsFiniteSet(Starts') /\ Cardinality(Starts') <= Cardinality(Starts)  BY <1>4, <1>5, ForgottenAreNoMore
<1>7. Cardinality(Starts') \in Nat /\ Cardinality(Starts) \in Nat  BY <1>4, <1>6, FS_CardinalityType
<1>8. setup_jobs + Cardinality(Starts) <= MaxStarts + 1 /\ setup_jobs \in Nat /\ MaxStarts \in Nat
      BY DEF SetupInv, JobsBounded, setup!TypeOK, SetupAssumption
<1>9. JobsBounded'  BY <1>3, <1>6, <1>7, <1>8 DEF JobsBounded
<1>10. setup_sends' \subseteq [req : setup!Requests, stage : {"asked", "started"}, here : BOOLEAN]  BY <1>1
<1>. QED  BY <1>9, <1>10

\* Whatever opens, leaves or changes the review step.
LEMMA ReviewKeeps ==
    ASSUME SetupAssumption, SetupInv, NEW n \in 0 .. setup!Last + 1, NEW w \in {"clip", "avatar"},
           NEW t \in SUBSET Texts, setup!Review(n, w, t), setup_page = "form", UNCHANGED <<setup_page, setup_jobs>>
    PROVE  /\ setup_draft' \in setup!Saved /\ setup_text' = t /\ setup_who' = w /\ setup_step' = n
           /\ setup_quotes' \subseteq [req : setup!Requests, live : BOOLEAN]
              /\ setup_credits' \in setup!Requests \cup {setup!NoPrice}
           /\ setup_confirming' \in BOOLEAN /\ setup_starting' \in BOOLEAN /\ setup_again' \in BOOLEAN
           /\ setup_sends' \subseteq [req : setup!Requests, stage : {"asked", "started"}, here : BOOLEAN]
           /\ PricesInv' /\ OneVideo' /\ JobsBounded'
<1>. DEFINE opens == n = setup!Last /\ setup_step # setup!Last
            leaves == n # setup!Last /\ setup_step = setup!Last
            changes == n = setup!Last /\ setup_step = setup!Last
              /\ setup!Priced(w, t) # setup!Priced(setup_who, setup_text)
            asks == (opens \/ changes) /\ ~ (w = "avatar" /\ t = {})
            fresh == [req |-> setup!Priced(w, t), live |-> TRUE]
<1>1. /\ setup_step' = n /\ setup_who' = w /\ setup_text' = t
      /\ setup_quotes' = (IF opens \/ leaves \/ changes THEN setup!Cancelled ELSE setup_quotes)
                         \cup (IF asks THEN {fresh} ELSE {})
      /\ setup_credits' = IF opens \/ leaves \/ changes THEN setup!NoPrice ELSE setup_credits
      /\ setup_confirming' = IF opens \/ leaves THEN FALSE ELSE setup_confirming
      /\ setup_starting' = IF opens \/ leaves THEN FALSE ELSE setup_starting
      /\ setup_sends' = IF leaves THEN {[s EXCEPT !.here = FALSE] : s \in setup_sends} ELSE setup_sends
      /\ setup_again' = (setup_again \/ (leaves /\ setup_sends # {}))
      /\ setup_draft' = [kept |-> TRUE, text |-> t]
      BY DEF setup!Review
<1>2. setup_quotes \subseteq [req : setup!Requests, live : BOOLEAN]
      /\ setup_credits \in setup!Requests \cup {setup!NoPrice}
      /\ setup_confirming \in BOOLEAN /\ setup_starting \in BOOLEAN /\ setup_again \in BOOLEAN
      /\ setup_sends \subseteq [req : setup!Requests, stage : {"asked", "started"}, here : BOOLEAN]
      BY DEF SetupInv, setup!TypeOK
<1>3. setup!Cancelled \subseteq [req : setup!Requests, live : BOOLEAN] /\ \A q \in setup!Cancelled : ~ q.live
      BY <1>2 DEF setup!Cancelled
<1>4. fresh \in [req : setup!Requests, live : BOOLEAN] /\ fresh.req = setup!Priced(w, t)  BY PricedIs
<1>. HIDE DEF fresh
<1>5. setup_quotes' \subseteq [req : setup!Requests, live : BOOLEAN]  BY <1>1, <1>2, <1>3, <1>4
<1>6. setup_credits' \in setup!Requests \cup {setup!NoPrice}  BY <1>1, <1>2
<1>7. setup_draft' \in setup!Saved  BY <1>1 DEF setup!Saved
<1>8. setup!Priced(setup_who, setup_text)' = setup!Priced(w, t)  BY <1>1 DEF setup!Priced
<1>9. PricesInv'
  <2>1. CASE opens \/ leaves \/ changes
    <3>1. \A q \in setup_quotes' : q.live => q = fresh /\ n = setup!Last  BY <1>1, <1>3, <2>1
    <3>. QED  BY <1>1, <1>4, <1>8, <2>1, <3>1 DEF PricesInv
  <2>2. CASE ~ (opens \/ leaves \/ changes)
    <3>1. setup_quotes' = setup_quotes /\ setup_credits' = setup_credits /\ setup_step' = n  BY <1>1, <2>2
    <3>2. setup_step = setup!Last => n = setup!Last
          /\ setup!Priced(w, t) = setup!Priced(setup_who, setup_text)
          BY <2>2
    <3>. QED  BY <1>8, <3>1, <3>2 DEF PricesInv, SetupInv
  <2>. QED  BY <2>1, <2>2
<1>10. OneVideo'
  <2>1. CASE setup_sends = {}  BY <1>1, <2>1 DEF OneVideo, SetupInv
  <2>2. CASE setup_sends # {}
    <3>1. setup_again \/ setup_step = setup!Last  BY <2>2 DEF OneVideo, SetupInv
    <3>2. CASE setup_again'  BY <3>2 DEF OneVideo
    <3>3. CASE ~ setup_again'  BY <1>1, <2>2, <3>1, <3>3 DEF OneVideo, SetupInv
    <3>. QED  BY <3>2, <3>3
  <2>. QED  BY <2>1, <2>2
<1>11. JobsBounded' /\ setup_sends' \subseteq [req : setup!Requests, stage : {"asked", "started"},
      here : BOOLEAN]
  <2>1. CASE leaves  BY <1>1, <2>1, SendsForgotten
  <2>2. CASE ~ leaves
    <3>1. setup_sends' = setup_sends /\ setup_jobs' = setup_jobs  BY <1>1, <2>2
    <3>2. JobsBounded  BY DEF SetupInv
    <3>. QED  BY <1>2, <3>1, <3>2 DEF JobsBounded, Starts
  <2>. QED  BY <2>1, <2>2
<1>. QED  BY <1>1, <1>2, <1>5, <1>6, <1>7, <1>9, <1>10, <1>11

\* The form and the steps around the review, while the form is open.
LEMMA FormKeeps ==
    ASSUME SetupAssumption, SetupInv,
           \/ setup!Continued \/ setup!Back \/ (\E n \in 0 .. setup!Last : setup!PickStep(n))
           \/ (\E w \in {"clip", "avatar"} : setup!SavedAvatar(w)) \/ (\E b \in BOOLEAN : setup!UploadEnds(b))
           \/ (\E t \in Texts : setup!StepObjective(t) \/ setup!StepFormat(t) \/ setup!StepScript(t))
    PROVE  SetupInv'
<1>0. setup_step \in 0 .. setup!Last + 1 /\ setup_who \in {"clip", "avatar"} /\ setup_text \in SUBSET Texts
      /\ setup_continuing \in BOOLEAN /\ setup_uploading \in BOOLEAN /\ setup_jumped \in BOOLEAN
         /\ setup_jobs \in 0 .. MaxStarts + 1
      /\ setup_idea \in SUBSET Texts /\ setup_script \in SUBSET Texts /\ setup_brought \in SUBSET Texts
      /\ setup_page \in {"new", "form", "editor"}
      BY DEF SetupInv, setup!TypeOK
<1>. DEFINE Staying(n) == /\ UNCHANGED <<setup_page, setup_idea, setup_script, setup_jobs>>
                             /\ setup_page = "form"
                       /\ setup_continuing' \in BOOLEAN /\ setup_uploading' \in BOOLEAN
                          /\ setup_jumped' \in BOOLEAN
                       /\ (setup_continuing' => n <= setup!Last)
                       /\ (setup_jumped' \/ (n <= setup!Last /\ (setup_continuing' => n < setup!Last)))
<1>1. ASSUME NEW n \in 0 .. setup!Last + 1, NEW w \in {"clip", "avatar"}, NEW t \in SUBSET Texts,
             setup!Review(n, w, t), Staying(n), setup_brought' = setup!None
               \/ (setup_brought' = setup_brought /\ t = setup_text)
      PROVE  SetupInv'
  <2>1. /\ setup_draft' \in setup!Saved /\ setup_text' = t /\ setup_who' = w /\ setup_step' = n
        /\ setup_quotes' \subseteq [req : setup!Requests, live : BOOLEAN]
           /\ setup_credits' \in setup!Requests \cup {setup!NoPrice}
        /\ setup_confirming' \in BOOLEAN /\ setup_starting' \in BOOLEAN /\ setup_again' \in BOOLEAN
        /\ setup_sends' \subseteq [req : setup!Requests, stage : {"asked", "started"}, here : BOOLEAN]
        /\ PricesInv' /\ OneVideo' /\ JobsBounded'
        BY <1>1, ReviewKeeps
  <2>2. FormStepsInv'  BY <1>1, <2>1 DEF FormStepsInv
  <2>3. setup_brought' # setup!None => setup_text' = setup_brought'  BY <1>1, <2>1 DEF SetupInv
  <2>4. setup_brought' \in SUBSET Texts  BY <1>0, <1>1 DEF setup!None
  <2>5. setup!TypeOK'  BY <1>0, <1>1, <2>1, <2>4 DEF setup!TypeOK
  <2>. QED  BY <2>1, <2>2, <2>3, <2>5 DEF SetupInv
<1>2. FormStepsInv  BY DEF SetupInv
<1>3. CASE setup!Continued
  <2>1. setup_step + 1 \in 0 .. setup!Last + 1 /\ Staying(setup_step + 1)
    <3>1. setup_continuing /\ setup_continuing' = FALSE /\ setup_page = "form"
          /\ UNCHANGED <<setup_page, setup_idea, setup_script, setup_brought, setup_uploading, setup_jobs,
                         setup_jumped>>
          BY <1>3 DEF setup!Continued
    <3>2. setup_step \in 0 .. 4 /\ (~ setup_jumped => setup_step < 4)
          BY <1>0, <1>2, <3>1 DEF FormStepsInv, setup!Last
    <3>3. setup_step + 1 \in 0 .. 5 /\ (~ setup_jumped => setup_step + 1 <= 4)  BY <3>2
    <3>4. setup_step + 1 \in 0 .. setup!Last + 1 /\ (setup_jumped \/ setup_step + 1 <= setup!Last)
          BY <1>0, <3>3 DEF setup!Last
    <3>. QED  BY <1>0, <3>1, <3>4
  <2>. QED  BY <1>0, <1>1, <1>3, <2>1 DEF setup!Continued
<1>4. CASE setup!Back
  <2>1. setup_step - 1 \in 0 .. setup!Last + 1 /\ Staying(setup_step - 1)
        BY <1>0, <1>2, <1>4 DEF setup!Back, FormStepsInv, setup!Last
  <2>. QED  BY <1>0, <1>1, <1>4, <2>1 DEF setup!Back
<1>5. ASSUME NEW n \in 0 .. setup!Last, setup!PickStep(n) PROVE SetupInv'
  <2>1. n \in 0 .. setup!Last + 1 /\ Staying(n)
        BY <1>0, <1>2, <1>5 DEF setup!PickStep, FormStepsInv, setup!Last
  <2>. QED  BY <1>0, <1>1, <1>5, <2>1 DEF setup!PickStep
<1>6. ASSUME UNCHANGED <<setup_page, setup_idea, setup_script, setup_jobs, setup_continuing, setup_jumped>>,
             setup_uploading' \in BOOLEAN, setup_page = "form"
      PROVE  Staying(setup_step)
      BY <1>0, <1>2, <1>6 DEF FormStepsInv
<1>7. ASSUME NEW w \in {"clip", "avatar"}, setup!SavedAvatar(w) PROVE SetupInv'
  <2>1. Staying(setup_step)  BY <1>0, <1>6, <1>7 DEF setup!SavedAvatar
  <2>. QED  BY <1>0, <1>1, <1>7, <2>1 DEF setup!SavedAvatar
<1>8. ASSUME NEW b \in BOOLEAN, setup!UploadEnds(b) PROVE SetupInv'
  <2>1. Staying(setup_step)  BY <1>0, <1>6, <1>8 DEF setup!UploadEnds
  <2>2. (IF b THEN "clip" ELSE setup_who) \in {"clip", "avatar"}  BY <1>0
  <2>. QED  BY <1>0, <1>1, <1>8, <2>1, <2>2 DEF setup!UploadEnds
<1>9. ASSUME NEW t \in Texts, setup!Type(t) PROVE SetupInv'
  <2>1. Staying(setup_step)  BY <1>0, <1>6, <1>9 DEF setup!Type
  <2>2. {t} \in SUBSET Texts  OBVIOUS
  <2>. QED  BY <1>0, <1>1, <1>9, <2>1, <2>2 DEF setup!Type
<1>. QED  BY <1>3, <1>4, <1>5, <1>7, <1>8, <1>9 DEF setup!StepObjective, setup!StepFormat, setup!StepScript

\* The form is opened, left, or the page before it is used.
LEMMA VisitsKeep ==
    ASSUME SetupAssumption, SetupInv,
           \/ (\E t \in Texts : setup!OwnIdea(t) \/ setup!Approve(t))
           \/ setup!ContinueToSetup \/ setup!Visit \/ setup!Leave
    PROVE  SetupInv'
<1>. USE DEF SetupInv, setup!TypeOK
<1>1. ASSUME NEW d \in setup!Saved, NEW i \in SUBSET Texts, NEW s \in SUBSET Texts,
             NEW choice \in SUBSET Texts,
             setup_page = "new", setup!Open(d, i, s, choice), choice = setup!None
               \/ setup!Prefilled(d, i, s) = choice
      PROVE  SetupInv'
  <2>1. setup!Prefilled(d, i, s) \in SUBSET Texts  BY <1>1 DEF setup!Prefilled, setup!Saved
  <2>2. setup_page' = "form" /\ setup_brought' = choice /\ setup_text' = setup!Prefilled(d, i, s)
        /\ setup_draft' = [kept |-> TRUE, text |-> setup_text']
        /\ setup_idea' = i /\ setup_script' = s /\ setup_who' = "clip" /\ setup_step' = 0
           /\ setup_continuing' = FALSE
        /\ setup_uploading' = FALSE /\ setup_quotes' = {} /\ setup_credits' = setup!NoPrice
        /\ setup_confirming' = FALSE /\ setup_starting' = FALSE
        /\ setup_sends' = setup_sends /\ setup_jobs' = setup_jobs /\ setup_again' = setup_again
           /\ setup_jumped' = setup_jumped
        BY <1>1 DEF setup!Open
  <2>3. setup_draft' \in setup!Saved  BY <2>1, <2>2 DEF setup!Saved
  <2>4. FormStepsInv' /\ PricesInv'  BY <2>2 DEF FormStepsInv, PricesInv, setup!Last
  <2>5. OneVideo'  BY <1>1, <2>2 DEF OneVideo
  <2>6. JobsBounded'  BY <2>2 DEF JobsBounded, Starts
  <2>7. setup_step' \in 0 .. setup!Last + 1  BY <2>2 DEF setup!Last
  <2>8. setup!TypeOK'  BY <2>1, <2>2, <2>3, <2>7
  <2>. QED  BY <1>1, <2>2, <2>4, <2>5, <2>6, <2>8
<1>2. ASSUME NEW t \in Texts, setup!OwnIdea(t) PROVE SetupInv'
  <2>1. setup!NoDraft \in setup!Saved /\ setup!None \in SUBSET Texts /\ {t} \in SUBSET Texts
        BY DEF setup!NoDraft, setup!Saved, setup!None
  <2>2. setup!Prefilled(setup!NoDraft, {t}, setup!None) = {t}
        BY DEF setup!Prefilled, setup!NoDraft, setup!None
  <2>. QED  BY <1>1, <1>2, <2>1, <2>2 DEF setup!OwnIdea
<1>3. CASE setup!ContinueToSetup
  <2>1. setup!NoDraft \in setup!Saved /\ setup!None \in SUBSET Texts
        BY DEF setup!NoDraft, setup!Saved, setup!None
  <2>2. setup!Prefilled(setup!NoDraft, setup!None, setup_script) = setup_script
        BY DEF setup!Prefilled, setup!NoDraft, setup!None
  <2>. QED  BY <1>1, <1>3, <2>1, <2>2 DEF setup!ContinueToSetup
<1>4. CASE setup!Visit
  <2>1. setup!None \in SUBSET Texts  BY DEF setup!None
  <2>. QED  BY <1>1, <1>4, <2>1 DEF setup!Visit
<1>5. CASE setup!Leave
  <2>1. UNCHANGED <<setup_draft, setup_idea, setup_script, setup_brought, setup!form, setup_sends,
                    setup_jobs, setup_again, setup_jumped>> /\ setup_sends = {} /\ setup_page' = "new"
        BY <1>5 DEF setup!Leave
  <2>2. UNCHANGED <<setup_text, setup_who, setup_step, setup_continuing, setup_uploading, setup_quotes,
                    setup_credits, setup_confirming, setup_starting>>
        BY <2>1 DEF setup!form
  <2>3. FormStepsInv' /\ PricesInv' /\ JobsBounded'
        BY <2>1, <2>2 DEF FormStepsInv, PricesInv, JobsBounded, Starts, setup!Priced
  <2>4. OneVideo'
    <3>1. setup_page = "form"  BY <1>5 DEF setup!Leave
    <3>2. \A r : setup_sends # {r}  BY <2>1
    <3>3. setup_again \/ (setup_jobs = 0 /\ setup_sends = {})  BY <2>1, <3>1, <3>2 DEF OneVideo
    <3>. QED  BY <2>1, <3>3 DEF OneVideo
  <2>. QED  BY <2>1, <2>2, <2>3, <2>4
<1>6. ASSUME NEW t \in Texts, setup!Approve(t) PROVE SetupInv'
  <2>1. UNCHANGED <<setup_page, setup_draft, setup_idea, setup_brought, setup!form, setup_sends, setup_jobs,
                    setup_again, setup_jumped>> /\ setup_script' = {t}
        BY <1>6 DEF setup!Approve
  <2>2. UNCHANGED <<setup_text, setup_who, setup_step, setup_continuing, setup_uploading, setup_quotes,
                    setup_credits, setup_confirming, setup_starting>>
        BY <2>1 DEF setup!form
  <2>3. FormStepsInv' /\ PricesInv' /\ JobsBounded' /\ OneVideo'
        BY <2>1, <2>2 DEF FormStepsInv, PricesInv, JobsBounded, Starts, setup!Priced, OneVideo
  <2>. QED  BY <2>1, <2>2, <2>3
<1>. QED  BY <1>2, <1>3, <1>4, <1>5, <1>6

\* The buttons and the quotes of the review step.
LEMMA QuotesKeep ==
    ASSUME SetupAssumption, SetupInv,
           \/ setup!handleContinue \/ setup!upload \/ setup!RetryQuote
              \/ (\E b \in BOOLEAN : setup!Confirm(b))
           \/ (\E q \in setup_quotes, ok \in BOOLEAN : setup!Quoted(q, ok)) \/ UNCHANGED setup!vars
    PROVE  SetupInv'
<1>0. UNCHANGED <<setup_page, setup_draft, setup_idea, setup_script, setup_brought, setup_text, setup_who,
                  setup_step, setup_sends, setup_starting, setup_jobs, setup_again, setup_jumped>>
  <2>1. ASSUME NEW q \in setup_quotes, NEW ok \in BOOLEAN, setup!Quoted(q, ok)
        PROVE  UNCHANGED <<setup_page, setup_draft, setup_idea, setup_script, setup_brought, setup_text,
                           setup_who, setup_step, setup_sends, setup_starting, setup_jobs, setup_again,
                           setup_jumped>>
        BY <2>1 DEF setup!Quoted
  <2>2. ASSUME NEW b \in BOOLEAN, setup!Confirm(b)
        PROVE  UNCHANGED <<setup_page, setup_draft, setup_idea, setup_script, setup_brought, setup_text,
                           setup_who, setup_step, setup_sends, setup_starting, setup_jobs, setup_again,
                           setup_jumped>>
        BY <2>2 DEF setup!Confirm
  <2>. QED  BY <2>1, <2>2 DEF setup!handleContinue, setup!upload, setup!RetryQuote, setup!vars, setup!form
<1>1. OneVideo' /\ JobsBounded'  BY <1>0 DEF SetupInv, OneVideo, JobsBounded, Starts
<1>2. setup!Priced(setup_who, setup_text)' = setup!Priced(setup_who, setup_text)  BY <1>0 DEF setup!Priced
<1>3. setup_quotes' \subseteq [req : setup!Requests, live : BOOLEAN]
      /\ setup_credits' \in setup!Requests \cup {setup!NoPrice} /\ PricesInv'
  <2>0. /\ setup_quotes \subseteq [req : setup!Requests, live : BOOLEAN]
           /\ setup_credits \in setup!Requests \cup {setup!NoPrice} /\ PricesInv
        /\ setup_who \in {"clip", "avatar"} /\ setup_text \in SUBSET Texts
        BY DEF SetupInv, setup!TypeOK
  <2>1. CASE UNCHANGED <<setup_quotes, setup_credits>>  BY <1>0, <1>2, <2>0, <2>1 DEF PricesInv
  <2>2. ASSUME NEW q \in setup_quotes, NEW ok \in BOOLEAN, setup!Quoted(q, ok)
        PROVE  setup_quotes' \subseteq [req : setup!Requests, live : BOOLEAN]
          /\ setup_credits' \in setup!Requests \cup {setup!NoPrice} /\ PricesInv'
    <3>1. setup_quotes' = setup_quotes \ {q} /\ setup_credits' = IF q.live /\ ok THEN q.req ELSE setup_credits
          BY <2>2 DEF setup!Quoted
    <3>2. q.req \in setup!Requests  BY <2>0
    <3>. QED  BY <1>0, <1>2, <2>0, <3>1, <3>2 DEF PricesInv
  <2>3. CASE setup!RetryQuote
    <3>. DEFINE r == [req |-> setup!Priced(setup_who, setup_text), live |-> TRUE]
    <3>1. r \in [req : setup!Requests, live : BOOLEAN] /\ r.req = setup!Priced(setup_who, setup_text)
          BY <2>0, PricedIs
    <3>2. setup_quotes' = setup_quotes \cup {r} /\ setup_credits' = setup_credits /\ setup_step = setup!Last
          BY <2>3 DEF setup!RetryQuote
    <3>. HIDE DEF r
    <3>. QED  BY <1>0, <1>2, <2>0, <3>1, <3>2 DEF PricesInv
  <2>4. \A b : setup!Confirm(b) => UNCHANGED <<setup_quotes, setup_credits>>  BY DEF setup!Confirm
  <2>. QED  BY <2>1, <2>2, <2>3, <2>4 DEF setup!handleContinue, setup!upload, setup!vars, setup!form
<1>4. setup_continuing' \in BOOLEAN /\ setup_uploading' \in BOOLEAN /\ setup_confirming' \in BOOLEAN
      /\ (setup_continuing' => setup_step <= setup!Last)
         /\ (~ setup_jumped /\ setup_continuing' => setup_step < setup!Last)
  <2>0. setup_continuing \in BOOLEAN /\ setup_uploading \in BOOLEAN /\ setup_confirming \in BOOLEAN
        /\ FormStepsInv
        BY DEF SetupInv, setup!TypeOK
  <2>1. ASSUME NEW q \in setup_quotes, NEW ok \in BOOLEAN, setup!Quoted(q, ok)
        PROVE  UNCHANGED <<setup_continuing, setup_uploading, setup_confirming>>
        BY <2>1 DEF setup!Quoted
  <2>2. ASSUME NEW b \in BOOLEAN, setup!Confirm(b)
        PROVE  UNCHANGED <<setup_continuing, setup_uploading>> /\ setup_confirming' \in BOOLEAN
        BY <2>2 DEF setup!Confirm
  <2>3. CASE setup!handleContinue
    <3>1. setup_step < setup!Last /\ setup_continuing' = TRUE
          /\ UNCHANGED <<setup_uploading, setup_confirming>>
          BY <2>3 DEF setup!handleContinue
    <3>2. setup_step \in 0 .. setup!Last + 1  BY DEF SetupInv, setup!TypeOK
    <3>. QED  BY <2>0, <3>1, <3>2 DEF setup!Last
  <2>4. CASE setup!upload \/ setup!RetryQuote \/ UNCHANGED setup!vars
    <3>1. UNCHANGED <<setup_continuing, setup_confirming>> /\ setup_uploading' \in BOOLEAN
          BY <2>0, <2>4 DEF setup!upload, setup!RetryQuote, setup!vars, setup!form
    <3>. QED  BY <2>0, <3>1 DEF FormStepsInv
  <2>. QED  BY <2>0, <2>1, <2>2, <2>3, <2>4 DEF FormStepsInv
<1>5. setup!TypeOK'  BY <1>0, <1>3, <1>4 DEF SetupInv, setup!TypeOK
<1>6. FormStepsInv'  BY <1>0, <1>4 DEF SetupInv, FormStepsInv
<1>. QED  BY <1>0, <1>1, <1>3, <1>5, <1>6 DEF SetupInv

\* One more of what was sent, or one less.
LEMMA SendsCount ==
    ASSUME SetupAssumption, SetupInv
    PROVE  /\ IsFiniteSet(setup_sends) /\ IsFiniteSet(Starts) /\ Cardinality(Starts) \in Nat
              /\ Cardinality(setup_sends) \in Nat
           /\ Cardinality(Starts) <= Cardinality(setup_sends)
           /\ \A s \in setup_sends : IsFiniteSet(setup_sends \ {s})
           /\ \A s \in Starts : IsFiniteSet(Starts \ {s})
              /\ Cardinality(Starts \ {s}) = Cardinality(Starts) - 1
           /\ setup_jobs \in Nat /\ MaxStarts \in Nat /\ setup_jobs + Cardinality(Starts) <= MaxStarts + 1
<1>1. IsFiniteSet(setup_sends)  BY DEF SetupInv, JobsBounded
<1>2. IsFiniteSet(Starts) /\ Cardinality(Starts) <= Cardinality(setup_sends)  BY <1>1, FS_Subset DEF Starts
<1>3. Cardinality(Starts) \in Nat /\ Cardinality(setup_sends) \in Nat  BY <1>1, <1>2, FS_CardinalityType
<1>4. \A s \in setup_sends : IsFiniteSet(setup_sends \ {s})  BY <1>1, FS_RemoveElement
<1>5. \A s \in Starts : IsFiniteSet(Starts \ {s}) /\ Cardinality(Starts \ {s}) = Cardinality(Starts) - 1
      BY <1>2, FS_RemoveElement
<1>6. setup_jobs \in Nat /\ MaxStarts \in Nat /\ setup_jobs + Cardinality(Starts) <= MaxStarts + 1
      BY DEF SetupInv, JobsBounded, setup!TypeOK, SetupAssumption
<1>. QED  BY <1>1, <1>2, <1>3, <1>4, <1>5, <1>6

\* A request whose job is started.
LEMMA StartedIs ==
    ASSUME NEW u \in [req : setup!Requests, stage : {"asked", "started"}, here : BOOLEAN]
    PROVE  [u EXCEPT !.stage = "started"] = [req |-> u.req, stage |-> "started", here |-> u.here]
OBVIOUS

\* A request is sent, answered or lost.
LEMMA JobsKeep ==
    ASSUME SetupAssumption, SetupInv,
           \/ setup!generate
           \/ (\E s \in setup_sends : \/ \E told \in BOOLEAN : setup!Started(s, told)
                                      \/ setup!NotStarted(s) \/ setup!ProjectMade(s)
                                         \/ setup!ProjectRefused(s))
    PROVE  SetupInv'
<1>0. /\ setup_sends \subseteq [req : setup!Requests, stage : {"asked", "started"}, here : BOOLEAN]
      /\ setup_page \in {"new", "form", "editor"} /\ setup_starting \in BOOLEAN
         /\ setup_confirming \in BOOLEAN /\ setup_again \in BOOLEAN
      /\ setup_who \in {"clip", "avatar"} /\ setup_text \in SUBSET Texts
      BY DEF SetupInv, setup!TypeOK
<1>1. ASSUME UNCHANGED <<setup_draft, setup_idea, setup_script, setup_brought, setup_text, setup_who,
             setup_step, setup_continuing, setup_uploading, setup_quotes, setup_credits, setup_jumped>>,
             setup_page' \in {"new", "form", "editor"}, setup_starting' \in BOOLEAN,
                   setup_confirming' \in BOOLEAN, setup_again' \in BOOLEAN,
             setup_sends' \subseteq [req : setup!Requests, stage : {"asked", "started"}, here : BOOLEAN],
             setup_jobs' \in 0 .. MaxStarts + 1, OneVideo', JobsBounded'
      PROVE  SetupInv'
  <2>1. setup!TypeOK'  BY <1>1 DEF SetupInv, setup!TypeOK
  <2>2. FormStepsInv' /\ PricesInv'  BY <1>1 DEF SetupInv, FormStepsInv, PricesInv, setup!Priced
  <2>. QED  BY <1>1, <2>1, <2>2 DEF SetupInv
<1>2. CASE setup!generate
  <2>. DEFINE q == [who |-> setup_who, text |-> setup_text]
              r == [req |-> q, stage |-> "asked", here |-> TRUE]
  <2>1. /\ setup_page = "form" /\ setup_step = setup!Last /\ ~ setup_starting /\ setup_starting' = TRUE
           /\ setup_confirming' = FALSE
        /\ setup_jobs + Cardinality(setup_sends) <= MaxStarts /\ setup_sends' = setup_sends \cup {r}
        /\ UNCHANGED <<setup_page, setup_draft, setup_idea, setup_script, setup_brought, setup_text,
                       setup_who, setup_step, setup_continuing, setup_uploading, setup_quotes,
                       setup_credits, setup_jobs, setup_again, setup_jumped>>
        BY <1>2, RequestsCount DEF setup!generate
  <2>2. q \in setup!Requests  BY <1>0 DEF setup!Requests
  <2>3. r \in [req : setup!Requests, stage : {"asked", "started"}, here : BOOLEAN] /\ r.stage = "asked"
        BY <2>2
  <2>4. OneVideo'
    <3>1. CASE setup_again  BY <2>1, <3>1 DEF OneVideo
    <3>2. CASE setup_jobs = 0 /\ setup_sends = {}
      <4>1. setup_sends' = {r} /\ setup_jobs' = 0 /\ setup_page' = "form" /\ setup_step' = setup!Last
            /\ setup_starting'
            BY <2>1, <3>2
      <4>. QED  BY <2>2, <4>1 DEF OneVideo
    <3>. QED  BY <2>1, <3>1, <3>2 DEF OneVideo, SetupInv
  <2>. HIDE DEF r, q
  <2>5. Starts' = Starts \cup {r}  BY <2>1, <2>3 DEF Starts
  <2>6. IsFiniteSet(setup_sends') /\ IsFiniteSet(Starts') /\ Cardinality(Starts') <= Cardinality(Starts) + 1
    <3>1. IsFiniteSet(setup_sends) /\ IsFiniteSet(Starts) /\ Cardinality(Starts) \in Nat  BY SendsCount
    <3>2. IsFiniteSet(setup_sends \cup {r})  BY <3>1, FS_AddElement
    <3>3. IsFiniteSet(Starts \cup {r})
          /\ Cardinality(Starts \cup {r}) = IF r \in Starts THEN Cardinality(Starts) ELSE Cardinality(Starts) + 1
          BY <3>1, FS_AddElement
    <3>. QED  BY <2>1, <2>5, <3>1, <3>2, <3>3
  <2>7. JobsBounded'
    <3>1. Cardinality(Starts') \in Nat  BY <2>6, FS_CardinalityType
    <3>. QED  BY <2>1, <2>6, <3>1, SendsCount DEF JobsBounded
  <2>8. setup_jobs' \in 0 .. MaxStarts + 1  BY <2>1 DEF SetupInv, setup!TypeOK
  <2>. QED  BY <1>0, <1>1, <2>1, <2>3, <2>4, <2>7, <2>8
<1>3. ASSUME NEW s \in setup_sends, s.stage = "asked", setup_sends' = setup_sends \ {s},
             setup_jobs' = setup_jobs
      PROVE  JobsBounded'
  <2>1. s \in Starts /\ Starts' = Starts \ {s}  BY <1>3 DEF Starts
  <2>2. /\ IsFiniteSet(setup_sends \ {s}) /\ Cardinality(Starts \ {s}) = Cardinality(Starts) - 1
        /\ Cardinality(Starts) \in Nat /\ setup_jobs \in Nat /\ MaxStarts \in Nat
           /\ setup_jobs + Cardinality(Starts) <= MaxStarts + 1
        BY <2>1, SendsCount
  <2>3. setup_jobs + Cardinality(Starts \ {s}) <= MaxStarts + 1  BY <2>2
  <2>. QED  BY <1>3, <2>1, <2>2, <2>3 DEF JobsBounded
<1>4. ASSUME NEW s \in setup_sends, s.stage = "asked", setup_jobs' = setup_jobs + 1,
             setup_sends' = setup_sends \ {s}
               \/ setup_sends' = (setup_sends \ {s}) \cup {[s EXCEPT !.stage = "started"]}
      PROVE  JobsBounded' /\ setup_jobs' \in 0 .. MaxStarts + 1
  <2>1. [s EXCEPT !.stage = "started"].stage = "started"  BY <1>0
  <2>2. s \in Starts /\ Starts' = Starts \ {s}  BY <1>4, <2>1 DEF Starts
  <2>3. IsFiniteSet(setup_sends')
    <3>1. IsFiniteSet(setup_sends \ {s})  BY SendsCount
    <3>2. IsFiniteSet((setup_sends \ {s}) \cup {[s EXCEPT !.stage = "started"]})  BY <3>1, FS_AddElement
    <3>. QED  BY <1>4, <3>1, <3>2
  <2>4. Cardinality(Starts') \in Nat /\ setup_jobs + 1 + Cardinality(Starts') <= MaxStarts + 1
    <3>1. IsFiniteSet(Starts \ {s}) /\ Cardinality(Starts \ {s}) = Cardinality(Starts) - 1
          BY <2>2, SendsCount
    <3>2. Cardinality(Starts \ {s}) \in Nat  BY <3>1, FS_CardinalityType
    <3>. QED  BY <2>2, <3>1, <3>2, SendsCount
  <2>. QED  BY <1>4, <2>3, <2>4, SendsCount DEF JobsBounded
<1>5. ASSUME NEW s \in setup_sends, NEW told \in BOOLEAN, setup!Started(s, told) PROVE SetupInv'
  <2>. DEFINE r == [s EXCEPT !.stage = "started"]
  <2>1. /\ s.stage = "asked" /\ setup_jobs' = setup_jobs + 1
        /\ UNCHANGED <<setup_page, setup_draft, setup_idea, setup_script, setup_brought, setup_text,
                       setup_who, setup_step, setup_continuing, setup_uploading, setup_quotes, setup_credits,
                       setup_confirming, setup_jumped>>
        BY <1>5 DEF setup!Started
  <2>2. r \in [req : setup!Requests, stage : {"asked", "started"}, here : BOOLEAN]
        BY <1>0
  <2>3. CASE told
    <3>1. setup_sends' = (setup_sends \ {s}) \cup {r} /\ UNCHANGED <<setup_starting, setup_again>>
          BY <1>5, <2>3 DEF setup!Started
    <3>2. OneVideo'
      <4>1. CASE setup_again  BY <3>1, <4>1 DEF OneVideo
      <4>2. CASE ~ setup_again
        <5>1. PICK q \in setup!Requests :
                 /\ setup_page = "form" /\ setup_step = setup!Last /\ setup_starting
                 /\ \/ setup_jobs = 0 /\ setup_sends = {[req |-> q, stage |-> "asked", here |-> TRUE]}
                    \/ setup_jobs = 1 /\ setup_sends = {[req |-> q, stage |-> "started", here |-> TRUE]}
              BY <4>2 DEF OneVideo, SetupInv
        <5>. DEFINE u == [req |-> q, stage |-> "asked", here |-> TRUE]
                    v == [req |-> q, stage |-> "started", here |-> TRUE]
        <5>2. v.stage = "started"  OBVIOUS
        <5>3. setup_jobs = 0 /\ setup_sends = {s} /\ s = u  BY <2>1, <5>1, <5>2
        <5>4. [s EXCEPT !.stage = "started"] = v
          <6>1. s \in [req : setup!Requests, stage : {"asked", "started"}, here : BOOLEAN]  BY <1>0
          <6>2. s.req = q /\ s.here = TRUE  BY <5>3
          <6>. QED  BY <6>1, <6>2, StartedIs
        <5>. HIDE DEF v
        <5>5. setup_sends' = {v} /\ setup_jobs' = 1
          <6>1. setup_sends \ {s} = {} /\ setup_jobs = 0  BY <5>3
          <6>2. setup_sends' = (setup_sends \ {s}) \cup {v}  BY <3>1, <5>4
          <6>. QED  BY <2>1, <6>1, <6>2
        <5>6. setup_page' = "form" /\ setup_step' = setup!Last /\ setup_starting'  BY <2>1, <3>1, <5>1
        <5>. QED  BY <5>5, <5>6 DEF OneVideo, v
      <4>. QED  BY <4>1, <4>2
    <3>3. setup_sends' \subseteq [req : setup!Requests, stage : {"asked", "started"}, here : BOOLEAN]
          BY <1>0, <2>2, <3>1
    <3>4. JobsBounded' /\ setup_jobs' \in 0 .. MaxStarts + 1  BY <1>4, <2>1, <3>1
    <3>. QED  BY <1>0, <1>1, <2>1, <3>1, <3>2, <3>3, <3>4
  <2>4. CASE ~ told
    <3>1. setup_sends' = setup_sends \ {s} /\ setup_starting' = (IF s.here THEN FALSE ELSE setup_starting)
          /\ setup_again' = TRUE
          BY <1>5, <2>4 DEF setup!Started, setup!Ended
    <3>2. OneVideo'  BY <3>1 DEF OneVideo
    <3>3. JobsBounded' /\ setup_jobs' \in 0 .. MaxStarts + 1  BY <1>4, <2>1, <3>1
    <3>4. setup_sends' \subseteq [req : setup!Requests, stage : {"asked", "started"}, here : BOOLEAN]
          /\ setup_starting' \in BOOLEAN
          BY <1>0, <3>1
    <3>. QED  BY <1>0, <1>1, <2>1, <3>1, <3>2, <3>3, <3>4
  <2>. QED  BY <2>3, <2>4
<1>6. ASSUME NEW s \in setup_sends, setup!NotStarted(s) PROVE SetupInv'
  <2>1. /\ s.stage = "asked" /\ setup_sends' = setup_sends \ {s}
           /\ setup_starting' = (IF s.here THEN FALSE ELSE setup_starting)
        /\ UNCHANGED <<setup_page, setup_draft, setup_idea, setup_script, setup_brought, setup_text,
                       setup_who, setup_step, setup_continuing, setup_uploading, setup_quotes,
                       setup_credits, setup_confirming, setup_jobs, setup_again, setup_jumped>>
        BY <1>6 DEF setup!NotStarted, setup!Ended
  <2>2. OneVideo'
    <3>1. CASE setup_again  BY <2>1, <3>1 DEF OneVideo
    <3>2. CASE ~ setup_again
      <4>1. PICK q \in setup!Requests :
               \/ setup_jobs = 0 /\ setup_sends = {[req |-> q, stage |-> "asked", here |-> TRUE]}
               \/ setup_jobs = 1 /\ setup_sends = {[req |-> q, stage |-> "started", here |-> TRUE]}
            BY <3>2 DEF OneVideo, SetupInv
      <4>2. setup_sends # {[req |-> q, stage |-> "started", here |-> TRUE]}  BY <2>1
      <4>3. setup_jobs' = 0 /\ setup_sends' = {}  BY <2>1, <4>1, <4>2
      <4>. QED  BY <4>3 DEF OneVideo
    <3>. QED  BY <3>1, <3>2
  <2>3. JobsBounded'  BY <1>3, <2>1
  <2>4. setup_sends' \subseteq [req : setup!Requests, stage : {"asked", "started"}, here : BOOLEAN]
        /\ setup_starting' \in BOOLEAN
        BY <1>0, <2>1
  <2>5. setup_jobs' \in 0 .. MaxStarts + 1  BY <2>1 DEF SetupInv, setup!TypeOK
  <2>. QED  BY <1>0, <1>1, <2>1, <2>2, <2>3, <2>4, <2>5
<1>7. ASSUME NEW s \in setup_sends, setup!ProjectMade(s) PROVE SetupInv'
  <2>1. s.stage = "started" /\ setup_page' = "editor" /\ setup_sends' = {}
        /\ UNCHANGED <<setup_draft, setup_idea, setup_script, setup_brought, setup_text, setup_who,
                       setup_step, setup_continuing, setup_uploading, setup_quotes, setup_credits,
                       setup_confirming, setup_starting, setup_jobs, setup_again, setup_jumped>>
        BY <1>7 DEF setup!ProjectMade, setup!form
  <2>2. OneVideo'
    <3>1. setup_again \/ setup_jobs = 1  BY <2>1 DEF OneVideo, SetupInv
    <3>. QED  BY <2>1, <3>1 DEF OneVideo
  <2>3. JobsBounded'
    <3>1. Starts' = {}  BY <2>1 DEF Starts
    <3>2. IsFiniteSet({}) /\ Cardinality({}) = 0  BY FS_EmptySet
    <3>3. setup_jobs \in 0 .. MaxStarts + 1 /\ MaxStarts \in Nat
          BY DEF SetupInv, setup!TypeOK, SetupAssumption
    <3>. QED  BY <2>1, <3>1, <3>2, <3>3 DEF JobsBounded
  <2>5. setup_jobs' \in 0 .. MaxStarts + 1  BY <2>1 DEF SetupInv, setup!TypeOK
  <2>. QED  BY <1>0, <1>1, <2>1, <2>2, <2>3, <2>5
<1>8. ASSUME NEW s \in setup_sends, setup!ProjectRefused(s) PROVE SetupInv'
  <2>1. /\ s.stage = "started" /\ setup_sends' = setup_sends \ {s}
           /\ setup_starting' = (IF s.here THEN FALSE ELSE setup_starting)
        /\ setup_again' = TRUE
        /\ UNCHANGED <<setup_page, setup_draft, setup_idea, setup_script, setup_brought, setup_text,
                       setup_who, setup_step, setup_continuing, setup_uploading, setup_quotes,
                       setup_credits, setup_confirming, setup_jobs, setup_jumped>>
        BY <1>8 DEF setup!ProjectRefused, setup!Ended
  <2>2. OneVideo'  BY <2>1 DEF OneVideo
  <2>3. JobsBounded'
    <3>1. Starts' = Starts  BY <2>1 DEF Starts
    <3>. QED  BY <2>1, <3>1, SendsCount DEF JobsBounded
  <2>4. setup_sends' \subseteq [req : setup!Requests, stage : {"asked", "started"}, here : BOOLEAN]
        /\ setup_starting' \in BOOLEAN
        BY <1>0, <2>1
  <2>5. setup_jobs' \in 0 .. MaxStarts + 1  BY <2>1 DEF SetupInv, setup!TypeOK
  <2>. QED  BY <1>0, <1>1, <2>1, <2>2, <2>3, <2>4, <2>5
<1>. QED  BY <1>2, <1>5, <1>6, <1>7, <1>8

\* The inductive invariant of the video form.
LEMMA SetupKeeps == ASSUME SetupAssumption, SetupInv, [setup!Next]_(setup!vars) PROVE SetupInv'
BY FormKeeps, VisitsKeep, QuotesKeep, JobsKeep DEF setup!Next

\* It holds when the form is opened.
LEMMA SetupStarts == ASSUME SetupAssumption, setup!Init PROVE SetupInv
<1>1. setup!TypeOK
  <2>1. MaxStarts \in Nat /\ 0 \in 0 .. MaxStarts + 1  BY DEF SetupAssumption
  <2>2. setup!NoDraft \in setup!Saved /\ setup!None \in SUBSET Texts
        BY DEF setup!Saved, setup!NoDraft, setup!None
  <2>3. 0 \in 0 .. setup!Last + 1  BY DEF setup!Last
  <2>. QED  BY <2>1, <2>2, <2>3 DEF setup!Init, setup!TypeOK
<1>2. FormStepsInv /\ PricesInv /\ OneVideo  BY DEF setup!Init, FormStepsInv, PricesInv, OneVideo, setup!Last
<1>3. JobsBounded
  <2>1. Starts = {} /\ setup_sends = {} /\ setup_jobs = 0  BY DEF setup!Init, Starts
  <2>. QED  BY <2>1, FS_EmptySet DEF JobsBounded, SetupAssumption
<1>. QED  BY <1>1, <1>2, <1>3 DEF setup!Init, SetupInv

\* What the form promises.
LEMMA SetupPromises ==
    ASSUME SetupAssumption, SetupInv
    PROVE  setup!PriceIsOfTheRequest /\ setup!OneVideoPerConfirmation /\ setup!ChoiceArrives
      /\ setup!SetupStepExists
<1>1. setup!PriceIsOfTheRequest /\ setup!ChoiceArrives /\ setup!SetupStepExists
      BY DEF SetupInv, PricesInv, FormStepsInv, setup!PriceIsOfTheRequest, setup!ChoiceArrives,
         setup!SetupStepExists
<1>2. setup!OneVideoPerConfirmation
  <2>. SUFFICES ASSUME ~ setup_again PROVE setup_jobs + Cardinality(Starts) <= 1
       BY RequestsCount DEF setup!OneVideoPerConfirmation, Starts
  <2>1. CASE setup_jobs \in {0, 1} /\ Starts = {}  BY <2>1, FS_EmptySet
  <2>2. ASSUME NEW x, setup_jobs = 0, Starts = {x} PROVE setup_jobs + Cardinality(Starts) <= 1
        BY <2>2, FS_Singleton
  <2>3. CASE setup_sends = {}  BY <2>1, <2>3 DEF Starts, SetupInv, OneVideo
  <2>4. ASSUME NEW r, setup_jobs = 0, setup_sends = {[req |-> r, stage |-> "asked", here |-> TRUE]}
        PROVE  setup_jobs + Cardinality(Starts) <= 1
    <3>1. Starts = {[req |-> r, stage |-> "asked", here |-> TRUE]}  BY <2>4 DEF Starts
    <3>. QED  BY <2>2, <2>4, <3>1
  <2>5. ASSUME NEW r, setup_jobs = 1, setup_sends = {[req |-> r, stage |-> "started", here |-> TRUE]}
        PROVE  setup_jobs + Cardinality(Starts) <= 1
    <3>1. Starts = {}  BY <2>5 DEF Starts
    <3>. QED  BY <2>1, <2>5, <3>1
  <2>. QED  BY <2>3, <2>4, <2>5 DEF SetupInv, OneVideo
<1>. QED  BY <1>1, <1>2

-----------------------------------------------------------------------------
(* The link, its analysis and the script (link).                              *)

\* What the screen is for: the link asked about, and the job of the address for it.
Approvals == IF link!At = "preview" THEN link_submitted ELSE link_approved
\* The job the address names for the screen.
Named == link!Resumes(link_route, link!At)

\* The effect that is followed is the screen's own.
Follows(t) ==
    /\ link!At # "form" /\ t.kind = link!At
    /\ IF t.phase = "ask" THEN Named = 0 /\ t.link = Approvals
       ELSE IF Named # 0 THEN t.job = Named ELSE t.link = Approvals /\ link_jobs[t.job].link = Approvals

\* Requests for a job that are still to be sent, for a link.
Asks == {t \in link_tasks : t.phase = "ask" /\ t.link # link!NoLink}

\* One effect is followed; the others are requests that are out, and late looks where a
\* draft was opened in place of another. Only links that were on screen are out to be
\* analysed.
TasksInv ==
    /\ \A t \in link_tasks : t.live => Follows(t)
    /\ \A t, u \in link_tasks : t.live /\ u.live => t = u
    /\ \A t \in link_tasks : IF t.phase = "ask" THEN t.job = 0 ELSE t.job \in 1 .. Len(link_jobs)
    /\ \A t \in link_tasks : t.phase = "ask" \/ t.live \/ (t.phase = "watch" /\ link_swapped)
    /\ \A t \in link_tasks : t.phase = "ask" /\ t.kind = "analysis" /\ t.link # link!NoLink
       => t.link \in link_seen
    /\ IsFiniteSet(link_tasks) /\ Len(Drafts) <= Len(link_jobs)
       /\ Len(link_jobs) + Cardinality(Asks) <= MaxStudies

\* What is on screen is a job; a screen that was not swapped shows what it drafted from,
\* and follows nothing more.
ShownInv ==
    /\ link_route.job \in 0 .. Len(link_jobs) /\ link_shown \in 0 .. Len(link_jobs)
       /\ link_drafted \in 0 .. Len(link_jobs)
    /\ link!At = "form" => link_shown = 0
    /\ link_shown = 0 => link_drafted = 0
    /\ link_approved \in Links => link_approved \in link_seen
    /\ ~ link_swapped /\ link!At = "analysis" /\ link_shown # 0 => link_drafted = link_shown
       /\ \A t \in link_tasks : ~ t.live

\* What holds throughout of the screens of a link.
LinkInv ==
    /\ link!TypeOK /\ TasksInv /\ ShownInv
    /\ link!LateResultsAreDropped /\ link!NothingAnalysedUnseen /\ link!ScriptIsOfItsAnalysis
       /\ link!WaitingIsFollowed

-----------------------------------------------------------------------------
\* A set of searches has the same size everywhere.
LEMMA StudiesCount == \A S : link!Cardinality(S) = Cardinality(S)
BY Zenon DEF link!Cardinality, Cardinality

\* The jobs, one by one.
LEMMA JobsAre ==
    ASSUME LinkAssumption, LinkInv
    PROVE  /\ Len(link_jobs) \in Nat /\ DOMAIN link_jobs = 1 .. Len(link_jobs) /\ MaxStudies \in Nat
              /\ Len(link_jobs) <= MaxStudies
           /\ \A j \in 1 .. Len(link_jobs) : link_jobs[j] \in Study
           /\ \A j \in 0 .. Len(link_jobs) : j \in 0 .. MaxStudies
           /\ IsFiniteSet(Asks) /\ Cardinality(Asks) \in Nat
           /\ Len(Drafts) \in Nat
<1>1. link_jobs \in Seq(Study)  BY DEF LinkInv, link!TypeOK, Study
<1>2. Len(link_jobs) \in Nat /\ DOMAIN link_jobs = 1 .. Len(link_jobs)
      /\ \A j \in 1 .. Len(link_jobs) : link_jobs[j] \in Study
      BY <1>1
<1>3. IsFiniteSet(link_tasks)  BY DEF LinkInv, TasksInv
<1>4. IsFiniteSet(Asks)  BY <1>3, FS_Subset DEF Asks
<1>5. Cardinality(Asks) \in Nat  BY <1>4, FS_CardinalityType
<1>6. MaxStudies \in Nat /\ Len(link_jobs) + Cardinality(Asks) <= MaxStudies
      BY DEF LinkAssumption, LinkInv, TasksInv
<1>7. Len(link_jobs) <= MaxStudies  BY <1>2, <1>5, <1>6
<1>8. Len(Drafts) \in Nat  BY DEF LinkAssumption
<1>. QED  BY <1>2, <1>4, <1>5, <1>6, <1>7, <1>8

\* Cancelling does not make requests more.
LEMMA CancelledAre ==
    ASSUME LinkAssumption, LinkInv
    PROVE  /\ link!Cancelled \subseteq link!Tasks /\ IsFiniteSet(link!Cancelled)
           /\ \A t \in link!Cancelled : t.phase = "ask" /\ ~ t.live /\ t.job = 0
           /\ \A t \in link!Cancelled : t.kind = "analysis" /\ t.link # link!NoLink => t.link \in link_seen
           /\ IsFiniteSet({t \in link!Cancelled : t.link # link!NoLink})
           /\ Cardinality({t \in link!Cancelled : t.link # link!NoLink}) \in Nat
           /\ Cardinality({t \in link!Cancelled : t.link # link!NoLink}) <= Cardinality(Asks)
<1>. DEFINE Out == {u \in link_tasks : u.phase = "ask"}
            f == [t \in Out |-> [t EXCEPT !.live = FALSE]]
            g == [t \in Asks |-> [t EXCEPT !.live = FALSE]]
            L == {t \in link!Cancelled : t.link # link!NoLink}
<1>1. link_tasks \subseteq link!Tasks /\ IsFiniteSet(link_tasks)  BY DEF LinkInv, link!TypeOK, TasksInv
<1>2. \A t \in link!Tasks : LET c == [t EXCEPT !.live = FALSE]
                            IN /\ c \in link!Tasks /\ c.phase = t.phase /\ ~ c.live /\ c.job = t.job
                               /\ c.kind = t.kind /\ c.link = t.link
      BY DEF link!Tasks
<1>3. Out \subseteq link!Tasks /\ IsFiniteSet(Out) /\ IsFiniteSet(Asks)  BY <1>1, FS_Subset DEF Asks
<1>4. f \in Surjection(Out, link!Cancelled)
  <2>1. f \in [Out -> link!Cancelled] /\ \A c \in link!Cancelled : \E t \in Out : f[t] = c
        BY DEF link!Cancelled
  <2>. HIDE DEF f
  <2>. QED  BY <2>1 DEF Surjection
<1>5. IsFiniteSet(link!Cancelled)  BY <1>3, <1>4, FS_Surjection
<1>6. \A c \in link!Cancelled : \E t \in Out : /\ c \in link!Tasks /\ c.phase = "ask" /\ ~ c.live
                                                  /\ c.job = t.job
                                               /\ c.kind = t.kind /\ c.link = t.link
      BY <1>1, <1>2 DEF link!Cancelled
<1>7. g \in Surjection(Asks, L)
  <2>1. \A t \in Asks : g[t] \in L  BY <1>1, <1>2 DEF Asks, link!Cancelled
  <2>2. g \in [Asks -> L]  BY <2>1
  <2>3. \A c \in L : \E t \in Asks : g[t] = c
    <3>. SUFFICES ASSUME NEW c \in L PROVE \E t \in Asks : g[t] = c  OBVIOUS
    <3>1. PICK t \in Out : c = [t EXCEPT !.live = FALSE]  BY DEF link!Cancelled
    <3>2. c.link = t.link /\ c.link # link!NoLink  BY <1>1, <1>2, <3>1
    <3>. QED  BY <3>1, <3>2 DEF Asks
  <2>. HIDE DEF g
  <2>. QED  BY <2>2, <2>3 DEF Surjection
<1>8. IsFiniteSet(L) /\ Cardinality(L) <= Cardinality(Asks)  BY <1>3, <1>7, FS_Surjection
<1>9. Cardinality(L) \in Nat  BY <1>8, FS_CardinalityType
<1>. QED  BY <1>5, <1>6, <1>8, <1>9 DEF LinkInv, TasksInv

\* What the late looks are.
LEMMA LateLooksAre ==
    ASSUME LinkAssumption, LinkInv
    PROVE  /\ link!LateLooks \subseteq link!Tasks /\ IsFiniteSet(link!LateLooks)
           /\ \A t \in link!LateLooks : t.phase = "watch" /\ ~ t.live /\ t.job \in 1 .. Len(link_jobs)
<1>. DEFINE Out == {u \in link_tasks : u.kind = "analysis" /\ u.phase = "watch"}
            f == [t \in Out |-> [t EXCEPT !.live = FALSE]]
<1>1. link_tasks \subseteq link!Tasks /\ IsFiniteSet(link_tasks)  BY DEF LinkInv, link!TypeOK, TasksInv
<1>2. \A t \in link!Tasks : LET c == [t EXCEPT !.live = FALSE]
                            IN c \in link!Tasks /\ c.phase = t.phase /\ ~ c.live /\ c.job = t.job
      BY DEF link!Tasks
<1>3. IsFiniteSet(Out)  BY <1>1, FS_Subset
<1>4. \A t \in Out : t \in link!Tasks /\ t.job \in 1 .. Len(link_jobs)  BY <1>1 DEF LinkInv, TasksInv
<1>5. f \in Surjection(Out, link!LateLooks)
  <2>1. f \in [Out -> link!LateLooks] /\ \A c \in link!LateLooks : \E t \in Out : f[t] = c
        BY DEF link!LateLooks
  <2>. QED  BY <2>1 DEF Surjection
<1>6. IsFiniteSet(link!LateLooks)  BY <1>3, <1>5, FS_Surjection
<1>7. ASSUME NEW c \in link!LateLooks
      PROVE  c \in link!Tasks /\ c.phase = "watch" /\ ~ c.live /\ c.job \in 1 .. Len(link_jobs)
  <2>1. PICK t \in Out : c = [t EXCEPT !.live = FALSE]  BY DEF link!LateLooks
  <2>2. t \in link!Tasks /\ t.job \in 1 .. Len(link_jobs) /\ t.phase = "watch"  BY <1>4
  <2>. QED  BY <1>2, <2>1, <2>2
<1>. QED  BY <1>6, <1>7

\* The effect of a screen that is mounted.
LEMMA EffectIs ==
    ASSUME LinkAssumption, LinkInv, NEW r, r.job \in 0 .. Len(link_jobs), NEW kind \in link!Kinds,
           NEW lk \in Links \cup {link!NoLink}, NEW e, e = link!Effect(r, kind, lk)
    PROVE  /\ link!Resumes(r, kind) \in 0 .. Len(link_jobs)
           /\ e \in link!Tasks /\ e.kind = kind /\ e.job = link!Resumes(r, kind) /\ e.live
           /\ e.link = IF link!Resumes(r, kind) = 0 THEN lk ELSE link!NoLink
           /\ e.phase = "ask" <=> link!Resumes(r, kind) = 0
<1>1. Len(link_jobs) \in Nat /\ \A j \in 0 .. Len(link_jobs) : j \in 0 .. MaxStudies  BY JobsAre
<1>2. link!Resumes(r, kind) \in 0 .. Len(link_jobs) /\ link!Resumes(r, kind) \in 0 .. MaxStudies
      BY <1>1 DEF link!Resumes
<1>. DEFINE p == IF link!Resumes(r, kind) = 0 THEN "ask" ELSE IF kind = "preview" THEN "watch" ELSE "read"
            l == IF link!Resumes(r, kind) = 0 THEN lk ELSE link!NoLink
<1>3. e = [kind |-> kind, link |-> l, job |-> link!Resumes(r, kind), live |-> TRUE, phase |-> p]
      BY DEF link!Effect
<1>4. p \in {"ask", "read", "watch"} /\ (p = "ask" <=> link!Resumes(r, kind) = 0)
      /\ l \in Links \cup {link!NoLink}
      OBVIOUS
<1>. HIDE DEF p, l
<1>5. e \in link!Tasks  BY <1>2, <1>3, <1>4 DEF link!Tasks
<1>. QED  BY <1>2, <1>3, <1>4, <1>5 DEF l

\* The effects after a screen is mounted.
LEMMA TasksRenewed ==
    ASSUME LinkAssumption, LinkInv, NEW r, r.job \in 0 .. Len(link_jobs), NEW kind \in link!Kinds,
           NEW lk \in Links \cup {link!NoLink},
           NEW late \in SUBSET link!LateLooks, late # {} => link_swapped',
           link_tasks' = (link!Cancelled \cup {link!Effect(r, kind, lk)}) \cup late,
           link!Resumes(r, kind) = 0 /\ lk # link!NoLink => link!Room,
           link_jobs' = link_jobs, link_route' = r, link!At' = kind, Approvals' = lk,
                 link_seen \subseteq link_seen',
           kind = "analysis" /\ lk # link!NoLink => lk \in link_seen'
    PROVE  link_tasks' \subseteq link!Tasks /\ TasksInv' /\ \E t \in link_tasks' : t.live
<1>. DEFINE L == {t \in link!Cancelled : t.link # link!NoLink}
<1>1. PICK e : e = link!Effect(r, kind, lk)  OBVIOUS
<1>2. /\ link!Resumes(r, kind) \in 0 .. Len(link_jobs)
      /\ e \in link!Tasks /\ e.kind = kind /\ e.job = link!Resumes(r, kind) /\ e.live
      /\ e.link = IF link!Resumes(r, kind) = 0 THEN lk ELSE link!NoLink
      /\ e.phase = "ask" <=> link!Resumes(r, kind) = 0
      BY <1>1, EffectIs
<1>3. link_tasks' = (link!Cancelled \cup {e}) \cup late  BY <1>1
<1>14. /\ late \subseteq link!Tasks /\ IsFiniteSet(late)
       /\ \A t \in late : t.phase = "watch" /\ ~ t.live /\ t.job \in 1 .. Len(link_jobs)
       BY LateLooksAre, FS_Subset
<1>4. /\ link!Cancelled \subseteq link!Tasks /\ IsFiniteSet(link!Cancelled)
      /\ \A t \in link!Cancelled : t.phase = "ask" /\ ~ t.live /\ t.job = 0
      /\ \A t \in link!Cancelled : t.kind = "analysis" /\ t.link # link!NoLink => t.link \in link_seen
      /\ IsFiniteSet(L) /\ Cardinality(L) \in Nat /\ Cardinality(L) <= Cardinality(Asks)
      BY CancelledAre
<1>. HIDE DEF L
<1>5. Named' = link!Resumes(r, kind) /\ link!At' # "form"  BY DEF Named, link!Resumes, link!Kinds
<1>6. Follows(e)'  BY <1>2, <1>5 DEF Follows
<1>7. IsFiniteSet(link_tasks')
  <2>1. IsFiniteSet(link!Cancelled \cup {e})  BY <1>4, FS_AddElement
  <2>2. IsFiniteSet((link!Cancelled \cup {e}) \cup late)  BY <1>14, <2>1, FS_Union
  <2>. QED  BY <1>3, <2>2
<1>8. Len(link_jobs) \in Nat /\ MaxStudies \in Nat /\ Cardinality(Asks) \in Nat
      /\ Len(link_jobs) + Cardinality(Asks) <= MaxStudies
      BY JobsAre DEF LinkInv, TasksInv
<1>9. Len(link_jobs) + Cardinality(Asks') <= MaxStudies
  <2>1. CASE link!Resumes(r, kind) = 0 /\ lk # link!NoLink
    <3>1. Asks' = L \cup {e}  BY <1>2, <1>3, <1>4, <1>14, <2>1 DEF Asks, L
    <3>6. Cardinality(L \cup {e}) = IF e \in L THEN Cardinality(L) ELSE Cardinality(L) + 1
          BY <1>4, FS_AddElement
    <3>2. Cardinality(L \cup {e}) <= Cardinality(L) + 1  BY <1>4, <3>6
    <3>3. IsFiniteSet(L \cup {e})  BY <1>4, FS_AddElement
    <3>4. Cardinality(L \cup {e}) \in Nat  BY <3>3, FS_CardinalityType
    <3>5. Len(link_jobs) + Cardinality(L) < MaxStudies  BY <2>1, StudiesCount DEF link!Room, L
    <3>. QED  BY <1>4, <1>8, <3>1, <3>2, <3>4, <3>5
  <2>2. CASE ~ (link!Resumes(r, kind) = 0 /\ lk # link!NoLink)
    <3>1. Asks' = L  BY <1>2, <1>3, <1>4, <1>14, <2>2 DEF Asks, L
    <3>. QED  BY <1>4, <1>8, <3>1
  <2>. QED  BY <2>1, <2>2
<1>10. \A t \in link_tasks' : t.live => t = e  BY <1>3, <1>4, <1>14
<1>11. \A t \in link_tasks' : /\ IF t.phase = "ask" THEN t.job = 0 ELSE t.job \in 1 .. Len(link_jobs)
                              /\ t.phase = "ask" \/ t.live \/ (t.phase = "watch" /\ link_swapped')
  <2>1. link!Resumes(r, kind) # 0 => link!Resumes(r, kind) \in 1 .. Len(link_jobs)  BY <1>2, <1>8
  <2>. QED  BY <1>2, <1>3, <1>4, <1>14, <2>1
<1>12. \A t \in link_tasks' : t.phase = "ask" /\ t.kind = "analysis" /\ t.link # link!NoLink
       => t.link \in link_seen'
      BY <1>2, <1>3, <1>4, <1>14
<1>13. TasksInv'
  <2>1. \A t \in link_tasks' : t.live => Follows(t)'  BY <1>6, <1>10
  <2>2. Len(Drafts) <= Len(link_jobs')  BY DEF LinkInv, TasksInv
  <2>. QED  BY <1>7, <1>9, <1>10, <1>11, <1>12, <2>1, <2>2 DEF TasksInv
<1>. QED  BY <1>2, <1>3, <1>4, <1>13, <1>14

\* Nothing is followed once a screen is left.
LEMMA TasksDropped ==
    ASSUME LinkAssumption, LinkInv, link_tasks' = link!Cancelled, link_jobs' = link_jobs,
           link_seen \subseteq link_seen'
    PROVE  link_tasks' \subseteq link!Tasks /\ TasksInv'
<1>. DEFINE L == {t \in link!Cancelled : t.link # link!NoLink}
<1>1. /\ link!Cancelled \subseteq link!Tasks /\ IsFiniteSet(link!Cancelled)
      /\ \A t \in link!Cancelled : t.phase = "ask" /\ ~ t.live /\ t.job = 0
      /\ \A t \in link!Cancelled : t.kind = "analysis" /\ t.link # link!NoLink => t.link \in link_seen
      /\ Cardinality(L) \in Nat /\ Cardinality(L) <= Cardinality(Asks)
      BY CancelledAre
<1>2. Asks' = L  BY <1>1 DEF Asks
<1>. HIDE DEF L
<1>3. Len(link_jobs) \in Nat /\ MaxStudies \in Nat /\ Cardinality(Asks) \in Nat
      /\ Len(link_jobs) + Cardinality(Asks) <= MaxStudies
      /\ Len(Drafts) <= Len(link_jobs)
      BY JobsAre DEF LinkInv, TasksInv
<1>4. Len(link_jobs) + Cardinality(Asks') <= MaxStudies  BY <1>1, <1>2, <1>3
<1>. QED  BY <1>1, <1>3, <1>4 DEF TasksInv

\* A screen that is mounted, or left, with nothing on it.
LEMMA ScreenKeeps ==
    ASSUME LinkAssumption, LinkInv,
           link_shown' = 0, link_drafted' = 0, link_failed' = FALSE, link_kept' = 0, link_spinning' = FALSE,
           link_jobs' = link_jobs, link_script' = link_script,
           link_route' \in [panel : {"link", "trending"}, job : 0 .. MaxStudies],
                 link_route'.job \in 0 .. Len(link_jobs),
           link_submitted' \in Links \cup {link!NoLink, link!NotYet},
                 link_approved' \in Links \cup {link!NoLink, link!NotYet},
           link_searching' \in BOOLEAN, link_found' \subseteq Links, link_swapped' \in BOOLEAN,
           link_seen \subseteq link_seen', link_seen' \subseteq Links, link_approved' \in Links
             => link_approved' \in link_seen',
           \/ link_tasks' = link!Cancelled /\ link!At' = "form"
           \/ \E kind \in link!Kinds, lk \in Links \cup {link!NoLink} :
                /\ link_tasks' = link!Cancelled \cup {link!Effect(link_route', kind, lk)}
                /\ link!Resumes(link_route', kind) = 0 /\ lk # link!NoLink => link!Room
                /\ link!At' = kind /\ Approvals' = lk
                   /\ (kind = "analysis" /\ lk # link!NoLink => lk \in link_seen')
    PROVE  LinkInv'
<1>1. link_tasks' \subseteq link!Tasks /\ TasksInv' /\ (link!At' # "form" => \E t \in link_tasks' : t.live)
  <2>1. CASE link_tasks' = link!Cancelled /\ link!At' = "form"  BY <2>1, TasksDropped
  <2>2. ASSUME NEW kind \in link!Kinds, NEW lk \in Links \cup {link!NoLink},
               link_tasks' = link!Cancelled \cup {link!Effect(link_route', kind, lk)},
               link!Resumes(link_route', kind) = 0 /\ lk # link!NoLink => link!Room,
               link!At' = kind, Approvals' = lk, kind = "analysis" /\ lk # link!NoLink => lk \in link_seen'
        PROVE  link_tasks' \subseteq link!Tasks /\ TasksInv' /\ \E t \in link_tasks' : t.live
    <3>1. {} \in SUBSET link!LateLooks /\ link_tasks' = (link!Cancelled \cup {link!Effect(link_route', kind, lk)}) \cup {}
          BY <2>2
    <3>. QED  BY <2>2, <3>1, TasksRenewed
  <2>. QED  BY <2>1, <2>2
<1>2. ShownInv' /\ link!LateResultsAreDropped' /\ link!WaitingIsFollowed'
  <2>1. 0 \in 0 .. Len(link_jobs)  BY JobsAre
  <2>. QED  BY <1>1, <2>1 DEF ShownInv, link!LateResultsAreDropped, link!IsFor, link!WaitingIsFollowed, link!Waiting
<1>3. link!NothingAnalysedUnseen' /\ link!ScriptIsOfItsAnalysis'
      BY DEF LinkInv, link!NothingAnalysedUnseen, link!ScriptIsOfItsAnalysis
<1>4. link!TypeOK'
  <2>1. 0 \in 0 .. MaxStudies  BY DEF LinkAssumption
  <2>. QED  BY <1>1, <2>1 DEF LinkInv, link!TypeOK
<1>. QED  BY <1>1, <1>2, <1>3, <1>4 DEF LinkInv

\* Where the screen is.
LEMMA AtIs ==
    /\ link!At \in {"form", "preview", "analysis"} /\ (link!At # "form" => link!At \in link!Kinds)
    /\ link!At = "form" <=> (link_submitted = link!NotYet /\ link_approved = link!NotYet)
    /\ link!At = "analysis" <=> link_approved # link!NotYet
    /\ link!At = "preview" <=> (link_submitted # link!NotYet /\ link_approved = link!NotYet)
    /\ link!At = "preview" => Approvals = link_submitted
    /\ link!At = "analysis" => Approvals = link_approved
BY DEF link!At, Approvals, link!Kinds

\* The address, the forms and the buttons that change what the screen is for.
LEMMA StudyScreensKeep ==
    ASSUME LinkAssumption, LinkInv,
           \/ (\E p \in {"link", "trending"} : link!PickOption(p))
           \/ (\E j \in DOMAIN link_jobs : link!OpenDraft(j))
           \/ (\E l \in Links : link!submit(l) \/ link!onAnalyze(l))
           \/ link!onApprove \/ link!onBack
    PROVE  LinkInv'
<1>0. /\ link_route \in [panel : {"link", "trending"}, job : 0 .. MaxStudies]
         /\ link_route.job \in 0 .. Len(link_jobs)
      /\ link_submitted \in Links \cup {link!NoLink, link!NotYet}
         /\ link_approved \in Links \cup {link!NoLink, link!NotYet}
      /\ link_searching \in BOOLEAN /\ link_found \subseteq Links /\ link_swapped \in BOOLEAN
         /\ link_seen \subseteq Links
      /\ link_approved \in Links => link_approved \in link_seen
      /\ link_shown \in 0 .. Len(link_jobs)
      BY DEF LinkInv, link!TypeOK, ShownInv
<1>1. link!NoLink \notin Links /\ link!NotYet \notin Links /\ link!NoLink # link!NotYet
      BY DEF LinkAssumption, link!NoLink, link!NotYet
<1>2. DOMAIN link_jobs = 1 .. Len(link_jobs) /\ Len(link_jobs) \in Nat /\ 0 \in 0 .. Len(link_jobs)
      /\ (\A j \in 0 .. Len(link_jobs) : j \in 0 .. MaxStudies)
         /\ \A j \in 1 .. Len(link_jobs) : link_jobs[j] \in Study
      BY JobsAre
<1>3. ASSUME NEW p \in {"link", "trending"}, link!PickOption(p) PROVE LinkInv'
  <2>1. /\ link_route' = [panel |-> p, job |-> 0]
        /\ link_submitted' = link!NotYet /\ link_approved' = link!NotYet /\ link_searching' = FALSE
           /\ link_found' = {} /\ link_swapped' = FALSE
        /\ UNCHANGED <<link_jobs, link_script, link_seen>>
        /\ link_tasks' = link!Cancelled /\ link_shown' = 0 /\ link_drafted' = 0 /\ link_failed' = FALSE
           /\ link_kept' = 0 /\ link_spinning' = FALSE
        BY <1>3 DEF link!PickOption, link!Unmount
  <2>2. link_route' \in [panel : {"link", "trending"}, job : 0 .. MaxStudies]
        /\ link_route'.job \in 0 .. Len(link_jobs)
        BY <1>2, <2>1
  <2>3. link!At' = "form"  BY <2>1 DEF link!At
  <2>. QED  BY <1>0, <1>1, <2>1, <2>2, <2>3, ScreenKeeps
<1>4. ASSUME NEW j \in DOMAIN link_jobs, link!OpenDraft(j) PROVE LinkInv'
  <2>1. /\ link_route' = [panel |-> "link", job |-> j] /\ link_swapped' = FALSE /\ link_searching' = FALSE
           /\ link_found' = {}
        /\ link_submitted' = (IF link_jobs[j].kind = "preview" THEN link!NoLink ELSE link!NotYet)
        /\ link_approved' = (IF link_jobs[j].kind = "analysis" THEN link!NoLink ELSE link!NotYet)
        /\ UNCHANGED <<link_jobs, link_script, link_seen>>
        /\ link_tasks' = link!Cancelled \cup {link!Effect(link_route', link_jobs[j].kind, link!NoLink)}
        /\ link_shown' = 0 /\ link_drafted' = 0 /\ link_failed' = FALSE /\ link_kept' = 0
           /\ link_spinning' = FALSE
        BY <1>4 DEF link!OpenDraft, link!Mount
  <2>2. j \in 1 .. Len(link_jobs) /\ link_jobs[j].kind \in link!Kinds  BY <1>2 DEF Study
  <2>3. link_route' \in [panel : {"link", "trending"}, job : 0 .. MaxStudies]
        /\ link_route'.job \in 0 .. Len(link_jobs)
        BY <1>2, <2>1, <2>2
  <2>4. link!At' = link_jobs[j].kind /\ Approvals' = link!NoLink
        BY <1>1, <2>1, <2>2 DEF link!At, Approvals, link!Kinds
  <2>5. link!NoLink \in Links \cup {link!NoLink} /\ ~ (link!NoLink # link!NoLink)
        /\ link_submitted' \in Links \cup {link!NoLink, link!NotYet}
           /\ link_approved' \in Links \cup {link!NoLink, link!NotYet} /\ link_approved' \notin Links
        BY <1>1, <2>1
  <2>. QED  BY <1>0, <2>1, <2>2, <2>3, <2>4, <2>5, ScreenKeeps
<1>5. ASSUME NEW l \in Links, link!submit(l) PROVE LinkInv'
  <2>1. /\ link!At = "form" /\ link_submitted' = l
        /\ UNCHANGED <<link_route, link_approved, link_searching, link_found, link_jobs, link_script,
                       link_seen, link_swapped>>
        /\ link_tasks' = link!Cancelled \cup {link!Effect(link_route, "preview", l)}
        /\ (link!Resumes(link_route, "preview") = 0 /\ l # link!NoLink => link!Room)
        /\ link_shown' = 0 /\ link_drafted' = 0 /\ link_failed' = FALSE /\ link_kept' = 0
           /\ link_spinning' = FALSE
        BY <1>5 DEF link!submit, link!Mount
  <2>2. link!At' = "preview" /\ Approvals' = l  BY <1>1, <2>1, AtIs DEF link!At, Approvals
  <2>3. "preview" \in link!Kinds  BY DEF link!Kinds
  <2>4. link_route' = link_route /\ l \in Links \cup {link!NoLink}  BY <2>1
  <2>. QED  BY <1>0, <2>1, <2>2, <2>3, <2>4, ScreenKeeps
<1>6. ASSUME NEW l \in Links, link_approved' = l, link_seen' = link_seen \cup {l},
             link!Mount(link_route, "analysis", l),
             UNCHANGED <<link_route, link_submitted, link_searching, link_found, link_jobs, link_script,
                         link_swapped>>
      PROVE  LinkInv'
  <2>1. /\ link_tasks' = link!Cancelled \cup {link!Effect(link_route', "analysis", l)}
        /\ (link!Resumes(link_route', "analysis") = 0 /\ l # link!NoLink => link!Room)
        /\ link_shown' = 0 /\ link_drafted' = 0 /\ link_failed' = FALSE /\ link_kept' = 0
           /\ link_spinning' = FALSE
        BY <1>6 DEF link!Mount
  <2>2. link!At' = "analysis" /\ Approvals' = l /\ "analysis" \in link!Kinds
        BY <1>1, <1>6 DEF link!At, Approvals, link!Kinds
  <2>3. link_seen \subseteq link_seen' /\ link_seen' \subseteq Links /\ l \in link_seen'
        /\ l \in Links \cup {link!NoLink}
        BY <1>0, <1>6
  <2>. QED  BY <1>0, <1>6, <2>1, <2>2, <2>3, ScreenKeeps
<1>7. ASSUME NEW l \in Links, link!onAnalyze(l) PROVE LinkInv'  BY <1>6, <1>7 DEF link!onAnalyze
<1>8. CASE link!onApprove
  <2>1. link_shown \in 1 .. Len(link_jobs)  BY <1>0, <1>2, <1>8 DEF link!onApprove
  <2>2. link_jobs[link_shown].link \in Links  BY <1>2, <2>1 DEF Study
  <2>3. link_approved' = link_jobs[link_shown].link
        /\ link_seen' = link_seen \cup {link_jobs[link_shown].link}
        /\ link!Mount(link_route, "analysis", link_jobs[link_shown].link)
        /\ UNCHANGED <<link_route, link_submitted, link_searching, link_found, link_jobs, link_script,
                       link_swapped>>
        BY <1>8 DEF link!onApprove, link!CanonicalUrl, link!Mount
  <2>. QED  BY <1>6, <2>2, <2>3
<1>9. CASE link!onBack
  <2>0. link!At # "form" /\ UNCHANGED <<link_route, link_searching, link_found, link_jobs, link_script,
                                        link_seen, link_swapped>>
        BY <1>9 DEF link!onBack
  <2>1. CASE link!At = "analysis" /\ link_submitted # link!NotYet
    <3>1. /\ link_approved' = link!NotYet /\ link_submitted' = link_submitted
          /\ link_tasks' = link!Cancelled \cup {link!Effect(link_route, "preview", link_submitted)}
          /\ (link!Resumes(link_route, "preview") = 0 /\ link_submitted # link!NoLink => link!Room)
          /\ link_shown' = 0 /\ link_drafted' = 0 /\ link_failed' = FALSE /\ link_kept' = 0
             /\ link_spinning' = FALSE
          BY <1>9, <2>1 DEF link!onBack, link!Mount
    <3>2. link!At' = "preview" /\ Approvals' = link_submitted /\ "preview" \in link!Kinds
          BY <2>1, <3>1 DEF link!At, Approvals, link!Kinds
    <3>3. link_submitted \in Links \cup {link!NoLink} /\ link_route' = link_route  BY <1>0, <2>0, <2>1
    <3>. QED  BY <1>0, <1>1, <2>0, <3>1, <3>2, <3>3, ScreenKeeps
  <2>2. CASE ~ (link!At = "analysis" /\ link_submitted # link!NotYet)
    <3>1. /\ link_tasks' = link!Cancelled
          /\ link_shown' = 0 /\ link_drafted' = 0 /\ link_failed' = FALSE /\ link_kept' = 0
             /\ link_spinning' = FALSE
          BY <1>9, <2>2 DEF link!onBack, link!Unmount
    <3>2. link_submitted' = link!NotYet /\ link_approved' = link!NotYet
          BY <1>9, <2>0, <2>2, AtIs DEF link!onBack
    <3>3. link!At' = "form"  BY <3>2 DEF link!At
    <3>. QED  BY <1>0, <1>1, <2>0, <3>1, <3>2, <3>3, ScreenKeeps
  <2>. QED  BY <2>1, <2>2
<1>. QED  BY <1>3, <1>4, <1>5, <1>7, <1>8, <1>9

\* A draft is opened in the place of another link.
LEMMA InPlaceKeeps ==
    ASSUME LinkAssumption, LinkInv, NEW j \in DOMAIN link_jobs, link!OpenDraftInPlace(j)
    PROVE  LinkInv'
<1>0. /\ link_route \in [panel : {"link", "trending"}, job : 0 .. MaxStudies]
         /\ link_route.job \in 0 .. Len(link_jobs)
      /\ link_submitted \in Links \cup {link!NoLink, link!NotYet}
         /\ link_approved \in Links \cup {link!NoLink, link!NotYet}
      /\ link_approved \in Links => link_approved \in link_seen
      /\ link_shown \in 0 .. Len(link_jobs) /\ link_shown \in 0 .. MaxStudies
         /\ link_kept \in 0 .. MaxStudies /\ link_spinning \in BOOLEAN
      BY DEF LinkInv, link!TypeOK, ShownInv
<1>1. link!NoLink \notin Links /\ link!NotYet \notin Links /\ link!NoLink # link!NotYet
      BY DEF LinkAssumption, link!NoLink, link!NotYet
<1>2. j \in 1 .. Len(link_jobs) /\ Len(link_jobs) \in Nat
      /\ \A i \in 0 .. Len(link_jobs) : i \in 0 .. MaxStudies
      BY JobsAre
<1>3. /\ link_route' = [link_route EXCEPT !.job = j] /\ link_swapped' = TRUE
      /\ UNCHANGED <<link_submitted, link_approved, link_searching, link_found, link_shown, link_drafted,
                     link_failed, link_jobs, link_script, link_seen>>
      BY DEF link!OpenDraftInPlace, link!screen
<1>4. link_route' \in [panel : {"link", "trending"}, job : 0 .. MaxStudies] /\ link_route'.job = j
      /\ j \in 0 .. Len(link_jobs)
      BY <1>0, <1>2, <1>3
<1>5. link!At' = link!At /\ Approvals' = Approvals  BY <1>3 DEF link!At, Approvals
<1>6. ASSUME link_tasks' \subseteq link!Tasks, TasksInv', link!LateResultsAreDropped',
             link!WaitingIsFollowed',
             link_kept' \in 0 .. MaxStudies, link_spinning' \in BOOLEAN
      PROVE  LinkInv'
  <2>1. link!TypeOK'  BY <1>3, <1>4, <1>6 DEF LinkInv, link!TypeOK
  <2>2. ShownInv'  BY <1>3, <1>4, <1>5 DEF LinkInv, ShownInv
  <2>3. link!NothingAnalysedUnseen' /\ link!ScriptIsOfItsAnalysis'
        BY <1>3 DEF LinkInv, link!NothingAnalysedUnseen, link!ScriptIsOfItsAnalysis
  <2>. QED  BY <1>6, <2>1, <2>2, <2>3 DEF LinkInv
<1>7. CASE link!At # "form" /\ link!Resumes(link_route, link!At) # link!Resumes(link_route', link!At)
  <2>. DEFINE lk == IF link!At = "preview" THEN link_submitted ELSE link_approved
  <2>1. /\ link_tasks' = (link!Cancelled \cup {link!Effect(link_route', link!At, lk)}) \cup link!LateLooks
        /\ (link!Resumes(link_route', link!At) = 0 /\ lk # link!NoLink => link!Room)
        /\ link_kept' = link_shown /\ link_spinning' = FALSE
        BY <1>7 DEF link!OpenDraftInPlace
  <2>2. link!At \in link!Kinds /\ lk \in Links \cup {link!NoLink}  BY <1>0, <1>7, AtIs
  <2>3. Approvals' = lk  BY <1>5 DEF Approvals
  <2>4. link!At = "analysis" /\ lk # link!NoLink => lk \in link_seen'  BY <1>0, <1>3, <2>2
  <2>. HIDE DEF lk
  <2>5. link_tasks' \subseteq link!Tasks /\ TasksInv' /\ \E t \in link_tasks' : t.live
        BY <1>3, <1>4, <1>5, <2>1, <2>2, <2>3, <2>4, TasksRenewed
  <2>6. link!LateResultsAreDropped' /\ link!WaitingIsFollowed'
        BY <1>3, <2>1, <2>5 DEF link!LateResultsAreDropped, link!IsFor, link!WaitingIsFollowed
  <2>. QED  BY <1>0, <1>6, <2>1, <2>5, <2>6
<1>8. CASE link!At # "form" /\ link!Resumes(link_route, link!At) = link!Resumes(link_route', link!At)
  <2>1. UNCHANGED <<link_tasks, link_kept, link_spinning>>  BY <1>8 DEF link!OpenDraftInPlace
  <2>2. Named' = Named /\ link!Resumes(link_route, link!At)' = link!Resumes(link_route, link!At)
        BY <1>3, <1>5, <1>8 DEF Named, link!Resumes
  <2>3. \A t \in link_tasks : Follows(t)' <=> Follows(t)  BY <1>3, <1>5, <2>2 DEF Follows
  <2>4. TasksInv'  BY <1>3, <2>1, <2>3 DEF LinkInv, TasksInv, Asks
  <2>5. link!LateResultsAreDropped'  BY <1>3, <1>5, <2>1, <2>2 DEF LinkInv, link!LateResultsAreDropped, link!IsFor
  <2>6. link!WaitingIsFollowed'  BY <1>3, <1>5, <2>1 DEF LinkInv, link!WaitingIsFollowed, link!Waiting
  <2>7. link_tasks \subseteq link!Tasks  BY DEF LinkInv, link!TypeOK
  <2>. QED  BY <1>0, <1>6, <2>1, <2>4, <2>5, <2>6, <2>7
<1>9. CASE link!At = "form"
  <2>1. UNCHANGED <<link_tasks, link_kept, link_spinning>>  BY <1>9 DEF link!OpenDraftInPlace
  <2>2. \A t \in link_tasks : ~ t.live  BY <1>9 DEF LinkInv, TasksInv, Follows
  <2>3. TasksInv'  BY <1>3, <2>1, <2>2 DEF LinkInv, TasksInv, Asks
  <2>4. link_shown' = 0  BY <1>3, <1>9 DEF LinkInv, ShownInv
  <2>5. link!LateResultsAreDropped' /\ link!WaitingIsFollowed'
        BY <1>5, <1>9, <2>4 DEF link!LateResultsAreDropped, link!IsFor, link!WaitingIsFollowed, link!Waiting
  <2>6. link_tasks \subseteq link!Tasks  BY DEF LinkInv, link!TypeOK
  <2>. QED  BY <1>0, <1>6, <2>1, <2>3, <2>5, <2>6
<1>. QED  BY <1>7, <1>8, <1>9

\* One effect less.
LEMMA TaskRemoved ==
    ASSUME LinkAssumption, LinkInv, NEW t \in link_tasks, link_tasks' = link_tasks \ {t},
           UNCHANGED <<link_route, link_submitted, link_approved, link_jobs, link_seen, link_swapped>>
    PROVE  /\ link_tasks' \subseteq link!Tasks /\ TasksInv'
           /\ t.live => \A u \in link_tasks' : ~ u.live
           /\ ~ t.live => \A u \in link_tasks : u.live => u \in link_tasks'
<1>1. \A u \in link_tasks : Follows(u)' <=> Follows(u)
      BY DEF Follows, Named, Approvals, link!At, link!Resumes
<1>2. IsFiniteSet(link_tasks') /\ Asks' \subseteq Asks
  <2>1. IsFiniteSet(link_tasks)  BY DEF LinkInv, TasksInv
  <2>. QED  BY <2>1, FS_RemoveElement DEF Asks
<1>3. Cardinality(Asks') <= Cardinality(Asks) /\ IsFiniteSet(Asks')  BY <1>2, JobsAre, FS_Subset
<1>4. Cardinality(Asks') \in Nat  BY <1>3, FS_CardinalityType
<1>5. Len(Drafts) <= Len(link_jobs) /\ Len(link_jobs) + Cardinality(Asks') <= MaxStudies
      BY <1>3, <1>4, JobsAre DEF LinkInv, TasksInv
<1>. QED  BY <1>1, <1>2, <1>5 DEF LinkInv, link!TypeOK, TasksInv

\* An answer, an end of waiting, and the second look.
LEMMA AnswersKeep ==
    ASSUME LinkAssumption, LinkInv, NEW t \in link_tasks,
           link!Refused(t) \/ link!Seen(t) \/ link!ReadLost(t) \/ link!GivenUp(t) \/ link!LateAnswer(t)
    PROVE  LinkInv'
<1>1. /\ link_tasks' = link_tasks \ {t}
      /\ UNCHANGED <<link_route, link_submitted, link_approved, link_searching, link_found, link_jobs,
                     link_script, link_seen, link_swapped, link_kept>>
      BY DEF link!Refused, link!Seen, link!ReadLost, link!GivenUp, link!LateAnswer, link!screen
<1>2. /\ link_tasks' \subseteq link!Tasks /\ TasksInv'
      /\ t.live => \A u \in link_tasks' : ~ u.live
      /\ ~ t.live => \A u \in link_tasks : u.live => u \in link_tasks'
      BY <1>1, TaskRemoved
<1>3. link!At' = link!At /\ Approvals' = Approvals
      /\ link!Resumes(link_route, link!At)' = link!Resumes(link_route, link!At)
      BY <1>1 DEF link!At, Approvals, link!Resumes
<1>4. link!NothingAnalysedUnseen' /\ link!ScriptIsOfItsAnalysis'
      BY <1>1 DEF LinkInv, link!NothingAnalysedUnseen, link!ScriptIsOfItsAnalysis
<1>5. link_failed \in BOOLEAN /\ link_spinning \in BOOLEAN  BY DEF LinkInv, link!TypeOK
<1>6. CASE UNCHANGED <<link_shown, link_drafted>> /\ (t.live => link_failed' \/ link_spinning')
      /\ (~ t.live => (link_failed => link_failed') /\ link_spinning' = link_spinning)
           /\ link_failed' \in BOOLEAN /\ link_spinning' \in BOOLEAN
  <2>1. link!TypeOK'  BY <1>1, <1>2, <1>6 DEF LinkInv, link!TypeOK
  <2>2. ShownInv'  BY <1>1, <1>3, <1>6 DEF LinkInv, ShownInv
  <2>3. link!LateResultsAreDropped'  BY <1>1, <1>3, <1>6 DEF LinkInv, link!LateResultsAreDropped, link!IsFor
  <2>4. link!WaitingIsFollowed'  BY <1>2, <1>3, <1>6 DEF LinkInv, link!WaitingIsFollowed, link!Waiting
  <2>. QED  BY <1>2, <1>4, <2>1, <2>2, <2>3, <2>4 DEF LinkInv
<1>7. CASE link!Refused(t)
  <2>1. link_failed' = (link_failed \/ t.live) /\ UNCHANGED <<link_shown, link_drafted, link_spinning>>
        BY <1>7 DEF link!Refused
  <2>2. t.live \in BOOLEAN  BY DEF LinkInv, link!TypeOK, link!Tasks
  <2>. QED  BY <1>5, <1>6, <2>1, <2>2
<1>10. CASE link!LateAnswer(t)
  <2>1. /\ ~ t.live /\ link_failed' \in {link_failed, TRUE}
        /\ UNCHANGED <<link_shown, link_drafted, link_spinning>>
        BY <1>10 DEF link!LateAnswer, link!IsLate
  <2>2. link_failed' \in BOOLEAN /\ link_spinning' \in BOOLEAN /\ (link_failed => link_failed')
    <3>1. CASE link_failed' = TRUE  BY <1>5, <2>1, <3>1
    <3>2. CASE link_failed' = link_failed  BY <1>5, <2>1, <3>2
    <3>. QED  BY <2>1, <3>1, <3>2
  <2>. QED  BY <1>6, <2>1, <2>2
<1>8. CASE link!ReadLost(t) \/ link!GivenUp(t)
  <2>0. t.live  BY <1>8 DEF link!ReadLost, link!GivenUp, LinkInv, TasksInv
  <2>1. t.live /\ UNCHANGED <<link_shown, link_drafted>> /\ link_failed' \in BOOLEAN
        /\ link_spinning' \in BOOLEAN /\ (link_failed' \/ link_spinning')
        BY <1>1, <1>5, <1>8, <2>0 DEF link!ReadLost, link!GivenUp, link!screen
  <2>. QED  BY <1>6, <2>1
<1>9. CASE link!Seen(t)
  <2>1. /\ t.phase \in {"read", "watch"} /\ t.live /\ link_jobs[t.job].state # "open"
        /\ link_shown' = (IF link_jobs[t.job].state = "done" THEN t.job ELSE link_shown)
        /\ link_drafted' = (IF link_jobs[t.job].state = "done" /\ t.kind = "analysis" /\ link_drafted = 0 THEN t.job ELSE link_drafted)
        /\ link_failed' = (link_failed \/ link_jobs[t.job].state = "failed") /\ link_spinning' = link_spinning
        BY <1>9 DEF link!Seen, link!Apply
  <2>2. t.job \in 1 .. Len(link_jobs) /\ Follows(t)  BY <2>1 DEF LinkInv, TasksInv
  <2>3. link_jobs[t.job] \in Study /\ Len(link_jobs) \in Nat /\ t.job \in 0 .. Len(link_jobs) /\ t.job # 0
        /\ \A i \in 0 .. Len(link_jobs) : i \in 0 .. MaxStudies
        BY <2>2, JobsAre
  <2>4. link_jobs[t.job].state = "done" \/ link_jobs[t.job].state = "failed"  BY <2>1, <2>3 DEF Study
  <2>5. link_shown \in 0 .. Len(link_jobs) /\ link_drafted \in 0 .. Len(link_jobs)
        /\ (link_shown = 0 => link_drafted = 0)
        BY DEF LinkInv, ShownInv
  <2>6. link_shown' \in 0 .. Len(link_jobs) /\ link_drafted' \in 0 .. Len(link_jobs)  BY <2>1, <2>3, <2>5
  <2>7. link!TypeOK'  BY <1>1, <1>2, <1>5, <2>1, <2>3, <2>6 DEF LinkInv, link!TypeOK
  <2>8. ShownInv'
    <3>1. link!At # "form" /\ t.kind = link!At  BY <2>2 DEF Follows
    <3>2. link_shown' = 0 => link_drafted' = 0  BY <2>1, <2>3, <2>4, <2>5
    <3>3. ~ link_swapped /\ link!At = "analysis" => link_shown = 0  BY <2>1 DEF LinkInv, ShownInv
    <3>4. ~ link_swapped /\ link!At = "analysis" => link_drafted' = link_shown'  BY <2>1, <2>5, <3>1, <3>3
    <3>5. \A u \in link_tasks' : ~ u.live  BY <1>2, <2>1
    <3>6. link_route.job \in 0 .. Len(link_jobs) /\ (link_approved \in Links => link_approved \in link_seen)
          BY DEF LinkInv, ShownInv
    <3>. QED  BY <1>1, <1>3, <2>6, <3>1, <3>2, <3>4, <3>5, <3>6 DEF ShownInv
  <2>9. link!LateResultsAreDropped'
    <3>1. CASE link_jobs[t.job].state = "done"
      <4>1. link_shown' = t.job /\ t.phase # "ask"  BY <2>1, <3>1
      <4>. QED  BY <1>1, <1>3, <2>2, <4>1 DEF link!LateResultsAreDropped, link!IsFor, Follows, Named, Approvals
    <3>2. CASE link_jobs[t.job].state # "done"
      <4>1. link_shown' = link_shown  BY <2>1, <3>2
      <4>. QED  BY <1>1, <1>3, <4>1 DEF LinkInv, link!LateResultsAreDropped, link!IsFor
    <3>. QED  BY <3>1, <3>2
  <2>10. link!WaitingIsFollowed'
    <3>1. ~ (link_shown' = 0 /\ ~ link_failed')  BY <2>1, <2>3, <2>4
    <3>. QED  BY <3>1 DEF link!WaitingIsFollowed, link!Waiting
  <2>. QED  BY <1>2, <1>4, <2>7, <2>8, <2>9, <2>10 DEF LinkInv
<1>. QED  BY <1>7, <1>8, <1>9, <1>10

\* A job that is still open is read again.
LEMMA StillOpenKeeps ==
    ASSUME LinkAssumption, LinkInv, NEW t \in link_tasks, link!StillOpen(t) PROVE LinkInv'
<1>1. PICK r : r = [t EXCEPT !.phase = "watch"]  OBVIOUS
<1>2. t.phase = "read" /\ link_tasks' = (link_tasks \ {t}) \cup {r}
      /\ UNCHANGED <<link_route, link_submitted, link_approved, link_searching, link_found, link_shown,
                     link_drafted, link_failed, link_jobs, link_script, link_seen,
                     link_swapped, link_kept, link_spinning>>
      BY <1>1 DEF link!StillOpen, link!screen
<1>3. t \in link!Tasks  BY DEF LinkInv, link!TypeOK
<1>4. r \in link!Tasks /\ r.phase = "watch" /\ r.live = t.live /\ r.job = t.job /\ r.kind = t.kind
         /\ r.link = t.link
      BY <1>1, <1>3 DEF link!Tasks
<1>5. t.live /\ Follows(t) /\ t.job \in 1 .. Len(link_jobs) /\ \A u \in link_tasks \ {t} : ~ u.live
      BY <1>2 DEF LinkInv, TasksInv
<1>6. link!At' = link!At /\ Approvals' = Approvals /\ Named' = Named
      /\ link!Resumes(link_route, link!At)' = link!Resumes(link_route, link!At)
      BY <1>2 DEF link!At, Approvals, Named, link!Resumes
<1>7. Follows(r)'  BY <1>2, <1>4, <1>5, <1>6 DEF Follows
<1>8. TasksInv'
  <2>1. Asks' = Asks  BY <1>2, <1>4 DEF Asks
  <2>2. IsFiniteSet(link_tasks')
    <3>1. IsFiniteSet(link_tasks)  BY DEF LinkInv, TasksInv
    <3>2. IsFiniteSet(link_tasks \ {t})  BY <3>1, FS_RemoveElement
    <3>. QED  BY <1>2, <3>2, FS_AddElement
  <2>3. \A u \in link_tasks' : u.live => u = r  BY <1>2, <1>5
  <2>4. \A u \in link_tasks' : /\ IF u.phase = "ask" THEN u.job = 0 ELSE u.job \in 1 .. Len(link_jobs)
                               /\ u.phase = "ask" \/ u.live \/ (u.phase = "watch" /\ link_swapped)
        BY <1>2, <1>4, <1>5 DEF LinkInv, TasksInv
  <2>5. \A u \in link_tasks' : u.phase = "ask" /\ u.kind = "analysis" /\ u.link # link!NoLink
        => u.link \in link_seen
        BY <1>2, <1>4 DEF LinkInv, TasksInv
  <2>6. Len(Drafts) <= Len(link_jobs) /\ Len(link_jobs) + Cardinality(Asks) <= MaxStudies
        BY DEF LinkInv, TasksInv
  <2>. QED  BY <1>2, <1>7, <2>1, <2>2, <2>3, <2>4, <2>5, <2>6 DEF TasksInv
<1>9. link!TypeOK'  BY <1>2, <1>4 DEF LinkInv, link!TypeOK
<1>10. ShownInv'
  <2>1. ~ (~ link_swapped /\ link!At = "analysis" /\ link_shown # 0)  BY <1>5 DEF LinkInv, ShownInv
  <2>. QED  BY <1>2, <1>6, <2>1 DEF LinkInv, ShownInv
<1>11. link!LateResultsAreDropped' /\ link!NothingAnalysedUnseen' /\ link!ScriptIsOfItsAnalysis'
       BY <1>2, <1>6 DEF LinkInv, link!LateResultsAreDropped, link!IsFor, link!NothingAnalysedUnseen,
          link!ScriptIsOfItsAnalysis
<1>12. link!WaitingIsFollowed'  BY <1>2, <1>4, <1>5 DEF link!WaitingIsFollowed
<1>. QED  BY <1>8, <1>9, <1>10, <1>11, <1>12 DEF LinkInv

\* A job is made of a request that is out.
LEMMA StartedKeeps ==
    ASSUME LinkAssumption, LinkInv, NEW t \in link_tasks, NEW told \in BOOLEAN, link!Started(t, told)
    PROVE LinkInv'
<1>1. PICK r : r = [t EXCEPT !.job = Len(link_jobs'), !.phase = "watch"]  OBVIOUS
<1>. DEFINE new == [kind |-> t.kind, link |-> t.link, state |-> "open"]
<1>2. /\ t.phase = "ask" /\ t.link # link!NoLink /\ link_jobs' = Append(link_jobs, new)
      /\ link_tasks' = (link_tasks \ {t}) \cup (IF told /\ t.live THEN {r} ELSE {})
      /\ link_failed' = (link_failed \/ (t.live /\ ~ told))
      /\ UNCHANGED <<link_route, link_submitted, link_approved, link_searching, link_found, link_shown,
                     link_drafted, link_script, link_seen, link_swapped,
                     link_kept, link_spinning>>
      BY <1>1 DEF link!Started
<1>3. t \in link!Tasks /\ link_jobs \in Seq(Study)  BY DEF LinkInv, link!TypeOK, Study
<1>4. new \in Study /\ new.kind = t.kind /\ new.link = t.link  BY <1>2, <1>3 DEF Study, link!Tasks
<1>. HIDE DEF new
<1>5. /\ Len(link_jobs) \in Nat /\ MaxStudies \in Nat /\ Len(link_jobs) + Cardinality(Asks) <= MaxStudies
      /\ IsFiniteSet(Asks) /\ Cardinality(Asks) \in Nat /\ IsFiniteSet(link_tasks)
         /\ Len(Drafts) <= Len(link_jobs)
      /\ Len(Drafts) \in Nat
      BY JobsAre DEF LinkInv, TasksInv
<1>6. link_jobs' \in Seq(Study) /\ Len(link_jobs') = Len(link_jobs) + 1
      /\ link_jobs'[Len(link_jobs) + 1] = new
      /\ \A j \in 1 .. Len(link_jobs) : link_jobs'[j] = link_jobs[j]
      BY <1>2, <1>3, <1>4
<1>7. Asks' = Asks \ {t} /\ t \in Asks
  <2>1. r.phase = "watch"
    <3>1. [[t EXCEPT !.job = Len(link_jobs')] EXCEPT !.phase = "watch"].phase = "watch"
          BY <1>3 DEF link!Tasks
    <3>2. r = [[t EXCEPT !.job = Len(link_jobs')] EXCEPT !.phase = "watch"]  BY <1>1, Zenon
    <3>. QED  BY <3>1, <3>2
  <2>. QED  BY <1>2, <2>1 DEF Asks
<1>8. Cardinality(Asks \ {t}) = Cardinality(Asks) - 1 /\ IsFiniteSet(Asks \ {t})
      BY <1>5, <1>7, FS_RemoveElement
<1>9. Len(link_jobs') + Cardinality(Asks') <= MaxStudies /\ Len(link_jobs) + 1 <= MaxStudies
  <2>1. Cardinality(Asks \ {t}) \in Nat  BY <1>8, FS_CardinalityType
  <2>. QED  BY <1>5, <1>6, <1>7, <1>8, <2>1
<1>10. /\ r \in link!Tasks /\ r.phase = "watch" /\ r.live = t.live /\ r.job = Len(link_jobs) + 1
          /\ r.kind = t.kind /\ r.link = t.link
  <2>1. Len(link_jobs') \in 0 .. MaxStudies  BY <1>5, <1>6, <1>9
  <2>2. PICK q : q = [t EXCEPT !.job = Len(link_jobs')]  OBVIOUS
  <2>3. q \in link!Tasks /\ q.live = t.live /\ q.job = Len(link_jobs') /\ q.kind = t.kind
        /\ q.link = t.link
        BY <1>3, <2>1, <2>2 DEF link!Tasks
  <2>4. r = [q EXCEPT !.phase = "watch"]  BY <1>1, <2>2, Zenon
  <2>. QED  BY <1>6, <2>3, <2>4 DEF link!Tasks
<1>11. link!At' = link!At /\ Approvals' = Approvals  BY <1>2 DEF link!At, Approvals
<1>12. link_route.job \in 0 .. Len(link_jobs) /\ link_shown \in 0 .. Len(link_jobs)
       /\ link_drafted \in 0 .. Len(link_jobs)
       BY DEF LinkInv, ShownInv
<1>13. Named' = Named /\ link!Resumes(link_route, link!At)' = link!Resumes(link_route, link!At)
  <2>1. link_route.job # 0 => link_jobs'[link_route.job] = link_jobs[link_route.job]  BY <1>5, <1>6, <1>12
  <2>. QED  BY <1>2, <1>11, <2>1 DEF Named, link!Resumes
<1>14. \A u \in link_tasks \ {t} : (Follows(u)' <=> Follows(u))
  <2>1. \A u \in link_tasks : u.phase # "ask" => link_jobs'[u.job] = link_jobs[u.job]
        BY <1>6 DEF LinkInv, TasksInv
  <2>. QED  BY <1>2, <1>11, <1>13, <2>1 DEF Follows
<1>15. t.live => Follows(r)'
  <2>1. SUFFICES ASSUME t.live PROVE Follows(r)'  OBVIOUS
  <2>2. Follows(t)  BY <2>1 DEF LinkInv, TasksInv
  <2>. QED  BY <1>2, <1>4, <1>6, <1>10, <1>11, <1>13, <2>2 DEF Follows
<1>16. IsFiniteSet(link_tasks')
  <2>1. IsFiniteSet(link_tasks \ {t})  BY <1>5, FS_RemoveElement
  <2>2. IsFiniteSet((link_tasks \ {t}) \cup {r})  BY <2>1, FS_AddElement
  <2>. QED  BY <1>2, <2>1, <2>2
<1>17. TasksInv'
  <2>1. \A u \in link_tasks' : u.live => Follows(u)'
        BY <1>2, <1>10, <1>14, <1>15 DEF LinkInv, TasksInv
  <2>2. \A u, v \in link_tasks' : u.live /\ v.live => u = v
        BY <1>2, <1>10 DEF LinkInv, TasksInv
  <2>6. \A u \in link_tasks' : u.phase = "ask" \/ u.live \/ (u.phase = "watch" /\ link_swapped')
    <3>1. t.live \in BOOLEAN /\ (r \in link_tasks' => r.live \/ r \in link_tasks)  BY <1>2, <1>3, <1>10 DEF link!Tasks
    <3>. QED  BY <1>2, <3>1 DEF LinkInv, TasksInv
  <2>3. \A u \in link_tasks' : IF u.phase = "ask" THEN u.job = 0 ELSE u.job \in 1 .. Len(link_jobs')
    <3>1. \A i \in 1 .. Len(link_jobs) : i \in 1 .. Len(link_jobs')  BY <1>5, <1>6
    <3>2. Len(link_jobs) + 1 \in 1 .. Len(link_jobs')  BY <1>5, <1>6
    <3>. QED  BY <1>2, <1>10, <3>1, <3>2 DEF LinkInv, TasksInv
  <2>4. \A u \in link_tasks' : u.phase = "ask" /\ u.kind = "analysis" /\ u.link # link!NoLink
        => u.link \in link_seen'
        BY <1>2, <1>10 DEF LinkInv, TasksInv
  <2>5. Len(Drafts) <= Len(link_jobs')  BY <1>5, <1>6
  <2>. QED  BY <1>9, <1>16, <2>1, <2>2, <2>3, <2>4, <2>5, <2>6 DEF TasksInv
<1>18. link!TypeOK'
  <2>1. link_tasks' \subseteq link!Tasks  BY <1>2, <1>10 DEF LinkInv, link!TypeOK
  <2>2. link_failed' \in BOOLEAN  BY <1>2, <1>3 DEF LinkInv, link!TypeOK, link!Tasks
  <2>. QED  BY <1>2, <1>6, <2>1, <2>2 DEF LinkInv, link!TypeOK, Study
<1>19. ShownInv'
  <2>1. \A i \in 0 .. Len(link_jobs) : i \in 0 .. Len(link_jobs')  BY <1>5, <1>6
  <2>2. ~ link_swapped /\ link!At = "analysis" /\ link_shown # 0 => \A u \in link_tasks' : ~ u.live
        BY <1>2, <1>10 DEF LinkInv, ShownInv
  <2>. QED  BY <1>2, <1>11, <1>12, <2>1, <2>2 DEF LinkInv, ShownInv
<1>20. link!LateResultsAreDropped'
  <2>1. link_shown # 0 => link_jobs'[link_shown] = link_jobs[link_shown]  BY <1>5, <1>6, <1>12
  <2>. QED  BY <1>2, <1>11, <1>13, <2>1 DEF LinkInv, link!LateResultsAreDropped, link!IsFor
<1>21. link!NothingAnalysedUnseen'
  <2>. SUFFICES ASSUME NEW j \in DOMAIN link_jobs', j > Len(Drafts), link_jobs'[j].kind = "analysis"
                PROVE link_jobs'[j].link \in link_seen
       BY <1>2 DEF link!NothingAnalysedUnseen
  <2>1. j \in 1 .. Len(link_jobs) \/ j = Len(link_jobs) + 1  BY <1>5, <1>6
  <2>2. CASE j \in 1 .. Len(link_jobs)
        BY <1>3, <1>6, <2>2 DEF LinkInv, link!NothingAnalysedUnseen
  <2>3. CASE j = Len(link_jobs) + 1
        BY <1>2, <1>4, <1>6, <2>3 DEF LinkInv, TasksInv
  <2>. QED  BY <2>1, <2>2, <2>3
<1>22. link!ScriptIsOfItsAnalysis'  BY <1>2 DEF LinkInv, link!ScriptIsOfItsAnalysis
<1>23. link!WaitingIsFollowed'
       BY <1>2, <1>10, <1>11 DEF LinkInv, link!WaitingIsFollowed, link!Waiting
<1>. QED  BY <1>17, <1>18, <1>19, <1>20, <1>21, <1>22, <1>23 DEF LinkInv

\* A job ends.
LEMMA EndsKeep ==
    ASSUME LinkAssumption, LinkInv, NEW j \in DOMAIN link_jobs, NEW how \in {"done", "failed"},
           link!Ends(j, how)
    PROVE  LinkInv'
<1>1. link_jobs' = [link_jobs EXCEPT ![j].state = how]
      /\ UNCHANGED <<link_route, link_submitted, link_approved, link_searching, link_found, link_shown,
                     link_drafted, link_failed, link_tasks, link_script, link_seen,
                     link_swapped, link_kept, link_spinning>>
      BY DEF link!Ends, link!screen
<1>2. link_jobs \in Seq(Study) /\ DOMAIN link_jobs = 1 .. Len(link_jobs) /\ Len(link_jobs) \in Nat
      /\ link_jobs[j] \in Study
      BY JobsAre DEF LinkInv, link!TypeOK, Study
<1>3. PICK r : r = [link_jobs[j] EXCEPT !.state = how]  OBVIOUS
<1>4. r \in Study /\ r.kind = link_jobs[j].kind /\ r.link = link_jobs[j].link  BY <1>2, <1>3 DEF Study
<1>5. link_jobs' = [link_jobs EXCEPT ![j] = r]  BY <1>1, <1>3
<1>6. /\ link_jobs' \in Seq(Study) /\ Len(link_jobs') = Len(link_jobs) /\ DOMAIN link_jobs' = DOMAIN link_jobs
      /\ \A i \in DOMAIN link_jobs : link_jobs'[i].kind = link_jobs[i].kind
         /\ link_jobs'[i].link = link_jobs[i].link
      BY <1>2, <1>4, <1>5
<1>7. link!At' = link!At /\ Approvals' = Approvals  BY <1>1 DEF link!At, Approvals
<1>8. link_route.job \in 0 .. Len(link_jobs) /\ link_shown \in 0 .. Len(link_jobs)  BY DEF LinkInv, ShownInv
<1>9. Named' = Named /\ link!Resumes(link_route, link!At)' = link!Resumes(link_route, link!At)
  <2>1. link_route.job # 0 => link_jobs'[link_route.job].kind = link_jobs[link_route.job].kind
        BY <1>2, <1>6, <1>8
  <2>. QED  BY <1>1, <1>7, <2>1 DEF Named, link!Resumes
<1>10. \A t \in link_tasks : Follows(t)' <=> Follows(t)
  <2>1. \A t \in link_tasks : t.phase # "ask" => link_jobs'[t.job].link = link_jobs[t.job].link
        BY <1>2, <1>6 DEF LinkInv, TasksInv
  <2>. QED  BY <1>1, <1>7, <1>9, <2>1 DEF Follows
<1>11. TasksInv'  BY <1>1, <1>6, <1>10 DEF LinkInv, TasksInv, Asks
<1>12. link!TypeOK'  BY <1>1, <1>6 DEF LinkInv, link!TypeOK, Study
<1>13. ShownInv'  BY <1>1, <1>6, <1>7 DEF LinkInv, ShownInv
<1>14. link!LateResultsAreDropped'
  <2>1. link_shown # 0 => link_jobs'[link_shown].link = link_jobs[link_shown].link  BY <1>2, <1>6, <1>8
  <2>. QED  BY <1>1, <1>7, <1>9, <2>1 DEF LinkInv, link!LateResultsAreDropped, link!IsFor
<1>15. link!NothingAnalysedUnseen'  BY <1>1, <1>6 DEF LinkInv, link!NothingAnalysedUnseen
<1>16. link!ScriptIsOfItsAnalysis' /\ link!WaitingIsFollowed'
       BY <1>1, <1>7 DEF LinkInv, link!ScriptIsOfItsAnalysis, link!WaitingIsFollowed, link!Waiting
<1>. QED  BY <1>11, <1>12, <1>13, <1>14, <1>15, <1>16 DEF LinkInv

\* A search, and a script that is approved.
LEMMA SearchKeeps ==
    ASSUME LinkAssumption, LinkInv,
           link!search \/ (\E ls \in SUBSET Links : link!SearchEnds(ls)) \/ link!ApproveScript
             \/ UNCHANGED link!vars
    PROVE  LinkInv'
<1>1. /\ UNCHANGED <<link_route, link_submitted, link_approved, link_shown, link_drafted, link_failed,
                     link_tasks, link_jobs, link_seen, link_swapped, link_kept, link_spinning>>
      /\ link_searching' \in BOOLEAN /\ link_found' \subseteq Links
  <2>1. link_searching \in BOOLEAN /\ link_found \subseteq Links  BY DEF LinkInv, link!TypeOK
  <2>2. ASSUME NEW ls \in SUBSET Links, link!SearchEnds(ls)
        PROVE  /\ UNCHANGED <<link_route, link_submitted, link_approved, link_shown, link_drafted,
                              link_failed, link_tasks, link_jobs, link_seen, link_swapped, link_kept,
                              link_spinning>>
               /\ link_searching' \in BOOLEAN /\ link_found' \subseteq Links
        BY <2>2 DEF link!SearchEnds, link!screen
  <2>. QED  BY <2>1, <2>2 DEF link!search, link!ApproveScript, link!vars, link!screen
<1>2. link!At' = link!At /\ Approvals' = Approvals /\ Named' = Named
      /\ link!Resumes(link_route, link!At)' = link!Resumes(link_route, link!At)
      BY <1>1 DEF link!At, Approvals, Named, link!Resumes
<1>3. \A t \in link_tasks : Follows(t)' <=> Follows(t)  BY <1>1, <1>2 DEF Follows
<1>4. TasksInv' /\ ShownInv'  BY <1>1, <1>2, <1>3 DEF LinkInv, TasksInv, ShownInv, Asks
<1>5. link!LateResultsAreDropped' /\ link!NothingAnalysedUnseen' /\ link!WaitingIsFollowed'
      BY <1>1, <1>2 DEF LinkInv, link!LateResultsAreDropped, link!IsFor, link!NothingAnalysedUnseen,
         link!WaitingIsFollowed, link!Waiting
<1>6. link_script' \in [text : 0 .. MaxStudies, shown : 0 .. MaxStudies, swapped : BOOLEAN]
      /\ link!ScriptIsOfItsAnalysis'
  <2>1. link_script \in [text : 0 .. MaxStudies, shown : 0 .. MaxStudies, swapped : BOOLEAN]
        /\ link!ScriptIsOfItsAnalysis
        /\ link_shown \in 0 .. MaxStudies /\ link_drafted \in 0 .. MaxStudies /\ link_swapped \in BOOLEAN
        BY DEF LinkInv, link!TypeOK
  <2>2. CASE link_script' = link_script  BY <2>1, <2>2 DEF link!ScriptIsOfItsAnalysis
  <2>3. CASE link!ApproveScript
    <3>1. link_script' = [text |-> link_drafted, shown |-> link_shown, swapped |-> link_swapped]
          /\ link!At = "analysis" /\ link_shown # 0
          BY <2>3 DEF link!ApproveScript
    <3>2. link_swapped \/ link_drafted = link_shown  BY <3>1 DEF LinkInv, ShownInv
    <3>. QED  BY <2>1, <3>1, <3>2 DEF link!ScriptIsOfItsAnalysis
  <2>4. \A ls : link!SearchEnds(ls) => link_script' = link_script  BY DEF link!SearchEnds
  <2>. QED  BY <2>2, <2>3, <2>4 DEF link!search, link!vars
<1>7. link!TypeOK'  BY <1>1, <1>6 DEF LinkInv, link!TypeOK
<1>. QED  BY <1>4, <1>5, <1>6, <1>7 DEF LinkInv

\* The inductive invariant of the study of a link.
LEMMA LinkKeeps == ASSUME LinkAssumption, LinkInv, [link!Next]_(link!vars) PROVE LinkInv'
<1>1. ASSUME NEW j \in DOMAIN link_jobs,
             link!OpenDraft(j) \/ link!OpenDraftInPlace(j) \/ link!Ends(j, "done") \/ link!Ends(j, "failed")
      PROVE  LinkInv'
      BY <1>1, StudyScreensKeep, InPlaceKeeps, EndsKeep
<1>2. ASSUME NEW t \in link_tasks,
             \/ \E told \in BOOLEAN : link!Started(t, told)
             \/ link!Refused(t) \/ link!Seen(t) \/ link!StillOpen(t) \/ link!ReadLost(t) \/ link!GivenUp(t)
             \/ link!LateAnswer(t)
      PROVE  LinkInv'
      BY <1>2, StartedKeeps, AnswersKeep, StillOpenKeeps
<1>. QED  BY <1>1, <1>2, StudyScreensKeep, SearchKeeps DEF link!Next

\* An error that appears: of what the screen is for, or of a late look.
LEMMA ErrorsAre ==
    ASSUME LinkAssumption, LinkInv, [link!Next]_(link!vars), link_failed', ~ link_failed
    PROVE  \E t \in link_tasks \ link_tasks' :
               IF link!IsLate(t) THEN link_swapped ELSE t.kind = link!At /\ link!IsFor(t.job, t.link)
<1>1. \A t \in link_tasks : Follows(t) => t.kind = link!At /\ link!IsFor(t.job, t.link)
  <2>1. \A t \in link_tasks : t.phase = "ask" => t.job = 0  BY DEF LinkInv, TasksInv
  <2>. QED  BY <2>1 DEF Follows, link!IsFor, Named, Approvals
<1>2. \A t \in link_tasks : t.live => t.kind = link!At /\ link!IsFor(t.job, t.link) /\ ~ link!IsLate(t)
      BY <1>1 DEF LinkInv, TasksInv, link!IsLate
<1>3. PICK t \in link_tasks : \/ \E told \in BOOLEAN : link!Started(t, told)
                              \/ link!Refused(t) \/ link!Seen(t) \/ link!GivenUp(t) \/ link!LateAnswer(t)
  <2>1. ASSUME NEW t \in link_tasks, link!StillOpen(t) \/ link!ReadLost(t) PROVE FALSE
        BY <2>1 DEF link!StillOpen, link!ReadLost, link!screen
  <2>2. ASSUME NEW j \in DOMAIN link_jobs,
               link!OpenDraft(j) \/ link!OpenDraftInPlace(j) \/ link!Ends(j, "done") \/ link!Ends(j, "failed")
        PROVE  FALSE
        BY <2>2 DEF link!OpenDraft, link!OpenDraftInPlace, link!Ends, link!Mount, link!screen
  <2>3. ASSUME NEW l \in Links, link!submit(l) \/ link!onAnalyze(l) PROVE FALSE
        BY <2>3 DEF link!submit, link!onAnalyze, link!Mount
  <2>4. ASSUME NEW ls \in SUBSET Links, link!SearchEnds(ls) PROVE FALSE
        BY <2>4 DEF link!SearchEnds, link!screen
  <2>5. ASSUME NEW p \in {"link", "trending"}, link!PickOption(p) PROVE FALSE
        BY <2>5 DEF link!PickOption, link!Unmount
  <2>6. ~ link!onApprove /\ ~ link!onBack /\ ~ link!search /\ ~ link!ApproveScript
        BY DEF link!onApprove, link!onBack, link!search, link!ApproveScript, link!Mount, link!Unmount,
           link!screen
  <2>7. ~ UNCHANGED link!vars  BY DEF link!vars, link!screen
  <2>. QED  BY <2>1, <2>2, <2>3, <2>4, <2>5, <2>6, <2>7 DEF link!Next
<1>4. CASE link!Refused(t) \/ link!Seen(t) \/ link!GivenUp(t)
  <2>1. t.live /\ t \notin link_tasks'  BY <1>4 DEF link!Refused, link!Seen, link!GivenUp
  <2>. QED  BY <1>2, <2>1
<1>5. CASE link!LateAnswer(t)
  <2>1. link!IsLate(t) /\ t \notin link_tasks' /\ t.phase = "watch" /\ ~ t.live
        BY <1>5 DEF link!LateAnswer, link!IsLate
  <2>2. link_swapped  BY <2>1 DEF LinkInv, TasksInv
  <2>. QED  BY <2>1, <2>2
<1>6. CASE \E told \in BOOLEAN : link!Started(t, told)
  <2>1. t.live /\ t \notin link_tasks'  BY <1>6 DEF link!Started
  <2>. QED  BY <1>2, <2>1
<1>. QED  BY <1>3, <1>4, <1>5, <1>6

\* It holds when the link page is opened.
LEMMA LinkStarts == ASSUME LinkAssumption, link!Init PROVE LinkInv
<1>1. MaxStudies \in Nat /\ Len(Drafts) \in Nat /\ Len(Drafts) <= MaxStudies /\ Drafts \in Seq(Study)
      BY DEF LinkAssumption
<1>2. 0 \in 0 .. MaxStudies /\ 0 \in 0 .. Len(Drafts)  BY <1>1
<1>3. link!At = "form" /\ Asks = {} /\ link_tasks = {} /\ link_jobs = Drafts /\ link_route.job = 0
      BY DEF link!Init, link!At, Asks
<1>4. IsFiniteSet({}) /\ Cardinality({}) = 0  BY FS_EmptySet
<1>5. TasksInv  BY <1>1, <1>3, <1>4 DEF TasksInv
<1>6. ShownInv
  <2>1. link!NotYet \notin Links  BY DEF LinkAssumption
  <2>. QED  BY <1>2, <1>3, <2>1 DEF link!Init, ShownInv
<1>7. link!TypeOK
  <2>1. link_route \in [panel : {"link", "trending"}, job : 0 .. MaxStudies]  BY <1>2 DEF link!Init
  <2>2. link!NoScript \in [text : 0 .. MaxStudies, shown : 0 .. MaxStudies, swapped : BOOLEAN]
        BY <1>2 DEF link!NoScript
  <2>. QED  BY <1>1, <1>2, <2>1, <2>2 DEF link!Init, link!TypeOK, Study
<1>8. link!LateResultsAreDropped /\ link!ScriptIsOfItsAnalysis /\ link!WaitingIsFollowed
      BY <1>3 DEF link!Init, link!LateResultsAreDropped, link!IsFor, link!ScriptIsOfItsAnalysis, link!NoScript,
         link!WaitingIsFollowed, link!Waiting
<1>9. link!NothingAnalysedUnseen
  <2>1. \A i \in DOMAIN Drafts : ~ (i > Len(Drafts))  BY <1>1
  <2>. QED  BY <1>3, <2>1 DEF link!NothingAnalysedUnseen
<1>. QED  BY <1>5, <1>6, <1>7, <1>8, <1>9 DEF LinkInv

-----------------------------------------------------------------------------
(* The way in (sign).                                                         *)

\* An attempt of the window that is open, or was opened last.
Fresh(n) == n.at + Window >= sign_bucket[n.action].resetAt

\* What is known of an attempt of that window, and of one before it.
InWindow(n) ==
  /\ n.nth <= sign_bucket[n.action].count /\ n.at < sign_bucket[n.action].resetAt
  /\ n.nth = 1 => n.at + Window = sign_bucket[n.action].resetAt

\* One counted in the window before is not the first of it: that one is forgotten.
InPlace(n) == IF Fresh(n) THEN InWindow(n) ELSE n.nth # 1

\* The attempts still remembered: within a window each has a number of its own, and of an
\* older window the first is forgotten by the time the next one opens.
Tries ==
  /\ \A n \in sign_tried :
      /\ n.action \in Throttled /\ n.nth \in 1 .. Attempts
      /\ n.at \in Nat /\ n.at <= sign_now /\ n.at + Window > sign_now
      /\ InPlace(n)
  /\ \A m, n \in sign_tried : m.action = n.action /\ m.nth = n.nth /\ (Fresh(m) <=> Fresh(n)) => m = n
  /\ \A a \in Throttled : sign_bucket[a].resetAt > sign_now => sign_bucket[a].count >= 1
     /\ sign_bucket[a].resetAt <= sign_now + Window

\* While a window is open, each attempt it let in is remembered.
AllRemembered ==
  \A a \in Throttled : sign_bucket[a].resetAt > sign_now =>
    \A k \in 1 .. Attempts : k <= sign_bucket[a].count =>
      \E n \in sign_tried : n.action = a /\ Fresh(n) /\ n.nth = k

\* A form that waits sent what its page submits.
SendsItsOwn == sign_form = "sending" => sign_page \in sign!AuthPages /\ sign_sent = sign!ActionOf[sign_page]

\* Whoever was sent to sign in on the way to a page takes its name along.
OnTheWay == sign_wanted # "" => sign_page = sign_wanted \/ (sign_page = "/login" /\ sign_asked = sign_wanted)

\* What holds throughout of the way in.
SignInv == sign!TypeOK /\ Tries /\ AllRemembered /\ SendsItsOwn /\ OnTheWay

-----------------------------------------------------------------------------
\* The window an attempt is counted in.
LEMMA CountedIs ==
    ASSUME SignAssumption, sign!TypeOK, NEW a \in Throttled
    PROVE  /\ sign!Counted(sign_bucket[a]) \in [count : 0 .. Attempts + 1, resetAt : 0 .. LastTick + Window]
           /\ sign_bucket[a].resetAt <= sign_now => /\ sign!Counted(sign_bucket[a]).count = 1
                                                    /\ sign!Counted(sign_bucket[a]).resetAt = sign_now + Window
           /\ sign_bucket[a].resetAt > sign_now =>
                /\ sign!Counted(sign_bucket[a]).resetAt = sign_bucket[a].resetAt
                /\ sign!Counted(sign_bucket[a]).count = IF sign_bucket[a].count > Attempts THEN sign_bucket[a].count
                                                        ELSE sign_bucket[a].count + 1
<1>1. sign_bucket[a] \in [count : 0 .. Attempts + 1, resetAt : 0 .. LastTick + Window]
      /\ sign_now \in 0 .. LastTick
      BY DEF sign!TypeOK
<1>. QED  BY <1>1 DEF sign!Counted, sign!Expired, sign!OneMore, SignAssumption

\* An attempt that is let in gets the next number of its window.
LEMMA AttemptKeeps ==
    ASSUME SignAssumption, sign!TypeOK, Tries, AllRemembered, NEW a \in Throttled, NEW r,
           r = [action |-> a, at |-> sign_now, nth |-> sign!Counted(sign_bucket[a]).count],
           sign!Allows(a), sign!CountsFor(a), sign_tried' = sign_tried \cup {r}, sign_now' = sign_now
    PROVE  Tries' /\ AllRemembered'
<1>1. sign_now \in 0 .. LastTick
      /\ sign_bucket \in [Throttled -> [count : 0 .. Attempts + 1, resetAt : 0 .. LastTick + Window]]
      BY DEF sign!TypeOK
<1>2. \A k \in Throttled : sign_bucket'[k] = IF k = a THEN sign!Counted(sign_bucket[k]) ELSE sign_bucket[k]
      BY DEF sign!CountsFor
<1>3. sign_bucket' \in [Throttled -> [count : 0 .. Attempts + 1, resetAt : 0 .. LastTick + Window]]
      BY <1>1, CountedIs DEF sign!CountsFor
<1>4. sign!Counted(sign_bucket[a]).count \in 1 .. Attempts
      BY <1>1, CountedIs DEF sign!Allows, SignAssumption
<1>5. r.action = a /\ r.at = sign_now /\ r.nth = sign_bucket'[a].count /\ r.nth \in 1 .. Attempts
      BY <1>2, <1>4
<1>6. sign_now \in Nat /\ Window \in Nat \ {0} /\ Attempts \in Nat \ {0}
      /\ \A k \in Throttled : sign_bucket[k].resetAt \in Nat /\ sign_bucket'[k].resetAt \in Nat
                         /\ sign_bucket[k].count \in Nat /\ sign_bucket'[k].count \in Nat
      BY <1>1, <1>3 DEF SignAssumption
<1>7. \A n \in sign_tried' : n = r \/ n \in sign_tried  OBVIOUS
<1>8. CASE sign_bucket[a].resetAt <= sign_now
  <2>1. sign_bucket'[a].count = 1 /\ sign_bucket'[a].resetAt = sign_now + Window
        BY <1>2, <1>8, CountedIs
  <2>2. ASSUME NEW n \in sign_tried, n.action = a PROVE ~ Fresh(n)' /\ Fresh(n) /\ n.nth # 1
        BY <1>6, <1>8, <2>1, <2>2 DEF Fresh, Tries, InPlace, InWindow
  <2>3. ASSUME NEW n \in sign_tried, n.action # a PROVE (Fresh(n)' <=> Fresh(n)) /\ InPlace(n)'
        BY <1>2, <2>3 DEF Fresh, Tries, InPlace, InWindow
  <2>4. Fresh(r)' /\ InWindow(r)'  BY <1>5, <1>6, <2>1 DEF Fresh, InWindow
  <2>5. \A n \in sign_tried' : /\ n.action \in Throttled /\ n.nth \in 1 .. Attempts
                               /\ n.at \in Nat /\ n.at <= sign_now /\ n.at + Window > sign_now
        BY <1>5, <1>6, <1>7 DEF Tries
  <2>6. \A n \in sign_tried' : InPlace(n)'
        BY <1>7, <2>2, <2>3, <2>4 DEF InPlace
  <2>7. \A m, n \in sign_tried' : m.action = n.action /\ m.nth = n.nth /\ (Fresh(m)' <=> Fresh(n)') => m = n
    <3>1. \A m, n \in sign_tried : m.action = n.action /\ m.nth = n.nth /\ (Fresh(m)' <=> Fresh(n)') => m = n
          BY <2>2, <2>3 DEF Tries
    <3>2. \A m \in sign_tried : ~ (m.action = r.action /\ (Fresh(m)' <=> Fresh(r)'))
          BY <1>5, <2>2, <2>4
    <3>. QED  BY <1>7, <3>1, <3>2
  <2>8. \A k \in Throttled : sign_bucket'[k].resetAt > sign_now => sign_bucket'[k].count >= 1
        /\ sign_bucket'[k].resetAt <= sign_now + Window
        BY <1>2, <1>6, <2>1 DEF Tries
  <2>9. AllRemembered'
    <3>. SUFFICES ASSUME NEW k \in Throttled, sign_bucket'[k].resetAt > sign_now, NEW i \in 1 .. Attempts,
                         i <= sign_bucket'[k].count
                  PROVE  \E n \in sign_tried' : n.action = k /\ Fresh(n)' /\ n.nth = i
         BY DEF AllRemembered
    <3>1. CASE k = a  BY <1>5, <2>1, <2>4, <3>1
    <3>2. CASE k # a
      <4>1. PICK n \in sign_tried : n.action = k /\ Fresh(n) /\ n.nth = i
            BY <1>2, <3>2 DEF AllRemembered
      <4>. QED  BY <2>3, <3>2, <4>1
    <3>. QED  BY <3>1, <3>2
  <2>. QED  BY <2>5, <2>6, <2>7, <2>8, <2>9 DEF Tries
<1>9. CASE sign_bucket[a].resetAt > sign_now
  <2>1. sign_bucket'[a].count = sign_bucket[a].count + 1 /\ sign_bucket'[a].resetAt = sign_bucket[a].resetAt
        BY <1>2, <1>4, <1>6, <1>9, CountedIs
  <2>2. \A n \in sign_tried : Fresh(n)' <=> Fresh(n)
        BY <1>2, <2>1 DEF Fresh, Tries
  <2>3. \A n \in sign_tried : InPlace(n)'
        BY <1>2, <1>6, <2>1, <2>2 DEF Tries, InPlace, InWindow
  <2>4. Fresh(r)' /\ InWindow(r)'
        BY <1>5, <1>6, <1>9, <2>1 DEF Fresh, InWindow, Tries
  <2>5. \A n \in sign_tried' : /\ n.action \in Throttled /\ n.nth \in 1 .. Attempts
                               /\ n.at \in Nat /\ n.at <= sign_now /\ n.at + Window > sign_now
        BY <1>5, <1>6, <1>7 DEF Tries
  <2>6. \A n \in sign_tried' : InPlace(n)'
        BY <1>7, <2>3, <2>4 DEF InPlace
  <2>7. \A m, n \in sign_tried' : m.action = n.action /\ m.nth = n.nth /\ (Fresh(m)' <=> Fresh(n)') => m = n
    <3>1. \A m, n \in sign_tried : m.action = n.action /\ m.nth = n.nth /\ (Fresh(m)' <=> Fresh(n)') => m = n
          BY <2>2 DEF Tries
    <3>2. \A m \in sign_tried : m.action = a /\ Fresh(m)' => m.nth < r.nth
          BY <1>5, <1>6, <2>1, <2>2 DEF Tries, InPlace, InWindow
    <3>3. \A m \in sign_tried : ~ (m.action = r.action /\ m.nth = r.nth /\ (Fresh(m)' <=> Fresh(r)'))
          BY <1>5, <2>4, <3>2
    <3>. QED  BY <1>7, <3>1, <3>3
  <2>8. \A k \in Throttled : sign_bucket'[k].resetAt > sign_now => sign_bucket'[k].count >= 1
        /\ sign_bucket'[k].resetAt <= sign_now + Window
        BY <1>2, <1>6, <1>9, <2>1 DEF Tries
  <2>9. AllRemembered'
    <3>. SUFFICES ASSUME NEW k \in Throttled, sign_bucket'[k].resetAt > sign_now, NEW i \in 1 .. Attempts,
                         i <= sign_bucket'[k].count
                  PROVE  \E n \in sign_tried' : n.action = k /\ Fresh(n)' /\ n.nth = i
         BY DEF AllRemembered
    <3>1. CASE k = a /\ i = r.nth  BY <1>5, <2>4, <3>1
    <3>2. CASE ~ (k = a /\ i = r.nth)
      <4>1. sign_bucket[k].resetAt > sign_now /\ i <= sign_bucket[k].count
            BY <1>2, <1>5, <1>6, <1>9, <2>1, <3>2
      <4>2. PICK n \in sign_tried : n.action = k /\ Fresh(n) /\ n.nth = i
            BY <4>1 DEF AllRemembered
      <4>. QED  BY <2>2, <4>2
    <3>. QED  BY <3>1, <3>2
  <2>. QED  BY <2>5, <2>6, <2>7, <2>8, <2>9 DEF Tries
<1>. QED  BY <1>6, <1>8, <1>9

\* An attempt that is turned away is counted and not remembered.
LEMMA RefusalKeeps ==
    ASSUME SignAssumption, sign!TypeOK, Tries, AllRemembered, NEW a \in Throttled, sign!Refuses(a),
           sign!CountsFor(a),
           sign_tried' = sign_tried, sign_now' = sign_now
    PROVE  Tries' /\ AllRemembered' /\ sign_bucket[a].resetAt > sign_now /\ sign_bucket[a].count >= Attempts
<1>1. sign_now \in 0 .. LastTick
      /\ sign_bucket \in [Throttled -> [count : 0 .. Attempts + 1, resetAt : 0 .. LastTick + Window]]
      BY DEF sign!TypeOK
<1>2. \A k \in Throttled : sign_bucket'[k] = IF k = a THEN sign!Counted(sign_bucket[k]) ELSE sign_bucket[k]
      BY DEF sign!CountsFor
<1>3. /\ sign_now \in Nat /\ Window \in Nat \ {0} /\ Attempts \in Nat \ {0}
      /\ \A k \in Throttled : sign_bucket[k].resetAt \in Nat /\ sign_bucket[k].count \in Nat
      BY <1>1 DEF SignAssumption
<1>4. sign_bucket[a].resetAt > sign_now /\ sign_bucket[a].count >= Attempts
      BY <1>3, CountedIs DEF sign!Refuses
<1>5. /\ sign_bucket'[a].resetAt = sign_bucket[a].resetAt
      /\ sign_bucket'[a].count \in Nat /\ sign_bucket'[a].count >= sign_bucket[a].count
      BY <1>2, <1>3, <1>4, CountedIs
<1>6. \A n \in sign_tried : (Fresh(n)' <=> Fresh(n)) /\ InPlace(n)'
      BY <1>2, <1>3, <1>5 DEF Fresh, Tries, InPlace, InWindow
<1>7. Tries'
      BY <1>2, <1>3, <1>5, <1>6 DEF Tries
<1>8. AllRemembered'
  <2>. SUFFICES ASSUME NEW k \in Throttled, sign_bucket'[k].resetAt > sign_now, NEW i \in 1 .. Attempts,
                       i <= sign_bucket'[k].count
                PROVE  \E n \in sign_tried' : n.action = k /\ Fresh(n)' /\ n.nth = i
       BY DEF AllRemembered
  <2>1. sign_bucket[k].resetAt > sign_now /\ i <= sign_bucket[k].count  BY <1>2, <1>3, <1>4, <1>5
  <2>2. PICK n \in sign_tried : n.action = k /\ Fresh(n) /\ n.nth = i
        BY <2>1 DEF AllRemembered
  <2>. QED  BY <1>6, <2>2
<1>. QED  BY <1>4, <1>7, <1>8

\* As time goes by, what is forgotten is older than a window.
LEMMA TickKeeps ==
    ASSUME SignAssumption, sign!TypeOK, Tries, AllRemembered, sign!Tick PROVE Tries' /\ AllRemembered'
<1>1. sign_now \in 0 .. LastTick /\ sign_now' = sign_now + 1 /\ sign_bucket' = sign_bucket
      /\ sign_tried' = {n \in sign_tried : n.at + Window > sign_now'}
      BY DEF sign!TypeOK, sign!Tick
<1>2. sign_now \in Nat /\ Window \in Nat \ {0}
      /\ \A k \in Throttled : sign_bucket[k].resetAt \in Nat /\ sign_bucket[k].count \in Nat
  <2>1. sign_bucket \in [Throttled -> [count : 0 .. Attempts + 1, resetAt : 0 .. LastTick + Window]]
        BY DEF sign!TypeOK
  <2>2. sign_now \in Nat /\ Window \in Nat \ {0}  BY <1>1 DEF SignAssumption
  <2>. QED  BY <2>1, <2>2
<1>3. \A n \in sign_tried : (Fresh(n)' <=> Fresh(n)) /\ (InPlace(n)' <=> InPlace(n))
      BY <1>1 DEF Fresh, InPlace, InWindow
<1>4. Tries'  BY <1>1, <1>2, <1>3 DEF Tries
<1>5. AllRemembered'
  <2>. SUFFICES ASSUME NEW k \in Throttled, sign_bucket[k].resetAt > sign_now', NEW i \in 1 .. Attempts,
                       i <= sign_bucket[k].count
                PROVE  \E n \in sign_tried' : n.action = k /\ Fresh(n)' /\ n.nth = i
       BY <1>1 DEF AllRemembered
  <2>1. PICK n \in sign_tried : n.action = k /\ Fresh(n) /\ n.nth = i
        BY <1>1, <1>2 DEF AllRemembered
  <2>2. n.at + Window > sign_now'
        BY <1>1, <1>2, <2>1 DEF Fresh, Tries
  <2>. QED  BY <1>1, <1>3, <2>1, <2>2
<1>. QED  BY <1>4, <1>5

\* Where a request ends.
LEMMA RouteIs ==
    ASSUME NEW p \in sign!Pages, NEW signedIn \in BOOLEAN
    PROVE  /\ sign!Route(p, signedIn).at \in sign!Pages
              /\ sign!Route(p, signedIn).redirect \in sign!Protected \cup {""}
           /\ p \in sign!Protected => \/ sign!Route(p, signedIn).at = p
                                      \/ sign!Route(p, signedIn).at = "/login"
                                         /\ sign!Route(p, signedIn).redirect = p
BY DEF sign!Route, sign!Pages, sign!Protected, sign!AuthPages, sign!ActionOf

\* The clock stays within its bound.
LEMMA TimeKeeps ==
    ASSUME SignAssumption, sign_now \in 0 .. LastTick, sign!Tick PROVE sign_now' \in 0 .. LastTick
BY DEF sign!Tick, SignAssumption

\* What the screens and the middleware keep.
LEMMA PagesKeep ==
    ASSUME SignAssumption, SignInv, [sign!Next]_(sign!vars)
    PROVE  /\ sign_page' \in sign!Pages /\ sign_asked' \in sign!Protected \cup {""}
              /\ sign_form' \in {"idle", "sending", "sent", "error"}
           /\ sign_sent' \in sign!Actions \cup {""} /\ sign_reply' \in sign!Replies
           /\ sign_session' \in BOOLEAN /\ sign_now' \in 0 .. LastTick
              /\ sign_wanted' \in sign!Protected \cup {""}
           /\ SendsItsOwn' /\ OnTheWay'
<1>. USE DEF SignInv, sign!TypeOK, SendsItsOwn, OnTheWay, sign!Replies
<1>1. CASE UNCHANGED sign!vars  BY <1>1 DEF sign!vars
<1>3. ASSUME NEW p \in sign!Pages, sign!Open(p)
      PROVE  /\ sign_page' \in sign!Pages /\ sign_asked' \in sign!Protected \cup {""} /\ sign_form' = "idle"
             /\ sign_wanted' \in sign!Protected \cup {""} /\ OnTheWay'
             /\ UNCHANGED <<sign_sent, sign_reply, sign_session, sign_now>>
  <2>1. p \in sign!Protected => p # "" /\ p # "/login"  BY DEF sign!Protected
  <2>. QED  BY <1>3, <2>1, RouteIs DEF sign!Open, sign!Goes
<1>4. CASE \E p \in sign!Pages : sign!Open(p)  BY <1>3, <1>4
<1>5. CASE sign!Submit
      BY <1>5 DEF sign!Submit, sign!Actions, sign!Pages
<1>6. CASE sign!ServeRefused \/ sign!ServeWrong \/ sign!Lost
      BY <1>6 DEF sign!ServeRefused, sign!ServeWrong, sign!LetIn, sign!Waiting, sign!Lost
<1>7. CASE sign!ServeDone
      BY <1>7 DEF sign!ServeDone, sign!LetIn, sign!Waiting
<1>8. CASE sign!HearNothing \/ sign!HearError \/ sign!HearLinkSent
      BY <1>8 DEF sign!HearNothing, sign!HearError, sign!HearLinkSent, sign!Heard
<1>9. CASE sign!HearDone
  <2>1. sign_form = "sending" /\ sign_sent = sign!ActionOf[sign_page] /\ sign_page \in sign!AuthPages
        BY <1>9 DEF sign!HearDone
  <2>2. sign!Target \in sign!Pages
        BY DEF sign!Target, sign!Pages, sign!AuthPages, sign!ActionOf, sign!Protected
  <2>3. sign!Goes(sign!Target) /\ sign_form' = "idle" /\ sign!Heard  BY <1>9 DEF sign!HearDone
  <2>4. sign_wanted # "" => sign!Target = sign_wanted
    <3>1. SUFFICES ASSUME sign_wanted # "" PROVE sign!Target = sign_wanted  OBVIOUS
    <3>2. sign_wanted \in sign!Protected  BY <3>1
    <3>3. sign_page \notin sign!Protected  BY <2>1 DEF sign!Protected, sign!AuthPages, sign!ActionOf
    <3>4. sign_page = "/login" /\ sign_asked = sign_wanted  BY <3>1, <3>2, <3>3
    <3>5. sign_sent = "signin"  BY <2>1, <3>4 DEF sign!ActionOf
    <3>. QED  BY <3>1, <3>4, <3>5 DEF sign!Target
  <2>. QED  BY <2>2, <2>3, <2>4, RouteIs DEF sign!Goes, sign!Heard
<1>10. CASE sign!InElsewhere \/ sign!OutElsewhere
      BY <1>10 DEF sign!InElsewhere, sign!OutElsewhere
<1>11. CASE sign!Tick
  <2>1. sign_now' \in 0 .. LastTick  BY <1>11, TimeKeeps
  <2>2. UNCHANGED <<sign_page, sign_asked, sign_form, sign_sent, sign_reply, sign_session, sign_wanted>>
        BY <1>11 DEF sign!Tick
  <2>. QED  BY <2>1, <2>2
<1>. QED  BY <1>1, <1>4, <1>5, <1>6, <1>7, <1>8, <1>9, <1>10, <1>11 DEF sign!Next

\* A step that leaves the limiter alone.
LEMMA LimiterAlone ==
    ASSUME Tries, AllRemembered, UNCHANGED <<sign_bucket, sign_now, sign_tried>>
    PROVE  Tries' /\ AllRemembered'
<1>1. \A n \in sign_tried : (Fresh(n)' <=> Fresh(n)) /\ (InPlace(n)' <=> InPlace(n))
      BY DEF Fresh, InPlace, InWindow
<1>2. Tries'  BY <1>1 DEF Tries
<1>3. AllRemembered'
  <2>. SUFFICES ASSUME NEW k \in Throttled, sign_bucket[k].resetAt > sign_now, NEW i \in 1 .. Attempts,
                       i <= sign_bucket[k].count
                PROVE  \E n \in sign_tried : n.action = k /\ Fresh(n)' /\ n.nth = i
       BY DEF AllRemembered
  <2>1. PICK n \in sign_tried : n.action = k /\ Fresh(n) /\ n.nth = i  BY DEF AllRemembered
  <2>. QED  BY <1>1, <2>1
<1>. QED  BY <1>2, <1>3

\* An attempt at an action whose window is not followed leaves the windows alone.
LEMMA OtherActions ==
    ASSUME sign!TypeOK, NEW a, a \notin Throttled, sign!CountsFor(a)
    PROVE sign_bucket' = sign_bucket /\ sign!Try(a) = {}
<1>1. sign_bucket \in [Throttled -> [count : 0 .. Attempts + 1, resetAt : 0 .. LastTick + Window]]
      BY DEF sign!TypeOK
<1>2. sign_bucket' = sign_bucket  BY <1>1 DEF sign!CountsFor
<1>3. Throttled \cap {a} = {}  OBVIOUS
<1>. QED  BY <1>2, <1>3 DEF sign!Try

\* An attempt that is let in, at any action.
LEMMA LetInKeeps ==
    ASSUME SignAssumption, sign!TypeOK, Tries, AllRemembered, NEW a, sign!Allows(a), sign!CountsFor(a),
           sign_tried' = sign_tried \cup sign!Try(a), sign_now' = sign_now
    PROVE  Tries' /\ AllRemembered'
<1>1. CASE a \in Throttled
  <2>. DEFINE r == [action |-> a, at |-> sign_now, nth |-> sign!Counted(sign_bucket[a]).count]
  <2>1. sign!Try(a) = {r}  BY <1>1 DEF sign!Try
  <2>. HIDE DEF r
  <2>2. sign_tried' = sign_tried \cup {r}  BY <2>1
  <2>. QED  BY <1>1, <2>2, AttemptKeeps DEF r
<1>2. CASE a \notin Throttled
  <2>1. UNCHANGED <<sign_bucket, sign_now, sign_tried>>  BY <1>2, OtherActions
  <2>. QED  BY <2>1, LimiterAlone
<1>. QED  BY <1>1, <1>2

\* The windows keep their type.
LEMMA BucketTyped ==
    ASSUME SignAssumption, sign!TypeOK, NEW a, sign!CountsFor(a)
    PROVE  sign_bucket' \in [Throttled -> [count : 0 .. Attempts + 1, resetAt : 0 .. LastTick + Window]]
<1>1. sign_bucket \in [Throttled -> [count : 0 .. Attempts + 1, resetAt : 0 .. LastTick + Window]]
      BY DEF sign!TypeOK
<1>. QED  BY <1>1, CountedIs DEF sign!CountsFor

\* The limiter keeps its windows and what it remembers.
LEMMA LimiterKeeps ==
    ASSUME SignAssumption, SignInv, [sign!Next]_(sign!vars)
    PROVE  /\ Tries' /\ AllRemembered'
           /\ sign_bucket' \in [Throttled -> [count : 0 .. Attempts + 1, resetAt : 0 .. LastTick + Window]]
<1>. USE DEF SignInv
<1>0. sign_bucket \in [Throttled -> [count : 0 .. Attempts + 1, resetAt : 0 .. LastTick + Window]]
      BY DEF sign!TypeOK
<1>1. CASE UNCHANGED <<sign_bucket, sign_now, sign_tried>>  BY <1>0, <1>1, LimiterAlone
<1>2. CASE sign!ServeRefused
  <2>1. sign!Refuses(sign_sent) /\ sign!CountsFor(sign_sent) /\ sign_tried' = sign_tried
        /\ sign_now' = sign_now
        BY <1>2 DEF sign!ServeRefused, sign!Counts
  <2>2. CASE sign_sent \in Throttled  BY <2>1, <2>2, RefusalKeeps, BucketTyped
  <2>3. CASE sign_sent \notin Throttled  BY <1>0, <2>1, <2>3, OtherActions, LimiterAlone
  <2>. QED  BY <2>2, <2>3
<1>3. CASE sign!ServeWrong \/ sign!ServeDone
  <2>1. sign!Allows(sign_sent) /\ sign!CountsFor(sign_sent)
        /\ sign_tried' = sign_tried \cup sign!Try(sign_sent) /\ sign_now' = sign_now
        BY <1>3 DEF sign!ServeWrong, sign!ServeDone, sign!LetIn, sign!Counts
  <2>. QED  BY <2>1, LetInKeeps, BucketTyped
<1>4. CASE sign!InElsewhere
  <2>1. sign!Allows("signin") /\ sign!CountsFor("signin") /\ sign_tried' = sign_tried \cup sign!Try("signin")
        /\ sign_now' = sign_now
        BY <1>4 DEF sign!InElsewhere
  <2>. QED  BY <2>1, LetInKeeps, BucketTyped
<1>5. CASE sign!Tick
  <2>1. sign_bucket' = sign_bucket  BY <1>5 DEF sign!Tick
  <2>. QED  BY <1>0, <1>5, <2>1, TickKeeps
<1>6. ASSUME NEW p \in sign!Pages, sign!Open(p) PROVE UNCHANGED <<sign_bucket, sign_now, sign_tried>>
      BY <1>6 DEF sign!Open
<1>7. CASE (\E p \in sign!Pages : sign!Open(p)) \/ sign!Submit \/ sign!Lost \/ sign!HearNothing
      \/ sign!HearError
           \/ sign!HearLinkSent \/ sign!HearDone \/ sign!OutElsewhere
  <2>1. UNCHANGED <<sign_bucket, sign_now, sign_tried>>
        BY <1>6, <1>7 DEF sign!Submit, sign!Lost, sign!HearNothing, sign!HearError, sign!HearLinkSent,
           sign!HearDone, sign!Heard, sign!OutElsewhere
  <2>. QED  BY <1>1, <2>1
<1>8. CASE UNCHANGED sign!vars  BY <1>1, <1>8 DEF sign!vars
<1>. QED  BY <1>2, <1>3, <1>4, <1>5, <1>7, <1>8 DEF sign!Next

\* The inductive invariant of the way in.
LEMMA SignKeeps == ASSUME SignAssumption, SignInv, [sign!Next]_(sign!vars) PROVE SignInv'
<1>1. \A n \in sign_tried' : n.action \in Throttled /\ n.nth \in 0 .. Attempts
  <2>1. Tries'  BY LimiterKeeps
  <2>2. Attempts \in Nat /\ \A i \in 1 .. Attempts : i \in 0 .. Attempts  BY DEF SignAssumption
  <2>. QED  BY <2>1, <2>2 DEF Tries
<1>2. sign!TypeOK'  BY <1>1, PagesKeep, LimiterKeeps DEF sign!TypeOK
<1>. QED  BY <1>2, PagesKeep, LimiterKeeps DEF SignInv

\* It holds before the first page is opened.
LEMMA SignStarts == ASSUME SignAssumption, sign!Init PROVE SignInv
<1>1. sign_bucket \in [Throttled -> [count : 0 .. Attempts + 1, resetAt : 0 .. LastTick + Window]]
  <2>1. Attempts \in Nat /\ Window \in Nat /\ LastTick \in Nat  BY DEF SignAssumption
  <2>2. 0 \in 0 .. Attempts + 1 /\ 0 \in 0 .. LastTick + Window  BY <2>1
  <2>3. [count |-> 0, resetAt |-> 0] \in [count : 0 .. Attempts + 1, resetAt : 0 .. LastTick + Window]
        BY <2>2
  <2>4. sign_bucket = [a \in Throttled |-> [count |-> 0, resetAt |-> 0]]  BY DEF sign!Init
  <2>. QED  BY <2>3, <2>4
<1>2. sign_now \in 0 .. LastTick /\ \A a \in Throttled : ~ (sign_bucket[a].resetAt > sign_now)
  <2>1. LastTick \in Nat /\ sign_now = 0 /\ sign_bucket = [a \in Throttled |-> [count |-> 0, resetAt |-> 0]]
        BY DEF SignAssumption, sign!Init
  <2>. QED  BY <2>1
<1>3. sign!TypeOK  BY <1>1, <1>2 DEF sign!Init, sign!TypeOK, sign!Pages, sign!Replies
<1>4. Tries /\ AllRemembered  BY <1>2 DEF sign!Init, Tries, AllRemembered
<1>5. SendsItsOwn /\ OnTheWay  BY DEF sign!Init, SendsItsOwn, OnTheWay
<1>. QED  BY <1>3, <1>4, <1>5 DEF SignInv

-----------------------------------------------------------------------------
\* In any window's length fewer than twice the limit get through: numbered from 1 in the
\* open window and from the limit on in the one before it, whose first is too old.
LEMMA FewInAWindow ==
    ASSUME SignAssumption, SignInv, NEW a \in Throttled
    PROVE  IsFiniteSet(sign!Recent(a)) /\ Cardinality(sign!Recent(a)) < 2 * Attempts
<1>. DEFINE Number(n) == IF Fresh(n) THEN n.nth ELSE Attempts + n.nth - 1
            f == [n \in sign!Recent(a) |-> Number(n)]
<1>1. Attempts \in Nat \ {0}  BY DEF SignAssumption
<1>2. \A n \in sign!Recent(a) : /\ n \in sign_tried /\ n.action = a /\ n.nth \in 1 .. Attempts
                                /\ ~ Fresh(n) => n.nth # 1
      BY DEF sign!Recent, SignInv, Tries, InPlace
<1>3. \A n \in sign!Recent(a) : Number(n) \in 1 .. 2 * Attempts - 1
      BY <1>1, <1>2
<1>4. \A m, n \in sign!Recent(a) : Number(m) = Number(n) => m = n
  <2>. SUFFICES ASSUME NEW m \in sign!Recent(a), NEW n \in sign!Recent(a), Number(m) = Number(n) PROVE m = n
       OBVIOUS
  <2>1. (Fresh(m) <=> Fresh(n)) /\ m.nth = n.nth  BY <1>1, <1>2
  <2>. QED  BY <1>2, <2>1 DEF SignInv, Tries
<1>. HIDE DEF Number
<1>5. f \in Injection(sign!Recent(a), 1 .. 2 * Attempts - 1)
      BY <1>3, <1>4 DEF Injection, IsInjective
<1>6. 2 * Attempts - 1 \in Int /\ 1 <= 2 * Attempts - 1  BY <1>1
<1>7. IsFiniteSet(1 .. 2 * Attempts - 1) /\ Cardinality(1 .. 2 * Attempts - 1) = 2 * Attempts - 1
      BY <1>6, FS_Interval
<1>8. IsFiniteSet(sign!Recent(a)) /\ Cardinality(sign!Recent(a)) <= 2 * Attempts - 1
      BY <1>5, <1>7, FS_Injection
<1>9. Cardinality(sign!Recent(a)) \in Nat  BY <1>8, FS_CardinalityType
<1>. QED  BY <1>1, <1>8, <1>9

\* Who is refused finds every number of the open window taken.
LEMMA FullWhenRefused ==
    ASSUME SignAssumption, SignInv, sign!Next, sign_reply' = "refused", sign_reply # "refused",
           sign_sent \in Throttled
    PROVE  Cardinality(sign!Recent(sign_sent)) >= Attempts
<1>1. sign!ServeRefused
  <2>1. \A p \in sign!Pages : sign!Open(p) => sign_reply' = sign_reply  BY DEF sign!Open
  <2>. QED  BY <2>1 DEF sign!Next, sign!Submit, sign!ServeWrong, sign!ServeDone, sign!Lost, sign!HearNothing,
        sign!HearError,
               sign!HearLinkSent, sign!HearDone, sign!Heard, sign!InElsewhere, sign!OutElsewhere, sign!Tick
<1>2. sign_bucket[sign_sent].resetAt > sign_now /\ sign_bucket[sign_sent].count >= Attempts
      BY <1>1, RefusalKeeps DEF sign!ServeRefused, sign!Counts, SignInv
<1>3. Attempts \in Nat /\ sign_bucket[sign_sent].count \in Nat
  <2>1. sign_bucket \in [Throttled -> [count : 0 .. Attempts + 1, resetAt : 0 .. LastTick + Window]]
        BY DEF SignInv, sign!TypeOK
  <2>2. sign_bucket[sign_sent].count \in 0 .. Attempts + 1  BY <2>1
  <2>. QED  BY <2>2 DEF SignAssumption
<1>4. \A k \in 1 .. Attempts : \E n \in sign!Recent(sign_sent) : Fresh(n) /\ n.nth = k
  <2>. SUFFICES ASSUME NEW k \in 1 .. Attempts PROVE \E n \in sign!Recent(sign_sent) : Fresh(n) /\ n.nth = k
       OBVIOUS
  <2>1. k <= sign_bucket[sign_sent].count  BY <1>2, <1>3
  <2>2. PICK n \in sign_tried : n.action = sign_sent /\ Fresh(n) /\ n.nth = k
        BY <1>2, <2>1 DEF SignInv, AllRemembered
  <2>. QED  BY <2>2 DEF sign!Recent, SignInv, Tries
<1>. DEFINE g == [k \in 1 .. Attempts |-> CHOOSE n \in sign!Recent(sign_sent) : Fresh(n) /\ n.nth = k]
<1>5. \A k \in 1 .. Attempts : g[k] \in sign!Recent(sign_sent) /\ g[k].nth = k  BY <1>4
<1>. HIDE DEF g
<1>6. g \in Injection(1 .. Attempts, sign!Recent(sign_sent))
  <2>1. g \in [1 .. Attempts -> sign!Recent(sign_sent)]  BY <1>5 DEF g
  <2>2. \A i, j \in 1 .. Attempts : g[i] = g[j] => i = j  BY <1>5
  <2>. QED  BY <2>1, <2>2 DEF Injection, IsInjective
<1>7. IsFiniteSet(1 .. Attempts) /\ Cardinality(1 .. Attempts) = Attempts
  <2>1. Attempts \in Nat \ {0}  BY DEF SignAssumption
  <2>. QED  BY <2>1, FS_Interval
<1>8. IsFiniteSet(sign!Recent(sign_sent))  BY FewInAWindow
<1>. QED  BY <1>6, <1>7, <1>8, FS_Injection

\* A set of attempts has the same size everywhere.
LEMMA AttemptsCount == \A S : sign!Cardinality(S) = Cardinality(S)
BY Zenon DEF sign!Cardinality, Cardinality

\* Whoever has reached a page behind the sign-in has reached the one last asked for.
LEMMA ReachedIsAsked == ASSUME OnTheWay PROVE sign!LandsWhereAsked
BY DEF OnTheWay, sign!LandsWhereAsked, sign!Protected

-----------------------------------------------------------------------------
(* The rows of the schedule page (row).                                       *)

\* The press under way is of the form, an answer is one to a press, and the page differs
\* from the post only by what others did or by a press that is still to be answered.
RowInv ==
    /\ row!TypeOK
    /\ row_call = "move" => row_sent # row!Blank
    /\ row_call = "none" => row_outcome = "none"
    /\ row_shown /\ ~ row_others /\ row_outcome # "ok" => row_seen = row_post
    /\ row_moved => row_post.at = row!At(row_sent) /\ row_sent # row!Blank

-----------------------------------------------------------------------------
\* The instants the posts are at.
LEMMA InstantsAre ==
    ASSUME RowAssumption
    PROVE  /\ row!Instants \subseteq Int /\ Hours \subseteq row!Instants
           /\ \A h \in Hours, o \in Leads : h - o \in row!Instants
           /\ row!Blank \notin Hours
<1>1. \A h \in Hours : h \in Int /\ h >= 0  BY DEF RowAssumption
<1>2. \A o \in Leads : o \in Int  BY DEF RowAssumption
<1>3. \A h \in Hours, o \in Leads : h - o \in Int  BY <1>1, <1>2
<1>4. row!Instants \subseteq Int  BY <1>1, <1>3 DEF row!Instants
<1>5. Hours \subseteq row!Instants /\ \A h \in Hours, o \in Leads : h - o \in row!Instants
      BY DEF row!Instants
<1>6. row!Blank \notin Hours  BY <1>1 DEF row!Blank
<1>. QED  BY <1>4, <1>5, <1>6

\* What the record of a post becomes.
LEMMA PostIs ==
    ASSUME RowAssumption, NEW p \in row!Post, NEW s \in row!Statuses, NEW i \in row!Instants
    PROVE  /\ [p EXCEPT !.status = s] \in row!Post /\ [p EXCEPT !.status = s].at = p.at
           /\ [p EXCEPT !.status = s].status = s
           /\ [p EXCEPT !.at = i] \in row!Post /\ [p EXCEPT !.at = i].at = i
           /\ [p EXCEPT !.at = i].status = p.status
BY DEF row!Post

\* The invariant part by part, for the steps that leave the post and its history alone.
LEMMA PostAlone ==
    ASSUME RowInv, UNCHANGED <<row_here, row_there, row_post, row_sent, row_moved>>
    PROVE  /\ row_here' \in Leads /\ row_there' \in Leads /\ row_post' \in row!Post /\ row_moved' \in BOOLEAN
           /\ row_sent' \in Hours \cup {row!Blank}
           /\ row_moved' => row_post'.at = row!At(row_sent)' /\ row_sent' # row!Blank
BY DEF RowInv, row!TypeOK, row!At

\* What a press, its answer and its loss leave.
LEMMA RowPressKeeps ==
    ASSUME RowInv,
           row!StartEditing \/ row!CancelPost \/ (\E h \in Hours \cup {row!Blank} : row!Type(h))
             \/ row!HearOk \/ row!HearRefused \/ row!Lost \/ row!Reload \/ UNCHANGED row!vars
    PROVE  RowInv'
<1>0. UNCHANGED <<row_here, row_there, row_post, row_sent, row_moved>>
  <2>1. \A h : row!Type(h) => UNCHANGED <<row_here, row_there, row_post, row_sent, row_moved>>
        BY DEF row!Type, row!zones
  <2>. QED  BY <2>1 DEF row!StartEditing, row!CancelPost, row!HearOk, row!HearRefused, row!Lost, row!Reload,
        row!vars, row!zones
<1>1. /\ row_seen' \in row!Post /\ row_shown' \in BOOLEAN
      /\ row_editing' \in BOOLEAN /\ row_when' \in Hours \cup {row!Blank}
      /\ row_call' \in {"none", "cancel", "move"} /\ row_outcome' \in {"none", "ok", "refused"}
      /\ row_told' \in BOOLEAN /\ row_others' \in BOOLEAN
  <2>1. ASSUME NEW h \in Hours \cup {row!Blank}, row!Type(h)
        PROVE  row_when' \in Hours \cup {row!Blank}
          /\ UNCHANGED <<row_seen, row_shown, row_editing, row_call, row_outcome, row_told, row_others>>
        BY <2>1 DEF row!Type
  <2>. QED  BY <2>1 DEF row!StartEditing, row!CancelPost, row!HearOk, row!HearRefused, row!Lost, row!Reload,
        row!vars, RowInv, row!TypeOK
<1>2. /\ row_call' = "move" => row_sent' # row!Blank
      /\ row_call' = "none" => row_outcome' = "none"
      /\ row_shown' /\ ~ row_others' /\ row_outcome' # "ok" => row_seen' = row_post'
  <2>1. ASSUME NEW h \in Hours \cup {row!Blank}, row!Type(h)
        PROVE  UNCHANGED <<row_seen, row_shown, row_call, row_outcome, row_others>>
        BY <2>1 DEF row!Type
  <2>2. /\ row_call = "move" => row_sent # row!Blank
        /\ row_call = "none" => row_outcome = "none"
        /\ row_shown /\ ~ row_others /\ row_outcome # "ok" => row_seen = row_post
        BY DEF RowInv
  <2>. QED  BY <1>0, <2>1, <2>2 DEF row!StartEditing, row!CancelPost, row!HearOk, row!HearRefused, row!Lost,
        row!Reload, row!vars
<1>. QED  BY <1>0, <1>1, <1>2, PostAlone DEF RowInv, row!TypeOK

\* What is asked, what is done, and what others do.
LEMMA RowKeeps == ASSUME RowAssumption, RowInv, [row!Next]_(row!vars) PROVE RowInv'
<1>1. CASE row!Reschedule
  <2>1. UNCHANGED <<row_here, row_there, row_post, row_seen, row_shown, row_editing, row_when, row_outcome,
                    row_others>>
        /\ row_call' = "move" /\ row_sent' = row_when /\ row_when # row!Blank /\ row_call = "none"
           /\ row_told' = FALSE /\ row_moved' = FALSE
        BY <1>1 DEF row!Reschedule, row!zones
  <2>. QED  BY <2>1 DEF RowInv, row!TypeOK
<1>2. CASE row!Serve
  <2>0. UNCHANGED <<row_here, row_there, row_seen, row_shown, row_editing, row_when, row_call, row_sent,
                    row_told, row_others>> /\ row_call # "none"
        BY <1>2 DEF row!Serve, row!zones
  <2>1. CASE row_outcome' = "refused" /\ UNCHANGED <<row_post, row_moved>>
    <3>1. row_outcome = "none"  BY <1>2 DEF row!Serve
    <3>. QED  BY <2>0, <2>1, <3>1, PostAlone DEF RowInv, row!TypeOK
  <2>2. CASE /\ row!NotStarted(row_post) /\ row_outcome' = "ok" /\ row_call = "cancel"
             /\ row_post' = [row_post EXCEPT !.status = "cancelled"] /\ row_moved' = FALSE
    <3>1. row_post' \in row!Post  BY <2>2, PostIs DEF row!Statuses, RowInv, row!TypeOK, row!Post
    <3>. QED  BY <2>0, <2>2, <3>1 DEF RowInv, row!TypeOK
  <2>3. CASE /\ row!NotStarted(row_post) /\ row_outcome' = "ok" /\ row_call = "move"
             /\ row_post' = [row_post EXCEPT !.at = row!At(row_sent)] /\ row_moved' = TRUE
    <3>1. row_sent \in Hours /\ row_sent # row!Blank  BY <2>3 DEF RowInv, row!TypeOK
    <3>2. row!At(row_sent) \in row!Instants /\ row!At(row_sent)' = row!At(row_sent)
          BY <2>0, <3>1, InstantsAre DEF row!At, RowInv, row!TypeOK
    <3>3. row_post' \in row!Post /\ row_post'.at = row!At(row_sent)
          BY <2>3, <3>2, PostIs DEF row!Statuses, RowInv, row!TypeOK
    <3>. QED  BY <2>0, <2>3, <3>1, <3>2, <3>3 DEF RowInv, row!TypeOK
  <2>4. row_call \in {"none", "cancel", "move"}  BY DEF RowInv, row!TypeOK
  <2>. QED  BY <1>2, <2>1, <2>2, <2>3, <2>4 DEF row!Serve
<1>3. CASE row!GoesOut
  <2>1. row_post' \in row!Post /\ row_post'.at = row_post.at
        BY <1>3, PostIs DEF row!GoesOut, row!Statuses, row!Post, RowInv, row!TypeOK
  <2>2. UNCHANGED <<row_here, row_there, row_seen, row_shown, row_editing, row_when, row_call, row_sent,
                    row_outcome, row_told, row_moved>> /\ row_others' = TRUE
        BY <1>3 DEF row!GoesOut, row!zones, row!row
  <2>3. row!At(row_sent)' = row!At(row_sent)  BY <2>2 DEF row!At
  <2>. QED  BY <2>1, <2>2, <2>3 DEF RowInv, row!TypeOK
<1>4. CASE row!OtherTab
  <2>1. \A h \in Hours : row!At(h) \in row!Instants  BY InstantsAre DEF row!At, RowInv, row!TypeOK
  <2>2. row_post' \in row!Post
        BY <1>4, <2>1, PostIs DEF row!OtherTab, row!Statuses, row!Post, RowInv, row!TypeOK
  <2>3. UNCHANGED <<row_here, row_there, row_seen, row_shown, row_editing, row_when, row_call, row_sent,
                    row_outcome, row_told>>
        /\ row_others' = TRUE /\ row_moved' = FALSE
        BY <1>4 DEF row!OtherTab, row!zones, row!row
  <2>. QED  BY <2>2, <2>3 DEF RowInv, row!TypeOK
<1>. QED  BY <1>1, <1>2, <1>3, <1>4, RowPressKeeps DEF row!Next

\* It holds when the page of posts is opened.
LEMMA RowStarts == ASSUME RowAssumption, row!Init PROVE RowInv
<1>1. row_post \in row!Post /\ row_seen \in row!Post  BY InstantsAre DEF row!Init, row!Post, row!Statuses
<1>. QED  BY <1>1 DEF row!Init, RowInv, row!TypeOK

\* A post that is going out is neither moved nor taken back.
LEMMA NoHarm == ASSUME RowInv, [row!Next]_(row!vars), row_post.status # "scheduled"
                PROVE  row_post'.at = row_post.at /\ (row_post'.status = "cancelled" => row_post' = row_post)
<1>. USE DEF RowInv, row!TypeOK
<1>1. CASE row!GoesOut
      BY <1>1 DEF row!GoesOut, row!Post
<1>2. CASE row_post' = row_post  BY <1>2
<1>3. CASE row!Serve \/ row!OtherTab  BY <1>3 DEF row!Serve, row!OtherTab, row!NotStarted
<1>4. ASSUME NEW h \in Hours \cup {row!Blank}, row!Type(h) PROVE row_post' = row_post  BY <1>4 DEF row!Type
<1>. QED  BY <1>1, <1>2, <1>3, <1>4 DEF row!Next, row!vars, row!StartEditing, row!CancelPost, row!Reschedule,
      row!HearOk, row!HearRefused,
             row!Lost, row!Reload

\* A row that lags behind has been overtaken by others.
LEMMA RowIsBehind == ASSUME RowInv PROVE row!BehindOnlyByOthers
BY DEF RowInv, row!BehindOnlyByOthers

\* Where browser and server keep one time, the hour typed is the hour shown.
LEMMA HourReadsBack == ASSUME RowAssumption, RowInv PROVE row!SameZoneReadsBack
<1>. SUFFICES ASSUME row_here = row_there, row_shown, row_call = "none", row_moved, ~ row_others
              PROVE row!Shows(row_seen) = row_sent
     BY DEF row!SameZoneReadsBack
<1>1. row_seen.at = row_sent - row_there /\ row_sent \in Hours /\ row_here \in Leads
      BY DEF RowInv, row!TypeOK, row!At
<1>2. row_sent \in Int /\ row_there \in Int /\ row_here = row_there  BY <1>1 DEF RowAssumption
<1>. QED  BY <1>1, <1>2 DEF row!Shows

-----------------------------------------------------------------------------
(* The captions of a clip.                                                         *)

\* What holds at the foot of a ladder, and of a rung when it holds of the one below,
\* holds of every rung.
LEMMA Climbed ==
    ASSUME NEW N \in Nat, NEW P \in SUBSET (0 .. N), 0 \in P,
           \A n \in 0 .. N : n + 1 \in 0 .. N /\ n \in P => n + 1 \in P
    PROVE  P = 0 .. N
<1> DEFINE Bad == {n \in 0 .. N : n \notin P}
           Below == {0 .. n : n \in Bad}
<1>1. SUFFICES ASSUME Bad # {} PROVE FALSE
  OBVIOUS
<1>2. IsFiniteSet(0 .. N) /\ Below \in SUBSET SUBSET (0 .. N) /\ Below # {}
  <2>1. IsFiniteSet(0 .. N)
    <3>1. 0 \in Int /\ N \in Int
      OBVIOUS
    <3> QED
      BY <3>1, FS_Interval
  <2>2. \A n \in Bad : 0 .. n \subseteq 0 .. N
    OBVIOUS
  <2>3. Below # {} /\ \A U \in Below : U \in SUBSET (0 .. N)
    <3> HIDE DEF Bad
    <3> QED
      BY <1>1, <2>2
  <2> HIDE DEF Below, Bad
  <2> QED
    BY <2>1, <2>3
<1>3. PICK T \in Below : \A U \in Below : U \subseteq T => U = T
  <2>. HIDE DEF Below, Bad
  <2> DEFINE R == StrictSubsetOrdering(0 .. N)
  <2>1. IsWellFoundedOn(R, SUBSET (0 .. N))
    BY <1>2, FS_StrictSubsetOrderingWellFounded, FS_FiniteSubsetsOfFinite
  <2>2. R = {ss \in (SUBSET (0 .. N)) \X (SUBSET (0 .. N)) : ss[1] \subseteq ss[2] /\ ss[1] # ss[2]}
    BY DEF StrictSubsetOrdering
  <2> HIDE DEF R
  <2>3. PICK T \in Below : \A U \in Below : ~ (<<U, T>> \in R)
    BY <1>2, <2>1, WFMin, Zenon
  <2>4. ASSUME NEW U \in Below, U \subseteq T, U # T
        PROVE  <<U, T>> \in R
    BY <1>2, <2>2, <2>4
  <2>5. \A U \in Below : U \subseteq T => U = T
    BY <2>3, <2>4
  <2> QED
    BY <2>5
<1>4. PICK n \in Bad : T = 0 .. n
  BY <1>3
<1>5. n # 0 /\ n \in 1 .. N /\ n - 1 \in 0 .. N /\ (n - 1) + 1 = n
  BY <1>4
<1>6. n - 1 \notin P
  BY <1>4, <1>5
<1>7. 0 .. (n - 1) \in Below /\ 0 .. (n - 1) \subseteq T
  BY <1>4, <1>5, <1>6
<1>8. 0 .. (n - 1) = 0 .. n
  <2> HIDE DEF Below, Bad
  <2> QED
    BY <1>3, <1>4, <1>7
<1>9. n \in 0 .. n /\ n \notin 0 .. (n - 1)
  BY <1>5
<1> QED
  BY <1>8, <1>9

\* A sequence is folded into one value, one element after the other; a fold is the
\* function that gives each of the values on the way.
StepOver(S, T) == [S \X T -> S]
FoldOver(S, e, step, ws) ==
    {f \in [0 .. Len(ws) -> S] :
        f[0] = e /\ \A n \in 1 .. Len(ws) : f[n] = step[<<f[n - 1], ws[n]>>]}

\* There is such a function.
LEMMA FoldedOver ==
    ASSUME NEW S, NEW e \in S, NEW T, NEW ws \in Seq(T), NEW step \in StepOver(S, T)
    PROVE  \E f : f \in FoldOver(S, e, step, ws)
<1> DEFINE N == Len(ws)
           Fits(n, g) == g[0] = e /\ \A i \in 1 .. n : g[i] = step[<<g[i - 1], ws[i]>>]
           P == {n \in 0 .. N : \E g \in [0 .. n -> S] : Fits(n, g)}
<1>1. N \in Nat /\ step \in [S \X T -> S]
  BY DEF StepOver
<1>2. 0 \in P
  <2>1. [i \in 0 .. 0 |-> e] \in [0 .. 0 -> S] /\ Fits(0, [i \in 0 .. 0 |-> e])
    OBVIOUS
  <2> QED
    <3> HIDE DEF Fits
    <3>1. 0 \in 0 .. N
      BY <1>1
    <3> QED
      BY <2>1, <3>1
<1>3. ASSUME NEW n \in 0 .. N, n + 1 \in 0 .. N, n \in P
      PROVE  n + 1 \in P
  <2>1. PICK g \in [0 .. n -> S] : Fits(n, g)
    BY <1>3
  <2> DEFINE next == step[<<g[n], ws[n + 1]>>]
             h == [i \in 0 .. n + 1 |-> IF i = n + 1 THEN next ELSE g[i]]
  <2>2. next \in S
    <3>1. g[n] \in S /\ ws[n + 1] \in T
      BY <1>3
    <3> QED
      BY <1>1, <3>1
  <2>3. h \in [0 .. n + 1 -> S]
    <3> HIDE DEF next
    <3> QED
      BY <1>3, <2>2
  <2>4. ASSUME NEW i \in 1 .. n + 1 PROVE h[i] = step[<<h[i - 1], ws[i]>>]
    <3>1. CASE i = n + 1
      <4>1. i - 1 = n /\ n # n + 1 /\ n \in 0 .. n + 1 /\ i \in 0 .. n + 1
        BY <1>3, <3>1
      <4>2. h[i] = next /\ h[i - 1] = g[n]
        <5> HIDE DEF next
        <5> QED
          BY <3>1, <4>1
      <4> QED
        BY <3>1, <4>2
    <3>2. CASE i \in 1 .. n
      BY <1>3, <2>1, <3>2
    <3> QED
      BY <1>3, <3>1, <3>2
  <2>5. h[0] = e
    BY <1>3, <2>1
  <2>6. Fits(n + 1, h)
    BY <2>4, <2>5
  <2> HIDE DEF h, Fits
  <2> QED
    BY <1>3, <2>3, <2>6
<1>4. P = 0 .. N
  <2> HIDE DEF P
  <2>1. P \in SUBSET (0 .. N)
    BY DEF P
  <2> QED
    BY <1>1, <1>2, <1>3, <2>1, Climbed
<1>5. N \in P
  BY <1>1, <1>4
<1> QED
  BY <1>5 DEF FoldOver

\* Sequences laid end to end, one after the other, as the library's FlattenSeq lays them.
Laid(T, seqs) ==
    {f \in [1 .. Len(seqs) -> Seq(T)] :
        f[1] = seqs[1] /\ \A i \in 2 .. Len(seqs) : f[i] = f[i - 1] \o seqs[i]}

\* What FlattenSeq returns is the last of those.
LEMMA LaidEndToEnd ==
    ASSUME NEW T, NEW seqs \in Seq(Seq(T)), seqs # <<>>
    PROVE  \E f : f \in Laid(T, seqs) /\ caps!FlattenSeq(seqs) = f[Len(seqs)]
<1> DEFINE N == Len(seqs)
           step == [p \in Seq(T) \X Seq(T) |-> p[1] \o p[2]]
<1>1. step \in StepOver(Seq(T), Seq(T)) /\ <<>> \in Seq(T) /\ N \in Nat \ {0}
  BY DEF StepOver
<1>2. PICK g \in [0 .. N -> Seq(T)] :
          g[0] = <<>> /\ \A i \in 1 .. N : g[i] = step[<<g[i - 1], seqs[i]>>]
  <2> HIDE DEF step
  <2>1. \E g : g \in FoldOver(Seq(T), <<>>, step, seqs)
    BY <1>1, FoldedOver
  <2> QED
    BY <2>1 DEF FoldOver
<1>3. \A i \in 1 .. N : seqs[i] \in Seq(T) /\ g[i - 1] \in Seq(T)
  <2>1. \A i \in 1 .. N : i - 1 \in 0 .. N
    BY <1>1
  <2> QED
    BY <2>1
<1>4. \A i \in 1 .. N : g[i] = g[i - 1] \o seqs[i]
  BY <1>2, <1>3
<1>5. g[1] = seqs[1]
  <2>1. 1 \in 1 .. N /\ 1 - 1 = 0
    BY <1>1
  <2>2. <<>> \o seqs[1] = seqs[1]
    BY <1>3, <2>1
  <2> QED
    BY <1>2, <1>4, <2>1, <2>2
<1> DEFINE Lays(f) == f = [i \in 1 .. N |-> IF i = 1 THEN seqs[i] ELSE f[i - 1] \o seqs[i]]
           h == [i \in 1 .. N |-> g[i]]
           made == CHOOSE f : Lays(f)
<1>6. Lays(h)
  <2>1. ASSUME NEW i \in 1 .. N PROVE h[i] = IF i = 1 THEN seqs[i] ELSE h[i - 1] \o seqs[i]
    <3>1. CASE i = 1
      BY <1>5, <3>1
    <3>2. CASE i # 1
      <4>1. i - 1 \in 1 .. N
        BY <1>1, <3>2
      <4> QED
        BY <1>4, <3>2, <4>1
    <3> QED
      BY <3>1, <3>2
  <2> QED
    BY <2>1
<1>7. Lays(made)
  <2> HIDE DEF Lays
  <2> QED
    BY <1>6
<1>8. caps!FlattenSeq(seqs) = made[N]
  BY <1>1 DEF caps!FlattenSeq
<1> HIDE DEF made
<1> QED
  <2> SUFFICES made \in [1 .. N -> Seq(T)]
    <3>1. \A i \in 2 .. N : i \in 1 .. N /\ i # 1
      BY <1>1
    <3>2. 1 \in 1 .. N
      BY <1>1
    <3>3. made[1] = seqs[1] /\ \A i \in 2 .. N : made[i] = made[i - 1] \o seqs[i]
      BY <1>7, <3>1, <3>2
    <3> QED
      BY <1>8, <3>3 DEF Laid
  <2> DEFINE P == {n \in 0 .. N : \A i \in 1 .. n : made[i] \in Seq(T)}
  <2>1. 0 \in P
    BY <1>1
  <2>2. ASSUME NEW n \in 0 .. N, n + 1 \in 0 .. N, n \in P
        PROVE  n + 1 \in P
    <3>1. n + 1 \in 1 .. N
      BY <1>1, <2>2
    <3>2. made[n + 1] \in Seq(T)
      <4>1. CASE n = 0
        BY <1>3, <1>7, <3>1, <4>1
      <4>2. CASE n # 0
        <5>1. n \in 1 .. n /\ n + 1 # 1
          BY <4>2
        <5>2. made[n] \in Seq(T)
          BY <2>2, <5>1
        <5>3. made[n + 1] = made[n] \o seqs[n + 1]
          <6>1. (n + 1) - 1 = n
            BY <5>1
          <6>2. made[n + 1] = made[(n + 1) - 1] \o seqs[n + 1]
            BY <1>7, <3>1, <5>1
          <6> QED
            BY <6>1, <6>2
        <5> QED
          BY <1>3, <3>1, <5>2, <5>3
      <4> QED
        BY <4>1, <4>2
    <3>3. \A i \in 1 .. n : made[i] \in Seq(T)
      BY <2>2
    <3>4. \A i \in 1 .. n + 1 : i \in 1 .. n \/ i = n + 1
      BY <2>2
    <3>5. \A i \in 1 .. n + 1 : made[i] \in Seq(T)
      BY <3>2, <3>3, <3>4
    <3> QED
      BY <2>2, <3>5
  <2>3. P = 0 .. N
    <3> HIDE DEF P
    <3>1. P \in SUBSET (0 .. N)
      BY DEF P
    <3> QED
      BY <1>1, <2>1, <2>2, <3>1, Climbed
  <2>4. N \in P
    <3> HIDE DEF P
    <3> QED
      BY <1>1, <2>3
  <2>5. \A i \in 1 .. N : made[i] \in Seq(T)
    BY <2>4
  <2>6. made = [i \in 1 .. N |-> made[i]]
    BY <1>7
  <2> QED
    BY <2>5, <2>6

\* One more sequence comes at the end of them all.
LEMMA LaidOneMore ==
    ASSUME NEW T, NEW seqs \in Seq(Seq(T)), NEW more \in Seq(T)
    PROVE  /\ caps!FlattenSeq(seqs) \in Seq(T)
           /\ caps!FlattenSeq(Append(seqs, more)) = caps!FlattenSeq(seqs) \o more
<1> DEFINE N == Len(seqs)
           longer == Append(seqs, more)
<1>1. /\ N \in Nat /\ longer \in Seq(Seq(T)) /\ longer # <<>> /\ Len(longer) = N + 1
      /\ longer[N + 1] = more /\ \A i \in 1 .. N : longer[i] = seqs[i]
  <2>1. N \in Nat /\ longer \in Seq(Seq(T)) /\ Len(longer) = N + 1
    OBVIOUS
  <2>2. longer[N + 1] = more
    OBVIOUS
  <2>3. \A i \in 1 .. N : longer[i] = seqs[i]
    OBVIOUS
  <2> HIDE DEF longer
  <2>4. longer # <<>>
    BY <2>1
  <2> QED
    BY <2>1, <2>2, <2>3, <2>4
<1> HIDE DEF longer
<1>2. PICK g \in [1 .. N + 1 -> Seq(T)] :
          /\ caps!FlattenSeq(longer) = g[N + 1]
          /\ g[1] = longer[1] /\ \A i \in 2 .. N + 1 : g[i] = g[i - 1] \o longer[i]
  <2>1. \E f : f \in Laid(T, longer) /\ caps!FlattenSeq(longer) = f[Len(longer)]
    BY <1>1, LaidEndToEnd
  <2> QED
    BY <1>1, <2>1 DEF Laid
<1>3. CASE seqs = <<>>
  <2>1. caps!FlattenSeq(seqs) = <<>>
    BY <1>3 DEF caps!FlattenSeq
  <2>2. N = 0 /\ caps!FlattenSeq(longer) = more
    BY <1>1, <1>2, <1>3
  <2> QED
    BY <2>1, <2>2 DEF longer
<1>4. CASE seqs # <<>>
  <2>1. PICK f \in [1 .. N -> Seq(T)] :
          /\ caps!FlattenSeq(seqs) = f[N]
          /\ f[1] = seqs[1] /\ \A i \in 2 .. N : f[i] = f[i - 1] \o seqs[i]
    BY <1>4, LaidEndToEnd DEF Laid
  <2>2. N \in Nat \ {0}
    BY <1>4
  <2> DEFINE P == {n \in 0 .. N : n # 0 => f[n] = g[n]}
  <2>3. 0 \in P
    BY <2>2
  <2>4. ASSUME NEW n \in 0 .. N, n + 1 \in 0 .. N, n \in P
        PROVE  n + 1 \in P
    <3>1. CASE n = 0
      BY <1>1, <1>2, <2>1, <2>2, <3>1
    <3>2. CASE n # 0
      <4>1. n + 1 \in 2 .. N /\ n + 1 \in 2 .. N + 1 /\ n + 1 \in 1 .. N /\ (n + 1) - 1 = n
        BY <2>2, <2>4, <3>2
      <4>2. f[n + 1] = f[n] \o seqs[n + 1] /\ g[n + 1] = g[n] \o seqs[n + 1]
        BY <1>1, <1>2, <2>1, <4>1
      <4> QED
        BY <2>4, <3>2, <4>2
    <3> QED
      BY <3>1, <3>2
  <2>5. P = 0 .. N
    <3> HIDE DEF P
    <3>1. P \in SUBSET (0 .. N)
      BY DEF P
    <3> QED
      BY <1>1, <2>3, <2>4, <3>1, Climbed
  <2>6. f[N] = g[N]
    <3>1. N \in P
      <4> HIDE DEF P
      <4> QED
        BY <2>2, <2>5
    <3>2. \A n \in P : n # 0 => f[n] = g[n]
      OBVIOUS
    <3> HIDE DEF P
    <3> QED
      BY <2>2, <3>1, <3>2
  <2>7. g[N + 1] = g[N] \o more
    <3>1. N + 1 \in 2 .. N + 1 /\ (N + 1) - 1 = N
      BY <2>2
    <3> QED
      BY <1>1, <1>2, <3>1
  <2>8. f[N] \in Seq(T)
    <3>1. N \in 1 .. N
      BY <2>2
    <3> QED
      BY <3>1
  <2> QED
    BY <1>2, <2>1, <2>6, <2>7, <2>8 DEF longer
<1> QED
  BY <1>3, <1>4

\* Where a clip is on the timeline, where it begins in its source and how long it plays.
Clip == [start : Nat, trimIn : Nat, duration : Nat \ {0}]

\* Words are spoken one after the other.
InTurn(ws) ==
    /\ \A i \in 1 .. Len(ws) : ws[i].start <= ws[i].end
    /\ \A i \in 1 .. Len(ws) - 1 : ws[i].end <= ws[i + 1].start

\* Cut to the clip and moved to the timeline, a word that is heard is still a word.
LEMMA MovedIsWord ==
    ASSUME NEW c \in Clip, NEW w \in caps!Word, caps!Plays(c, w)
    PROVE  /\ caps!Moved(c, w) \in caps!Word
           /\ caps!Moved(c, w).start < caps!Moved(c, w).end
           /\ caps!Moved(c, w).start = caps!Greater(w.start, c.trimIn) - c.trimIn + c.start
           /\ caps!Moved(c, w).end = caps!Lesser(w.end, c.trimIn + c.duration) - c.trimIn + c.start
<1> DEFINE s == caps!Greater(w.start, c.trimIn) - c.trimIn + c.start
           e == caps!Lesser(w.end, c.trimIn + c.duration) - c.trimIn + c.start
<1>1. c.start \in Nat /\ c.trimIn \in Nat /\ c.duration \in Nat \ {0}
  BY DEF Clip
<1>2. w.start \in Nat /\ w.end \in Nat \ {0}
  BY DEF caps!Word
<1>3. w.end > c.trimIn /\ w.start < c.trimIn + c.duration
  BY DEF caps!Plays, caps!Heard
<1>4. s \in Nat /\ e \in Nat \ {0}
  BY <1>1, <1>2, <1>3 DEF caps!Greater, caps!Lesser
<1>5. caps!Moved(c, w) = [[w EXCEPT !.start = s] EXCEPT !.end = e]
  BY Zenon DEF caps!Moved
<1> HIDE DEF s, e
<1>6. caps!Moved(c, w) \in caps!Word /\ caps!Moved(c, w).start = s /\ caps!Moved(c, w).end = e
  BY <1>4, <1>5 DEF caps!Word
<1>7. e > s
  BY <1>6 DEF caps!Plays
<1> QED
  BY <1>4, <1>6, <1>7 DEF s, e

\* A word that begins when the last one is over comes in turn.
LEMMA AppendedInTurn ==
    ASSUME NEW ws \in Seq(caps!Word), InTurn(ws), NEW w \in caps!Word, w.start <= w.end,
           ws # <<>> => ws[Len(ws)].end <= w.start
    PROVE  Append(ws, w) \in Seq(caps!Word) /\ InTurn(Append(ws, w))
<1> DEFINE N == Len(ws)
           more == Append(ws, w)
<1>1. N \in Nat /\ more \in Seq(caps!Word) /\ Len(more) = N + 1
  OBVIOUS
<1>2. more[N + 1] = w /\ \A i \in 1 .. N : more[i] = ws[i]
  OBVIOUS
<1> HIDE DEF more
<1>3. ASSUME NEW i \in 1 .. N + 1 PROVE more[i].start <= more[i].end
  <2>1. i \in 1 .. N \/ i = N + 1
    BY <1>1
  <2> QED
    BY <1>2, <2>1 DEF InTurn
<1>4. ASSUME NEW i \in 1 .. (N + 1) - 1 PROVE more[i].end <= more[i + 1].start
  <2>1. i \in 1 .. N /\ (i # N => i \in 1 .. N - 1 /\ i + 1 \in 1 .. N)
    <3>1. (N + 1) - 1 = N
      BY <1>1
    <3>2. i \in 1 .. N
      BY <3>1
    <3>3. i # N => i \in 1 .. N - 1 /\ i + 1 \in 1 .. N
      BY <1>1, <3>2
    <3> QED
      BY <3>2, <3>3
  <2>2. ws # <<>>
    BY <2>1
  <2>3. CASE i = N
    BY <1>2, <2>1, <2>2, <2>3
  <2>4. CASE i # N
    <3>1. more[i] = ws[i] /\ more[i + 1] = ws[i + 1]
      BY <1>2, <2>1, <2>4
    <3> QED
      BY <2>4, <3>1 DEF InTurn
  <2> QED
    BY <2>1, <2>3, <2>4
<1>5. InTurn(more)
  BY <1>1, <1>3, <1>4 DEF InTurn
<1> QED
  BY <1>1, <1>5 DEF more

\* Cutting and moving keep the order of times.
LEMMA CutsInTurn ==
    ASSUME NEW a \in Int, NEW b \in Int, a <= b, NEW from \in Int, NEW to \in Int, NEW at \in Int
    PROVE  /\ caps!Lesser(a, to) - from + at <= caps!Lesser(b, to) - from + at
           /\ caps!Lesser(a, to) - from + at <= caps!Greater(b, from) - from + at
BY DEF caps!Lesser, caps!Greater

\* A time that is cut and moved is a time.
LEMMA CutIsTime ==
    ASSUME NEW a \in Int, NEW from \in Int, NEW to \in Int, NEW at \in Int
    PROVE  caps!Lesser(a, to) - from + at \in Int
BY DEF caps!Lesser

\* What a clip plays of words in turn are words in turn.
LEMMA InsideInTurn ==
    ASSUME NEW c \in Clip, NEW ws \in Seq(caps!Word), InTurn(ws)
    PROVE  caps!Inside(c, ws) \in Seq(caps!Word) /\ InTurn(caps!Inside(c, ws))
<1> DEFINE N == Len(ws)
           W == caps!Word
           step == [p \in Seq(W) \X W |->
                        IF caps!Plays(c, p[2]) THEN Append(p[1], caps!Moved(c, p[2])) ELSE p[1]]
           Up(f) == f = [n \in 0 .. N |->
                            IF n = 0 THEN <<>>
                            ELSE IF caps!Plays(c, ws[n]) THEN Append(f[n - 1], caps!Moved(c, ws[n]))
                            ELSE f[n - 1]]
           upTo == CHOOSE f : Up(f)
<1>1. N \in Nat /\ \A n \in 1 .. N : ws[n] \in W
  OBVIOUS
<1>2. step \in StepOver(Seq(W), W)
  <2>1. ASSUME NEW p \in Seq(W) \X W PROVE step[p] \in Seq(W)
    <3>1. p[1] \in Seq(W) /\ p[2] \in W
      OBVIOUS
    <3>2. caps!Plays(c, p[2]) => caps!Moved(c, p[2]) \in W
      BY <3>1, MovedIsWord
    <3> HIDE DEF W
    <3> QED
      BY <3>1, <3>2
  <2> QED
    BY <2>1 DEF StepOver
<1>3. PICK g \in [0 .. N -> Seq(W)] :
          g[0] = <<>> /\ \A n \in 1 .. N : g[n] = step[<<g[n - 1], ws[n]>>]
  <2> HIDE DEF step, W
  <2>1. <<>> \in Seq(W) /\ ws \in Seq(W)
    BY DEF W
  <2>2. \E g : g \in FoldOver(Seq(W), <<>>, step, ws)
    BY <1>2, <2>1, FoldedOver
  <2> QED
    BY <2>2 DEF FoldOver
<1>4. Up(g)
  <2>1. ASSUME NEW n \in 1 .. N
        PROVE  g[n] = IF caps!Plays(c, ws[n]) THEN Append(g[n - 1], caps!Moved(c, ws[n])) ELSE g[n - 1]
    <3>1. n - 1 \in 0 .. N
      BY <1>1
    <3>2. <<g[n - 1], ws[n]>> \in Seq(W) \X W
      <4> HIDE DEF W
      <4> QED
        BY <1>1, <3>1
    <3> HIDE DEF W
    <3> QED
      BY <1>3, <3>2
  <2>2. \A n \in 0 .. N : n = 0 \/ n \in 1 .. N
    BY <1>1
  <2>3. g = [n \in 0 .. N |-> g[n]]
    OBVIOUS
  <2> HIDE DEF W
  <2> QED
    BY <1>3, <2>1, <2>2, <2>3
<1>5. Up(upTo)
  <2> HIDE DEF Up
  <2> QED
    BY <1>4
<1>6. caps!Inside(c, ws) = upTo[N]
  BY DEF caps!Inside
<1> HIDE DEF upTo, step
<1>7. upTo[0] = <<>>
  BY <1>1, <1>5
<1>8. \A n \in 1 .. N :
         upTo[n] = IF caps!Plays(c, ws[n]) THEN Append(upTo[n - 1], caps!Moved(c, ws[n])) ELSE upTo[n - 1]
  <2>1. \A n \in 1 .. N : n \in 0 .. N /\ n # 0
    BY <1>1
  <2> QED
    BY <1>5, <2>1
<1> HIDE DEF Up
<1> DEFINE SoFar(n) ==
              /\ upTo[n] \in Seq(W) /\ InTurn(upTo[n])
              /\ upTo[n] # <<>> =>
                    /\ n # 0
                    /\ upTo[n][Len(upTo[n])].end
                          <= caps!Lesser(ws[n].end, c.trimIn + c.duration) - c.trimIn + c.start
           P == {n \in 0 .. N : SoFar(n)}
<1>9. 0 \in P
  <2>1. <<>> \in Seq(W) /\ InTurn(<<>>)
    BY DEF InTurn
  <2>2. SoFar(0)
    <3> HIDE DEF W
    <3> QED
      BY <1>7, <2>1
  <2> HIDE DEF SoFar
  <2> QED
    BY <1>1, <2>2
<1>10. ASSUME NEW n \in 0 .. N, n + 1 \in 0 .. N, n \in P
       PROVE  n + 1 \in P
  <2> DEFINE u == upTo[n]
             w == ws[n + 1]
             m == caps!Moved(c, w)
             bound(k) == caps!Lesser(ws[k].end, c.trimIn + c.duration) - c.trimIn + c.start
  <2>1. n + 1 \in 1 .. N /\ (n + 1) - 1 = n /\ w \in W
    BY <1>1, <1>10
  <2>2. upTo[n + 1] = IF caps!Plays(c, w) THEN Append(u, m) ELSE u
    BY <1>8, <2>1
  <2>3. SoFar(n)
    BY <1>10
  <2>4. c.start \in Nat /\ c.trimIn \in Nat /\ c.duration \in Nat \ {0}
    BY DEF Clip
  <2>5. w.start \in Nat /\ w.end \in Nat \ {0} /\ w.start <= w.end
    BY <2>1 DEF caps!Word, InTurn
  <2>6. n # 0 => ws[n].end \in Nat /\ ws[n].end <= w.start
    <3>1. n # 0 => n \in 1 .. N /\ n \in 1 .. N - 1
      BY <1>1, <2>1
    <3>2. n # 0 => ws[n] \in W
      BY <1>1, <3>1
    <3> QED
      BY <3>1, <3>2 DEF caps!Word, InTurn
  <2>7. bound(n + 1) \in Int /\ (n # 0 => bound(n) \in Int /\ bound(n) <= bound(n + 1))
    <3>1. w.end \in Int /\ (n # 0 => ws[n].end \in Int /\ ws[n].end <= w.end)
      <4> HIDE DEF w
      <4> QED
        BY <2>5, <2>6
    <3>2. c.start \in Int /\ c.trimIn \in Int /\ c.trimIn + c.duration \in Int
      BY <2>4
    <3> QED
      BY <3>1, <3>2, CutsInTurn, CutIsTime
  <2>8. SoFar(n + 1)
    <3>1. CASE ~ caps!Plays(c, w)
      <4>1. upTo[n + 1] = u
        BY <2>2, <3>1
      <4>2. u # <<>> => u[Len(u)].end <= bound(n) /\ u[Len(u)].end \in Int
        <5>1. u # <<>> => Len(u) \in 1 .. Len(u) /\ u[Len(u)] \in W
          <6> HIDE DEF W
          <6> QED
            BY <2>3
        <5> QED
          BY <2>3, <5>1 DEF caps!Word
      <4>3. u # <<>> => n + 1 # 0 /\ u[Len(u)].end <= bound(n + 1)
        <5> HIDE DEF u, w, bound
        <5> QED
          BY <2>1, <2>3, <2>7, <4>2 DEF u, bound
      <4> QED
        BY <2>3, <4>1, <4>3
    <3>2. CASE caps!Plays(c, w)
      <4>1. upTo[n + 1] = Append(u, m)
        BY <2>2, <3>2
      <4>2. /\ m \in W /\ m.start < m.end /\ m.end = bound(n + 1)
            /\ m.start = caps!Greater(w.start, c.trimIn) - c.trimIn + c.start
        BY <2>1, <3>2, MovedIsWord
      <4>3. m.start \in Nat /\ m.end \in Nat
        BY <4>2 DEF caps!Word
      <4>4. n # 0 => bound(n) <= m.start
        <5>1. c.start \in Int /\ c.trimIn \in Int /\ c.trimIn + c.duration \in Int
          BY <2>4
        <5>2. n # 0 => ws[n].end \in Int /\ w.start \in Int /\ ws[n].end <= w.start
          <6> HIDE DEF w
          <6> QED
            BY <2>5, <2>6
        <5>3. n # 0 => bound(n) <= caps!Greater(w.start, c.trimIn) - c.trimIn + c.start
          BY <5>1, <5>2, CutsInTurn
        <5> QED
          BY <4>2, <5>3
      <4>5. u # <<>> => u[Len(u)].end <= m.start
        <5>1. u # <<>> => Len(u) \in 1 .. Len(u) /\ u[Len(u)] \in W
          <6> HIDE DEF W
          <6> QED
            BY <2>3
        <5>2. u # <<>> => u[Len(u)].end \in Int /\ u[Len(u)].end <= bound(n) /\ n # 0
          BY <2>3, <5>1 DEF caps!Word
        <5> HIDE DEF u, m, bound
        <5> QED
          BY <2>7, <4>3, <4>4, <5>2
      <4>6. u \in Seq(W) /\ InTurn(u)
        BY <2>3
      <4> HIDE DEF u, m, bound, W
      <4>7. Append(u, m) \in Seq(W) /\ InTurn(Append(u, m))
        BY <4>2, <4>3, <4>5, <4>6, AppendedInTurn DEF W
      <4>8. Append(u, m)[Len(Append(u, m))] = m /\ n + 1 # 0
        BY <2>1, <4>2, <4>6
      <4>9. m.end <= bound(n + 1)
        BY <2>7, <4>2
      <4> QED
        BY <4>1, <4>7, <4>8, <4>9 DEF bound
    <3> QED
      BY <3>1, <3>2
  <2> HIDE DEF SoFar
  <2> QED
    BY <1>10, <2>8
<1>11. N \in P
  <2> HIDE DEF P
  <2>1. P \in SUBSET (0 .. N)
    BY DEF P
  <2> QED
    BY <1>1, <1>9, <1>10, <2>1, Climbed
<1> QED
  BY <1>6, <1>11

\* A phrase has a word, and none of its words begins before the first or ends after the
\* last; phrases come in turn.
Phrased(ps) ==
    /\ \A k \in 1 .. Len(ps) :
          /\ ps[k] # <<>>
          /\ \A i \in 1 .. Len(ps[k]) :
                /\ ps[k][1].start <= ps[k][i].start /\ ps[k][i].start <= ps[k][i].end
                /\ ps[k][i].end <= ps[k][Len(ps[k])].end
    /\ \A k \in 1 .. Len(ps) - 1 : ps[k][Len(ps[k])].end <= ps[k + 1][1].start

\* What is so far grouped, when w was the last word.
Grouping(ps, w) ==
    /\ ps \in Seq(Seq(caps!Word)) /\ Phrased(ps)
    /\ ps # <<>> /\ ps[Len(ps)][Len(ps[Len(ps)])] = w

\* A phrase more, of the one word.
LEMMA NewPhrase ==
    ASSUME NEW ps \in Seq(Seq(caps!Word)), NEW w \in caps!Word, w.start <= w.end, Phrased(ps),
           ps # <<>> => ps[Len(ps)][Len(ps[Len(ps)])].end <= w.start
    PROVE  Grouping(Append(ps, <<w>>), w)
<1> DEFINE N == Len(ps)
           qs == Append(ps, <<w>>)
           last(p) == p[Len(p)]
<1>1. N \in Nat /\ <<w>> \in Seq(caps!Word) /\ qs \in Seq(Seq(caps!Word)) /\ Len(qs) = N + 1
  OBVIOUS
<1>2. qs[N + 1] = <<w>> /\ \A k \in 1 .. N : qs[k] = ps[k]
  OBVIOUS
<1>3. Len(<<w>>) = 1 /\ <<w>>[1] = w /\ <<w>> # <<>>
  OBVIOUS
<1>4. w.start \in Nat /\ w.end \in Nat
  BY DEF caps!Word
<1> HIDE DEF qs
<1>5. ASSUME NEW k \in 1 .. Len(qs)
      PROVE  /\ qs[k] # <<>>
             /\ \A i \in 1 .. Len(qs[k]) :
                   /\ qs[k][1].start <= qs[k][i].start /\ qs[k][i].start <= qs[k][i].end
                   /\ qs[k][i].end <= qs[k][Len(qs[k])].end
  <2>1. k \in 1 .. N \/ k = N + 1
    BY <1>1
  <2>2. CASE k \in 1 .. N
    BY <1>2, <2>2 DEF Phrased
  <2>3. CASE k = N + 1
    <3>1. \A i \in 1 .. 1 : i = 1
      OBVIOUS
    <3> QED
      <4>1. qs[k] = <<w>> /\ Len(qs[k]) = 1 /\ qs[k][1] = w
        BY <1>2, <1>3, <2>3
      <4> QED
        BY <1>3, <1>4, <3>1, <4>1
  <2> QED
    BY <2>1, <2>2, <2>3
<1>6. ASSUME NEW k \in 1 .. Len(qs) - 1
      PROVE  qs[k][Len(qs[k])].end <= qs[k + 1][1].start
  <2>1. k \in 1 .. N /\ (k # N => k \in 1 .. N - 1 /\ k + 1 \in 1 .. N)
    <3>1. Len(qs) - 1 = N
      BY <1>1
    <3>2. k \in 1 .. N
      BY <3>1
    <3>3. k # N => k \in 1 .. N - 1 /\ k + 1 \in 1 .. N
      BY <1>1, <3>2
    <3> QED
      BY <3>2, <3>3
  <2>2. ps # <<>>
    BY <2>1
  <2>3. CASE k = N
    BY <1>2, <1>3, <2>1, <2>2, <2>3
  <2>4. CASE k # N
    <3>1. qs[k] = ps[k] /\ qs[k + 1] = ps[k + 1]
      BY <1>2, <2>1, <2>4
    <3> QED
      BY <2>1, <2>4, <3>1 DEF Phrased
  <2> QED
    BY <2>3, <2>4
<1>7. qs # <<>>
  BY <1>1
<1> QED
  BY <1>1, <1>2, <1>3, <1>5, <1>6, <1>7 DEF Grouping, Phrased, qs

\* A word more in the last phrase.
LEMMA LongerPhrase ==
    ASSUME NEW ps \in Seq(Seq(caps!Word)), NEW w \in caps!Word, w.start <= w.end, Phrased(ps),
           ps # <<>>, ps[Len(ps)][Len(ps[Len(ps)])].end <= w.start
    PROVE  Grouping([ps EXCEPT ![Len(ps)] = Append(@, w)], w)
<1> DEFINE N == Len(ps)
           p == ps[N]
           n == Len(p)
           q == Append(p, w)
           qs == [ps EXCEPT ![N] = q]
<1>1. N \in Nat \ {0} /\ N \in 1 .. N /\ p \in Seq(caps!Word)
  OBVIOUS
<1>2. /\ p # <<>>
      /\ \A i \in 1 .. n :
            p[1].start <= p[i].start /\ p[i].start <= p[i].end /\ p[i].end <= p[n].end
  BY <1>1 DEF Phrased
<1> HIDE DEF p
<1>3. n \in Nat \ {0} /\ n \in 1 .. n /\ 1 \in 1 .. n
  BY <1>1, <1>2
<1>4. q \in Seq(caps!Word) /\ Len(q) = n + 1 /\ q[n + 1] = w
  BY <1>1, <1>3
<1>5. \A i \in 1 .. n : q[i] = p[i] /\ p[i] \in caps!Word
  BY <1>1, <1>3
<1> HIDE DEF q
<1>6. qs \in Seq(Seq(caps!Word)) /\ Len(qs) = N /\ qs[N] = q
  BY <1>1, <1>4
<1>7. \A k \in 1 .. N : k # N => qs[k] = ps[k]
  BY <1>1
<1> HIDE DEF qs
<1>8. w.start \in Int /\ w.end \in Int /\ \A i \in 1 .. n : p[i].start \in Int /\ p[i].end \in Int
  BY <1>3, <1>5 DEF caps!Word
<1>9. p[n].end <= w.start
  BY DEF p
<1>10. q[1] = p[1] /\ p[1].start <= w.start
  BY <1>2, <1>3, <1>5, <1>8, <1>9
<1>11. ASSUME NEW i \in 1 .. n + 1
       PROVE  q[1].start <= q[i].start /\ q[i].start <= q[i].end /\ q[i].end <= q[n + 1].end
  <2>1. CASE i = n + 1
    BY <1>4, <1>8, <1>10, <2>1
  <2>2. CASE i # n + 1
    <3>1. i \in 1 .. n
      BY <1>3, <2>2
    <3>2. q[i] = p[i] /\ p[i].end <= w.start
      BY <1>2, <1>3, <1>5, <1>8, <1>9, <3>1
    <3> QED
      BY <1>2, <1>4, <1>8, <1>10, <3>1, <3>2
  <2> QED
    BY <2>1, <2>2
<1>12. ASSUME NEW k \in 1 .. N
       PROVE  /\ qs[k] # <<>>
              /\ \A i \in 1 .. Len(qs[k]) :
                   /\ qs[k][1].start <= qs[k][i].start /\ qs[k][i].start <= qs[k][i].end
                   /\ qs[k][i].end <= qs[k][Len(qs[k])].end
  <2>1. CASE k = N
    <3>1. q # <<>>
      BY <1>3, <1>4
    <3> QED
      BY <1>4, <1>6, <1>11, <2>1, <3>1
  <2>2. CASE k # N
    BY <1>7, <2>2 DEF Phrased
  <2> QED
    BY <2>1, <2>2
<1>13. ASSUME NEW k \in 1 .. N - 1
       PROVE  qs[k][Len(qs[k])].end <= qs[k + 1][1].start
  <2>1. k \in 1 .. N /\ k # N /\ k + 1 \in 1 .. N
    BY <1>1
  <2>2. qs[k] = ps[k] /\ ps[k][Len(ps[k])].end <= ps[k + 1][1].start
    BY <1>7, <2>1 DEF Phrased
  <2>3. CASE k + 1 = N
    BY <1>6, <1>10, <2>2, <2>3 DEF p
  <2>4. CASE k + 1 # N
    BY <1>7, <2>1, <2>2, <2>4
  <2> QED
    BY <2>3, <2>4
<1>14. qs # <<>>
  BY <1>1, <1>6
<1>15. Grouping(qs, w)
  BY <1>4, <1>6, <1>12, <1>13, <1>14 DEF Grouping, Phrased
<1> QED
  BY <1>15 DEF qs, q, p

\* A phrase or a word more: the words laid end to end are one more.
LEMMA GroupedLays ==
    ASSUME NEW ps \in Seq(Seq(caps!Word)), NEW w \in caps!Word
    PROVE  /\ caps!Grouped(ps, w) \in Seq(Seq(caps!Word))
           /\ caps!FlattenSeq(caps!Grouped(ps, w)) = Append(caps!FlattenSeq(ps), w)
<1> DEFINE W == caps!Word
           N == Len(ps)
           flat(s) == caps!FlattenSeq(s)
<1>1. w \in W /\ <<w>> \in Seq(W) /\ ps \in Seq(Seq(W))
  OBVIOUS
<1>2. flat(ps) \in Seq(W)
  BY <1>1, LaidOneMore
<1>3. CASE caps!Grouped(ps, w) = Append(ps, <<w>>)
  <2>1. flat(Append(ps, <<w>>)) = flat(ps) \o <<w>>
    BY <1>1, LaidOneMore
  <2> HIDE DEF flat, W
  <2>2. flat(ps) \o <<w>> = Append(flat(ps), w)
    BY <1>1, <1>2
  <2> QED
    BY <1>1, <1>3, <2>1, <2>2 DEF flat, W
<1>4. CASE ps # <<>> /\ caps!Grouped(ps, w) = [ps EXCEPT ![N] = Append(@, w)]
  <2> DEFINE front == SubSeq(ps, 1, N - 1)
             p == ps[N]
             q == Append(p, w)
  <2>1. N \in Nat \ {0} /\ N \in 1 .. N
    BY <1>4
  <2> HIDE DEF W
  <2>0. p \in Seq(W) /\ \A k \in 1 .. N - 1 : ps[k] \in Seq(W)
    BY <1>1, <2>1
  <2>2. front \in Seq(Seq(W)) /\ Len(front) = N - 1 /\ \A k \in 1 .. N - 1 : front[k] = ps[k]
    <3>1. /\ front \in Seq(Seq(W))
          /\ Len(front) = IF 1 <= N - 1 THEN (N - 1) - 1 + 1 ELSE 0
          /\ \A i \in 1 .. (N - 1) - 1 + 1 : front[i] = ps[1 + i - 1]
      <4>1. 1 \in Int /\ N - 1 \in Int
        BY <2>1
      <4> QED
        BY <2>0, <4>1, SubSeqProperties
    <3>2. (N - 1) - 1 + 1 = N - 1 /\ \A i \in 1 .. N - 1 : 1 + i - 1 = i
      BY <2>1
    <3> HIDE DEF front
    <3>3. \A k \in 1 .. N - 1 : front[k] = ps[k]
      BY <3>1, <3>2
    <3>4. Len(front) = N - 1
      <4> HIDE DEF N
      <4>1. N - 1 \in Int /\ (N - 1) - 1 + 1 = N - 1 /\ (1 <= N - 1 \/ N - 1 = 0)
        BY <2>1
      <4> QED
        BY <3>1, <4>1
    <3> QED
      BY <3>1, <3>3, <3>4
  <2> HIDE DEF front
  <2>3. ASSUME NEW t \in Seq(Seq(W)), Len(t) = N, \A k \in 1 .. N : k # N => t[k] = ps[k]
        PROVE  t = Append(front, t[N])
    <3>1. t[N] \in Seq(W)
      BY <2>1, <2>3
    <3> DEFINE a == Append(front, t[N])
    <3>2. a \in Seq(Seq(W)) /\ Len(a) = N
      BY <2>1, <2>2, <3>1
    <3>3. a[N] = t[N] /\ \A k \in 1 .. N - 1 : a[k] = front[k]
      BY <2>1, <2>2, <3>1
    <3> HIDE DEF a
    <3>4. \A k \in 1 .. N : t[k] = a[k]
      <4>1. \A k \in 1 .. N : k = N \/ k \in 1 .. N - 1
        BY <2>1
      <4> QED
        BY <2>1, <2>2, <2>3, <3>3, <4>1
    <3>5. t = a
      BY <2>3, <3>2, <3>4, SeqEqual
    <3> QED
      BY <3>5 DEF a
  <2>4. ps = Append(front, p)
    BY <1>1, <2>3
  <2> HIDE DEF p
  <2>5. q \in Seq(W)
    BY <1>1, <2>0
  <2>6. [ps EXCEPT ![N] = Append(@, w)] = Append(front, q)
    <3>1. [ps EXCEPT ![N] = Append(@, w)] = [ps EXCEPT ![N] = q]
      BY DEF p
    <3> HIDE DEF W, q
    <3>2. [ps EXCEPT ![N] = q] \in Seq(Seq(W)) /\ Len([ps EXCEPT ![N] = q]) = N
      BY <1>1, <2>1, <2>5
    <3>3. [ps EXCEPT ![N] = q] = Append(front, q)
      <4>1. /\ [ps EXCEPT ![N] = q][N] = q
            /\ \A k \in 1 .. N : k # N => [ps EXCEPT ![N] = q][k] = ps[k]
        BY <1>1, <2>1
      <4>2. [ps EXCEPT ![N] = q] = Append(front, [ps EXCEPT ![N] = q][N])
        BY <2>3, <3>2, <4>1
      <4> QED
        BY <4>1, <4>2
    <3> QED
      BY <3>1, <3>3
  <2>7. flat(Append(front, p)) = flat(front) \o p /\ flat(Append(front, q)) = flat(front) \o q
    BY <2>0, <2>2, <2>5, LaidOneMore
  <2>8. flat(front) \in Seq(W)
    BY <2>2, LaidOneMore
  <2>9. flat(front) \o q = Append(flat(front) \o p, w)
    <3> HIDE DEF flat
    <3> QED
      BY <1>1, <2>0, <2>8
  <2>10. Append(front, q) \in Seq(Seq(W))
    BY <2>2, <2>5
  <2> HIDE DEF flat, W, q
  <2> QED
    BY <1>4, <2>4, <2>6, <2>7, <2>9, <2>10 DEF flat, W
<1>5. \/ caps!Grouped(ps, w) = Append(ps, <<w>>)
      \/ ps # <<>> /\ caps!Grouped(ps, w) = [ps EXCEPT ![N] = Append(@, w)]
  BY DEF caps!Grouped
<1> QED
  BY <1>3, <1>4, <1>5

\* The phrases of words in turn come in turn, and hold those words and no others.
LEMMA PhrasesInTurn ==
    ASSUME NEW c, NEW ws, caps!Inside(c, ws) \in Seq(caps!Word), InTurn(caps!Inside(c, ws))
    PROVE  /\ caps!Phrases(c, ws) \in Seq(Seq(caps!Word)) /\ Phrased(caps!Phrases(c, ws))
           /\ caps!FlattenSeq(caps!Phrases(c, ws)) = caps!Inside(c, ws)
<1> DEFINE inside == caps!Inside(c, ws)
           N == Len(inside)
           W == caps!Word
           step == [p \in Seq(Seq(W)) \X W |-> caps!Grouped(p[1], p[2])]
           Up(f) == f = [n \in 0 .. N |->
                            IF n = 0 THEN <<>> ELSE caps!Grouped(f[n - 1], inside[n])]
           upTo == CHOOSE f : Up(f)
<1>1. inside \in Seq(W) /\ N \in Nat /\ \A n \in 1 .. N : inside[n] \in W
  OBVIOUS
<1>2. step \in StepOver(Seq(Seq(W)), W)
  <2>1. ASSUME NEW p \in Seq(Seq(W)) \X W PROVE caps!Grouped(p[1], p[2]) \in Seq(Seq(W))
    BY GroupedLays
  <2> HIDE DEF W
  <2> QED
    BY <2>1 DEF StepOver
<1>3. caps!Phrases(c, ws) = upTo[N]
  BY DEF caps!Phrases
<1> HIDE DEF inside
<1>4. PICK g \in [0 .. N -> Seq(Seq(W))] :
          g[0] = <<>> /\ \A n \in 1 .. N : g[n] = step[<<g[n - 1], inside[n]>>]
  <2> HIDE DEF step, W
  <2>1. <<>> \in Seq(Seq(W))
    OBVIOUS
  <2>2. \E g : g \in FoldOver(Seq(Seq(W)), <<>>, step, inside)
    BY <1>1, <1>2, <2>1, FoldedOver
  <2> QED
    BY <2>2 DEF FoldOver
<1>5. Up(g)
  <2>1. ASSUME NEW n \in 1 .. N
        PROVE  g[n] = caps!Grouped(g[n - 1], inside[n])
    <3>1. n - 1 \in 0 .. N
      BY <1>1
    <3>2. <<g[n - 1], inside[n]>> \in Seq(Seq(W)) \X W
      <4> HIDE DEF W
      <4> QED
        BY <1>1, <3>1
    <3> HIDE DEF W
    <3> QED
      BY <1>4, <3>2
  <2>2. \A n \in 0 .. N : n = 0 \/ n \in 1 .. N
    BY <1>1
  <2>3. g = [n \in 0 .. N |-> g[n]]
    OBVIOUS
  <2> HIDE DEF W
  <2> QED
    BY <1>4, <2>1, <2>2, <2>3
<1>6. Up(upTo)
  <2> HIDE DEF Up
  <2> QED
    BY <1>5
<1> HIDE DEF upTo, step
<1>7. upTo[0] = <<>>
  BY <1>1, <1>6
<1>8. \A n \in 1 .. N : upTo[n] = caps!Grouped(upTo[n - 1], inside[n])
  <2>1. \A n \in 1 .. N : n \in 0 .. N /\ n # 0
    BY <1>1
  <2> QED
    BY <1>6, <2>1
<1> HIDE DEF Up
<1> DEFINE SoFar(n) ==
              /\ upTo[n] \in Seq(Seq(W)) /\ Phrased(upTo[n])
              /\ caps!FlattenSeq(upTo[n]) = SubSeq(inside, 1, n)
              /\ n # 0 => Grouping(upTo[n], inside[n])
              /\ n = 0 => upTo[n] = <<>>
           P == {n \in 0 .. N : SoFar(n)}
<1>9. 0 \in P
  <2>1. caps!FlattenSeq(<<>>) = <<>>
    BY DEF caps!FlattenSeq
  <2>2. Phrased(<<>>) /\ <<>> \in Seq(Seq(W))
    BY DEF Phrased
  <2>3. SubSeq(inside, 1, 0) = <<>>
    <3> HIDE DEF W
    <3> QED
      BY <1>1
  <2>4. SoFar(0)
    <3> HIDE DEF W
    <3> QED
      BY <1>7, <2>1, <2>2, <2>3
  <2> HIDE DEF SoFar
  <2> QED
    BY <1>1, <2>4
<1>10. ASSUME NEW n \in 0 .. N, n + 1 \in 0 .. N, n \in P
       PROVE  n + 1 \in P
  <2> DEFINE u == upTo[n]
             w == inside[n + 1]
  <2>1. n + 1 \in 1 .. N /\ (n + 1) - 1 = n /\ w \in W /\ n + 1 # 0
    BY <1>1, <1>10
  <2>2. upTo[n + 1] = caps!Grouped(u, w)
    BY <1>8, <2>1
  <2>3. SoFar(n)
    BY <1>10
  <2>4. w.start <= w.end
    BY <2>1 DEF InTurn, inside
  <2>5. n # 0 => inside[n].end <= w.start
    <3>1. n # 0 => n \in 1 .. N - 1
      BY <1>1, <2>1
    <3> QED
      BY <3>1 DEF InTurn, inside
  <2>6. Grouping(caps!Grouped(u, w), w)
    <3>1. u # <<>> => n # 0 /\ u[Len(u)][Len(u[Len(u)])] = inside[n]
      BY <2>3 DEF Grouping
    <3>2. u # <<>> => u[Len(u)][Len(u[Len(u)])].end <= w.start
      BY <2>5, <3>1
    <3>3. u \in Seq(Seq(caps!Word)) /\ Phrased(u) /\ w \in caps!Word
      BY <2>1, <2>3
    <3> HIDE DEF u, w
    <3>4. Grouping(Append(u, <<w>>), w)
      BY <2>4, <3>2, <3>3, NewPhrase
    <3>5. u # <<>> => Grouping([u EXCEPT ![Len(u)] = Append(@, w)], w)
      BY <2>4, <3>2, <3>3, LongerPhrase
    <3>6. \/ caps!Grouped(u, w) = Append(u, <<w>>)
          \/ u # <<>> /\ caps!Grouped(u, w) = [u EXCEPT ![Len(u)] = Append(@, w)]
      BY DEF caps!Grouped
    <3> QED
      BY <3>4, <3>5, <3>6
  <2>7. caps!FlattenSeq(caps!Grouped(u, w)) = Append(SubSeq(inside, 1, n), w)
    BY <2>1, <2>3, GroupedLays
  <2>8. Append(SubSeq(inside, 1, n), w) = SubSeq(inside, 1, n + 1)
    <3> HIDE DEF W
    <3> QED
      BY <1>1, <2>1
  <2>9. SoFar(n + 1)
    <3> HIDE DEF u, w
    <3> QED
      BY <2>1, <2>2, <2>6, <2>7, <2>8 DEF Grouping, w
  <2> HIDE DEF SoFar
  <2> QED
    BY <1>10, <2>9
<1>11. N \in P
  <2> HIDE DEF P
  <2>1. P \in SUBSET (0 .. N)
    BY DEF P
  <2> QED
    BY <1>1, <1>9, <1>10, <2>1, Climbed
<1>12. SubSeq(inside, 1, N) = inside
  <2> HIDE DEF W
  <2> QED
    BY <1>1
<1>13. SoFar(N)
  BY <1>11
<1> QED
  <2> HIDE DEF W
  <2> QED
    BY <1>3, <1>12, <1>13 DEF inside, W

\* A phrase's caption begins with it, is held past its end by less than half a second,
\* and never past the next, but for one stretched to the shortest.
LEMMA CaptionFits ==
    ASSUME NEW ps \in Seq(Seq(caps!Word)), Phrased(ps), NEW k \in 1 .. Len(ps)
    PROVE  LET cap == caps!CaptionOf(ps, k)
               last == ps[k][Len(ps[k])]
           IN /\ cap.words = ps[k] /\ ps[k] # <<>> /\ cap.start = ps[k][1].start
              /\ caps!EndOf(cap) \in Int
              /\ \A i \in 1 .. Len(ps[k]) :
                    cap.start <= ps[k][i].start /\ ps[k][i].end <= caps!EndOf(cap)
              /\ caps!EndOf(cap) <= last.end + 5 \/ cap.duration = caps!MinCaption
              /\ k < Len(ps) =>
                    caps!EndOf(cap) <= ps[k + 1][1].start \/ cap.duration = caps!MinCaption
<1> DEFINE p == ps[k]
           n == Len(p)
           held == caps!Held(ps, k)
           cap == caps!CaptionOf(ps, k)
           end == caps!EndOf(cap)
<1>1. p \in Seq(caps!Word) /\ p # <<>> /\ Len(ps) \in Nat
  BY DEF Phrased
<1>2. /\ \A i \in 1 .. n : p[1].start <= p[i].start /\ p[i].end <= p[n].end
      /\ k < Len(ps) => p[n].end <= ps[k + 1][1].start
  BY <1>1 DEF Phrased
<1>3. k < Len(ps) => ps[k + 1][1].start \in Int
  <2>1. k < Len(ps) => k + 1 \in 1 .. Len(ps)
    BY <1>1
  <2>2. k < Len(ps) => ps[k + 1] \in Seq(caps!Word) /\ ps[k + 1] # <<>>
    BY <2>1 DEF Phrased
  <2>3. k < Len(ps) => ps[k + 1][1] \in caps!Word
    BY <2>2
  <2> QED
    BY <2>3 DEF caps!Word
<1> DEFINE natural == p[n].end
           next == IF k < Len(ps) THEN ps[k + 1][1].start ELSE natural + 3
<1>4. held = caps!Greater(natural, caps!Lesser(next, natural + 5))
  BY DEF caps!Held
<1>5. /\ cap.start = p[1].start /\ cap.words = p
      /\ cap.duration = caps!Greater(caps!MinCaption, held - p[1].start)
      /\ end = cap.start + cap.duration
  BY DEF caps!CaptionOf, caps!EndOf
<1> HIDE DEF p
<1>6. n \in Nat \ {0} /\ n \in 1 .. n /\ 1 \in 1 .. n
  BY <1>1
<1>7. /\ natural \in Int /\ p[1].start \in Int
      /\ \A i \in 1 .. n : p[i].start \in Int /\ p[i].end \in Int
  <2>1. \A i \in 1 .. n : p[i] \in caps!Word
    BY <1>1
  <2>2. \A i \in 1 .. n : p[i].start \in Int /\ p[i].end \in Int
    BY <2>1 DEF caps!Word
  <2> QED
    BY <1>6, <2>2
<1> HIDE DEF held, cap, end
<1>8. next \in Int /\ (k < Len(ps) => natural <= next)
  BY <1>2, <1>3, <1>7
<1> HIDE DEF next, natural
<1>9. held \in Int /\ natural <= held /\ held <= natural + 5 /\ (natural <= next => held <= next)
  BY <1>4, <1>7, <1>8 DEF caps!Greater, caps!Lesser
<1>10. /\ held <= end
       /\ end = held \/ cap.duration = caps!MinCaption
       /\ end \in Int
  BY <1>5, <1>7, <1>9 DEF caps!Greater, caps!MinCaption
<1>11. end <= natural + 5 \/ cap.duration = caps!MinCaption
  BY <1>7, <1>9, <1>10
<1>12. k < Len(ps) => end <= next \/ cap.duration = caps!MinCaption
  BY <1>8, <1>9, <1>10
<1>13. \A i \in 1 .. n : cap.start <= p[i].start /\ p[i].end <= end
  BY <1>2, <1>5, <1>7, <1>9, <1>10 DEF natural
<1> QED
  BY <1>1, <1>5, <1>10, <1>11, <1>12, <1>13 DEF p, cap, end, natural, next

\* Whatever is spoken, the captions of a clip hold its words and stand in turn.
LEMMA CaptionsFit ==
    ASSUME caps_clip \in Clip, caps_words \in Seq(caps!Word), InTurn(caps_words)
    PROVE  caps!EveryWordIsShown /\ caps!OnlyStretchedOverlap /\ caps!NotLeftOnScreen
<1> DEFINE ps == caps!Phrases(caps_clip, caps_words)
           N == Len(ps)
           shown == [n \in 1 .. N |-> caps!CaptionOf(ps, n)]
<1>1. /\ caps!Inside(caps_clip, caps_words) \in Seq(caps!Word)
      /\ InTurn(caps!Inside(caps_clip, caps_words))
  BY InsideInTurn
<1>2. /\ ps \in Seq(Seq(caps!Word)) /\ Phrased(ps)
      /\ caps!FlattenSeq(ps) = caps!Inside(caps_clip, caps_words)
  BY <1>1, PhrasesInTurn
<1>3. caps!Captions = shown
  BY DEF caps!Captions, caps!CaptionsFromWords
<1> HIDE DEF ps
<1>4. N \in Nat /\ Len(shown) = N /\ \A n \in 1 .. N : shown[n] = caps!CaptionOf(ps, n)
  BY <1>2
<1> HIDE DEF shown
<1>5. \A n \in 1 .. N :
         /\ shown[n].words = ps[n] /\ ps[n] # <<>> /\ shown[n].start = ps[n][1].start
         /\ caps!EndOf(shown[n]) \in Int
         /\ \A i \in 1 .. Len(ps[n]) :
               shown[n].start <= ps[n][i].start /\ ps[n][i].end <= caps!EndOf(shown[n])
         /\ caps!EndOf(shown[n]) <= ps[n][Len(ps[n])].end + 5 \/ shown[n].duration = caps!MinCaption
         /\ n < N =>
               caps!EndOf(shown[n]) <= ps[n + 1][1].start \/ shown[n].duration = caps!MinCaption
  BY <1>2, <1>4, CaptionFits
<1>6. caps!NotLeftOnScreen
  BY <1>3, <1>4, <1>5 DEF caps!NotLeftOnScreen
<1>7. caps!OnlyStretchedOverlap
  <2> SUFFICES ASSUME NEW n \in 1 .. N - 1, caps!EndOf(shown[n]) > shown[n + 1].start
               PROVE  shown[n].duration = caps!MinCaption
    BY <1>3, <1>4 DEF caps!OnlyStretchedOverlap
  <2>1. n \in 1 .. N /\ n < N /\ n + 1 \in 1 .. N
    BY <1>4
  <2>2. shown[n + 1].start = ps[n + 1][1].start /\ ps[n + 1] # <<>>
    BY <1>5, <2>1
  <2>3. ps[n + 1][1].start \in Int
    <3>1. ps[n + 1] \in Seq(caps!Word)
      BY <1>2, <2>1
    <3>2. ps[n + 1][1] \in caps!Word
      <4> HIDE DEF N
      <4> QED
        BY <2>2, <3>1
    <3> QED
      BY <3>2 DEF caps!Word
  <2>4. caps!EndOf(shown[n]) \in Int
    BY <1>5, <2>1
  <2> QED
    BY <1>5, <2>1, <2>2, <2>3, <2>4
<1>8. caps!EveryWordIsShown
  <2>1. [n \in 1 .. N |-> shown[n].words] = ps
    <3>1. \A n \in 1 .. N : shown[n].words = ps[n]
      BY <1>5
    <3>2. ps = [n \in 1 .. N |-> ps[n]]
      BY <1>2
    <3> QED
      BY <3>1, <3>2
  <2> QED
    BY <1>2, <1>3, <1>4, <1>5, <2>1 DEF caps!EveryWordIsShown
<1> QED
  BY <1>6, <1>7, <1>8

\* The captions' inductive invariant.
CapsInv == caps_clip \in Clip /\ caps!TypeOK /\ InTurn(caps_words)

\* Before a word is spoken all words are in turn.
LEMMA CapsStart ==
    ASSUME CapsAssumption, caps!Init
    PROVE  CapsInv
BY DEF CapsAssumption, caps!Init, CapsInv, caps!TypeOK, InTurn, Clip

\* The next word begins when the last one is over, or later.
LEMMA CapsKeep ==
    ASSUME CapsAssumption, CapsInv, [caps!Next]_<<caps_clip, caps_words>>
    PROVE  CapsInv'
<1>1. CASE UNCHANGED <<caps_clip, caps_words>>
  BY <1>1 DEF CapsInv, caps!TypeOK, InTurn
<1>2. ASSUME NEW length \in Lengths, NEW gap \in Gaps, NEW stop \in BOOLEAN,
             caps!Hear(length, gap, stop)
      PROVE  CapsInv'
  <2> DEFINE at == gap + IF caps_words = <<>> THEN 0 ELSE caps_words[Len(caps_words)].end
             w == [start |-> at, end |-> at + length, stop |-> stop]
  <2>1. caps_words' = Append(caps_words, w) /\ caps_clip' = caps_clip
    BY <1>2 DEF caps!Hear
  <2>2. gap \in Nat /\ length \in Nat \ {0}
    BY DEF CapsAssumption
  <2>3. caps_words \in Seq(caps!Word) /\ InTurn(caps_words)
    BY DEF CapsInv, caps!TypeOK
  <2>4. caps_words # <<>> => caps_words[Len(caps_words)] \in caps!Word
    BY <2>3
  <2>5. at \in Nat /\ (caps_words # <<>> => caps_words[Len(caps_words)].end <= at)
    BY <2>2, <2>4 DEF caps!Word
  <2>6. w \in caps!Word /\ w.start = at /\ w.start <= w.end
    BY <2>2, <2>5 DEF caps!Word
  <2> HIDE DEF w, at
  <2>7. Append(caps_words, w) \in Seq(caps!Word) /\ InTurn(Append(caps_words, w))
    BY <2>3, <2>5, <2>6, AppendedInTurn
  <2> QED
    BY <2>1, <2>7 DEF CapsInv, caps!TypeOK, InTurn
<1> QED
  BY <1>1, <1>2 DEF caps!Next

-----------------------------------------------------------------------------
(* What each part promises.                                                *)

\* useAssetUrls and the uploads: while the studio is open every file of a project of at
\* most AtOnce files can be played, unless a request for its link failed, and no asset is
\* listed that the server has not confirmed.
THEOREM FilesStayPlayable ==
    ASSUME MediaAssumption
    PROVE  media!Spec => [](media!TypeOK /\ media!LinksStayAlive /\ media!AssetsAreStored)
<1>1. media!Init => MediaInv  BY MediaStarts
<1>2. MediaInv /\ [media!Next]_(media!vars) => MediaInv'  BY MediaKeeps
<1>3. MediaInv => media!TypeOK /\ media!LinksStayAlive /\ media!AssetsAreStored
      BY MediaPromises DEF MediaInv
<1>. QED  BY <1>1, <1>2, <1>3, PTL DEF media!Spec

\* wallClockToInstant and instantToWallClock: a time on the wall of a zone, turned into an
\* instant, shows the same time there; in the hour a clock change skips, the later reading
\* is used east of Greenwich.
THEOREM TimesReadBack ==
    ASSUME ClockAssumption
    PROVE  clock!Spec => [](clock!TypeOK /\ clock!ReadsBack /\ clock!SkippedIsTheLaterEast)
<1>1. clock!Init => clock!TypeOK  BY ClockStarts
<1>2. clock!TypeOK /\ [clock!Next]_<<clock_zone, clock_local>> => clock!TypeOK'  BY ZoneKeeps
<1>3. clock!TypeOK => clock!ReadsBack /\ clock!SkippedIsTheLaterEast  BY ClockReadsBack
<1>. QED  BY <1>1, <1>2, <1>3, PTL DEF clock!Spec

\* captionsFromWords: whatever is spoken in a clip, each word that it plays is in one
\* caption, on screen while it is spoken; captions overlap only when stretched to the
\* shortest, and none is left on screen through a silence.
THEOREM CaptionsHoldTheWords ==
    ASSUME CapsAssumption
    PROVE  caps!Spec => [](/\ caps!TypeOK /\ caps!EveryWordIsShown
                           /\ caps!OnlyStretchedOverlap /\ caps!NotLeftOnScreen)
<1>1. caps!Init => CapsInv  BY CapsStart
<1>2. CapsInv /\ [caps!Next]_<<caps_clip, caps_words>> => CapsInv'  BY CapsKeep
<1>3. CapsInv => /\ caps!TypeOK /\ caps!EveryWordIsShown
                 /\ caps!OnlyStretchedOverlap /\ caps!NotLeftOnScreen
      BY CaptionsFit DEF CapsInv, caps!TypeOK
<1>. QED  BY <1>1, <1>2, <1>3, PTL DEF caps!Spec

\* The live avatar flow and the page of a group: the video is made of the group that was
\* picked, the timer of Continue takes nobody past the last step, and an upload to one
\* slot empties no other, unless the screen was misled.
THEOREM GroupsKeepTheirFiles ==
    ASSUME PackAssumption
    PROVE  pack!Spec => /\ [](pack!TypeOK /\ pack!CopyIsOfTheGroupPicked /\ pack!StepExists)
                        /\ pack!SightedUploadsKeepSlots
<1>1. pack!Init => PackInv  BY PackStarts
<1>2. PackInv /\ [pack!Next]_(pack!vars) => PackInv'  BY PackKeeps
<1>3. PackInv => pack!TypeOK /\ pack!CopyIsOfTheGroupPicked /\ pack!StepExists  BY PackPromises
<1>4. PackInv /\ [pack!Next]_(pack!vars)
      => [~ pack_misled => \A g \in Groups, s \in Slots :
              pack_stored[g].slots[s] # 0 => pack_stored'[g].slots[s] # 0]_(pack!vars)
      BY PackKeeps
<1>. QED  BY <1>1, <1>2, <1>3, <1>4, PTL DEF pack!Spec, pack!SightedUploadsKeepSlots

\* The new video's form and review: the price shown is of the request that would be sent,
\* one confirmation starts one video, the form holds what it was opened for, and the timer
\* of Continue takes nobody past the last step.
THEOREM OnePriceOneVideo ==
    ASSUME SetupAssumption
    PROVE  setup!Spec => [](/\ setup!TypeOK /\ setup!PriceIsOfTheRequest /\ setup!OneVideoPerConfirmation
                            /\ setup!ChoiceArrives /\ setup!SetupStepExists)
<1>1. setup!Init => SetupInv  BY SetupStarts
<1>2. SetupInv /\ [setup!Next]_(setup!vars) => SetupInv'  BY SetupKeeps
<1>3. SetupInv => /\ setup!TypeOK /\ setup!PriceIsOfTheRequest /\ setup!OneVideoPerConfirmation
                  /\ setup!ChoiceArrives /\ setup!SetupStepExists
      BY SetupPromises DEF SetupInv
<1>. QED  BY <1>1, <1>2, <1>3, PTL DEF setup!Spec

\* The study of a link: a late video or analysis of a link that was left is dropped, an
\* error that appears is of what the screen is for or of a look that was out when a draft
\* was opened in place, no link is analysed whose video was not on screen, the script is
\* of the analysis beside it, and a screen that waits has something that will answer.
THEOREM StudiesAreOfTheLinkShown ==
    ASSUME LinkAssumption
    PROVE  link!Spec => /\ [](/\ link!TypeOK /\ link!LateResultsAreDropped /\ link!NothingAnalysedUnseen
                              /\ link!ScriptIsOfItsAnalysis /\ link!WaitingIsFollowed)
                        /\ link!ErrorsAreOfTheScreen
<1>1. link!Init => LinkInv  BY LinkStarts
<1>2. LinkInv /\ [link!Next]_(link!vars) => LinkInv'  BY LinkKeeps
<1>3. LinkInv => /\ link!TypeOK /\ link!LateResultsAreDropped /\ link!NothingAnalysedUnseen
                 /\ link!ScriptIsOfItsAnalysis /\ link!WaitingIsFollowed
      BY DEF LinkInv
<1>4. LinkInv /\ [link!Next]_(link!vars)
      => [link_failed' /\ ~ link_failed =>
              \E t \in link_tasks \ link_tasks' :
                  IF link!IsLate(t) THEN link_swapped
                  ELSE t.kind = link!At /\ link!IsFor(t.job, t.link)]_(link!vars)
      BY ErrorsAre
<1>. QED  BY <1>1, <1>2, <1>3, <1>4, PTL DEF link!Spec, link!ErrorsAreOfTheScreen

\* The sign-in forms, the middleware and the limiter: a person ends on the page that was
\* asked for, fewer than twice the limit of attempts get through in a window's length,
\* and nobody is refused who has attempts left.
THEOREM AttemptsAreBounded ==
    ASSUME SignAssumption
    PROVE  sign!Spec => /\ [](sign!TypeOK /\ sign!BurstBounded /\ sign!LandsWhereAsked)
                        /\ sign!RefusedOnlyWhenFull
<1>1. sign!Init => SignInv  BY SignStarts
<1>2. SignInv /\ [sign!Next]_(sign!vars) => SignInv'  BY SignKeeps
<1>3. SignInv => sign!TypeOK /\ sign!BurstBounded /\ sign!LandsWhereAsked
      BY FewInAWindow, ReachedIsAsked, AttemptsCount DEF SignInv, sign!BurstBounded
<1>4. SignInv /\ [sign!Next]_(sign!vars)
      => [sign_reply' = "refused" /\ sign_reply # "refused" /\ sign_sent \in Throttled =>
              sign!Cardinality(sign!Recent(sign_sent)) >= Attempts]_(sign!vars)
      BY FullWhenRefused, AttemptsCount
<1>. QED  BY <1>1, <1>2, <1>3, <1>4, PTL DEF sign!Spec, sign!RefusedOnlyWhenFull

\* A post's row: it lags behind only what others did, shows the hour that was typed where
\* browser and server keep one time, and a press on it neither moves nor takes back a post
\* that is going out.
THEOREM RowsDoNoHarm ==
    ASSUME RowAssumption
    PROVE  row!Spec => /\ [](row!TypeOK /\ row!BehindOnlyByOthers /\ row!SameZoneReadsBack)
                       /\ row!StaleRowDoesNoHarm
<1>1. row!Init => RowInv  BY RowStarts
<1>2. RowInv /\ [row!Next]_(row!vars) => RowInv'  BY RowKeeps
<1>3. RowInv => row!TypeOK /\ row!BehindOnlyByOthers /\ row!SameZoneReadsBack
      BY RowIsBehind, HourReadsBack DEF RowInv
<1>4. RowInv /\ [row!Next]_(row!vars)
      => [row_post.status # "scheduled" =>
              row_post'.at = row_post.at
                /\ (row_post'.status = "cancelled" => row_post' = row_post)]_(row!vars)
      BY NoHarm
<1>. QED  BY <1>1, <1>2, <1>3, <1>4, PTL DEF row!Spec, row!StaleRowDoesNoHarm

-----------------------------------------------------------------------------
(* The whole.                                                              *)

\* A behaviour of the whole is one of each part.
LEMMA PartsRun ==
    MakingSpec => /\ Spec /\ media!Spec /\ clock!Spec /\ caps!Spec /\ pack!Spec /\ setup!Spec
                  /\ link!Spec /\ sign!Spec /\ row!Spec /\ [](screen \in Screens)
<1>1. MakingInit => /\ Init /\ media!Init /\ clock!Init /\ caps!Init /\ pack!Init /\ setup!Init
                    /\ link!Init /\ sign!Init /\ row!Init /\ screen \in Screens
      BY DEF MakingInit
<1>2. [MakingNext]_MakingVars => [Next]_project
      BY DEF MakingNext, MakingVars
<1>3. [MakingNext]_MakingVars => [media!Next]_(media!vars)
      BY DEF MakingNext, MakingVars, mediaVars, media!vars
<1>4. [MakingNext]_MakingVars => [clock!Next]_<<clock_zone, clock_local>>
      BY DEF MakingNext, MakingVars, clockVars
<1>5. [MakingNext]_MakingVars => [pack!Next]_(pack!vars)
      BY DEF MakingNext, MakingVars, packVars, pack!vars
<1>6. [MakingNext]_MakingVars => [setup!Next]_(setup!vars)
      BY DEF MakingNext, MakingVars, setupVars, setup!vars, setup!form
<1>7. [MakingNext]_MakingVars => [link!Next]_(link!vars)
      BY DEF MakingNext, MakingVars, linkVars, link!vars, link!screen
<1>8. [MakingNext]_MakingVars => [sign!Next]_(sign!vars)
      BY DEF MakingNext, MakingVars, signVars, sign!vars
<1>9. [MakingNext]_MakingVars => [row!Next]_(row!vars)
      BY DEF MakingNext, MakingVars, rowVars, row!vars
<1>10. screen \in Screens /\ [MakingNext]_MakingVars => (screen \in Screens)'
      BY DEF MakingNext, MakingVars
<1>11. [MakingNext]_MakingVars => [caps!Next]_<<caps_clip, caps_words>>
      BY DEF MakingNext, MakingVars, capsVars
<1>. QED  BY <1>1, <1>2, <1>3, <1>4, <1>5, <1>6, <1>7, <1>8, <1>9, <1>10, <1>11, PTL
             DEF MakingSpec, Spec, media!Spec, clock!Spec, caps!Spec, pack!Spec, setup!Spec,
             link!Spec, sign!Spec, row!Spec

\* Whatever screen a behaviour is about, its variables stay what they are declared to be.
THEOREM MakingTypeCorrect == MakingSpec => []AllTypes
<1>1. /\ MediaAssumption /\ ClockAssumption /\ CapsAssumption /\ PackAssumption
      /\ SetupAssumption /\ LinkAssumption /\ SignAssumption /\ RowAssumption
      BY PartsAssumption
<1>2. StaysWellFormed => TypeOK  BY DEF StaysWellFormed, WellFormed, TypeOK
<1>3. /\ screen \in Screens
      /\ TypeOK /\ media!TypeOK /\ clock!TypeOK /\ caps!TypeOK /\ pack!TypeOK
      /\ setup!TypeOK /\ link!TypeOK /\ sign!TypeOK /\ row!TypeOK
      => AllTypes
      BY DEF AllTypes, Screens
<1>. QED  BY <1>1, <1>2, <1>3, TimelineAssumption, PartsRun, FilmStaysWellFormed, FilesStayPlayable,
             TimesReadBack, CaptionsHoldTheWords, GroupsKeepTheirFiles, OnePriceOneVideo,
             StudiesAreOfTheLinkShown, AttemptsAreBounded, RowsDoNoHarm, PTL

\* splitItem, trimItem, deleteItem, setSpeed and the captions' replacement: the edits keep
\* the film on whatever screen, for any projects and moments.
THEOREM MakingKeepsTheFilm == MakingSpec => []EditsKeepTheFilm
BY TimelineAssumption, PartsRun, FilmIsKept, PTL

\* Times come out as they were meant, whatever is spoken and wherever a clock is changed:
\* the times of the wall, the hour of a post that is moved, the captions of a clip.
THEOREM MakingTimesComeOut == MakingSpec => []TimesComeOutAsMeant
<1>1. ClockAssumption /\ CapsAssumption /\ RowAssumption  BY PartsAssumption
<1>2. /\ clock!ReadsBack /\ clock!SkippedIsTheLaterEast /\ row!SameZoneReadsBack
      /\ caps!EveryWordIsShown /\ caps!OnlyStretchedOverlap /\ caps!NotLeftOnScreen
      => TimesComeOutAsMeant
      BY DEF TimesComeOutAsMeant
<1>. QED  BY <1>1, <1>2, PartsRun, TimesReadBack, CaptionsHoldTheWords, RowsDoNoHarm, PTL

\* What is paid for is what the person was shown, for any requests, groups and links.
THEOREM MakingPaysForWhatWasShown == MakingSpec => []PaidForWhatWasShown
<1>1. PackAssumption /\ SetupAssumption /\ LinkAssumption  BY PartsAssumption
<1>2. /\ setup!PriceIsOfTheRequest /\ setup!OneVideoPerConfirmation /\ setup!ChoiceArrives
      /\ pack!CopyIsOfTheGroupPicked
      /\ link!NothingAnalysedUnseen /\ link!ScriptIsOfItsAnalysis
      => PaidForWhatWasShown
      BY DEF PaidForWhatWasShown
<1>. QED  BY <1>1, <1>2, PartsRun, OnePriceOneVideo, GroupsKeepTheirFiles, StudiesAreOfTheLinkShown, PTL

\* Screens keep up with what answers late, whatever answers are lost or overtaken.
THEOREM ScreensDoKeepUp == MakingSpec => ScreensKeepUp
<1>1. MediaAssumption /\ PackAssumption /\ SetupAssumption /\ LinkAssumption /\ RowAssumption
      BY PartsAssumption
<1>. QED  BY <1>1, PartsRun, FilesStayPlayable, GroupsKeepTheirFiles, OnePriceOneVideo,
             StudiesAreOfTheLinkShown, RowsDoNoHarm, PTL DEF ScreensKeepUp

\* The way in keeps its word, for any limit, window and actions.
THEOREM SignInKeepsWord == MakingSpec => SignInKeepsItsWord
<1>1. SignAssumption  BY PartsAssumption
<1>. QED  BY <1>1, PartsRun, AttemptsAreBounded, PTL DEF SignInKeepsItsWord
=============================================================================
