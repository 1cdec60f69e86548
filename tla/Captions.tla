-------------------------------- MODULE Captions --------------------------------
(* Captions from the words spoken in a clip (core/captions.ts) and the panel that  *)
(* asks for them (components/panels/captions-panel.tsx).  Time is in tenths of a    *)
(* second.  A word is where it starts and ends in the source and whether it ends a  *)
(* sentence; its letters play no part.                                              *)
EXTENDS Integers, Sequences, SequencesExt

CONSTANTS
    MaxWords,   \* the most words of one caption (6)
    Lengths,    \* bound: how long words are
    Gaps,       \* bound: the silences between them
    Clips,      \* bound: the clips, as [start, trimIn, duration] of the timeline
    MaxSpoken   \* bound: words of a transcript

MaxSeconds == 26
BreakGap   == 6
MinCaption == 4

VARIABLES clip, words

Word == [start : Nat, end : Nat \ {0}, stop : BOOLEAN]
TypeOK == clip \in Clips /\ words \in Seq(Word)

-----------------------------------------------------------------------------
Lesser(a, b)  == IF a < b THEN a ELSE b
Greater(a, b) == IF a > b THEN a ELSE b

\* The words the clip plays, cut to it and moved to the timeline.
Heard(c, w) == w.end > c.trimIn /\ w.start < c.trimIn + c.duration
Moved(c, w) ==
    [w EXCEPT !.start = Greater(@, c.trimIn) - c.trimIn + c.start,
              !.end = Lesser(@, c.trimIn + c.duration) - c.trimIn + c.start]
Plays(c, w) == Heard(c, w) /\ Moved(c, w).end > Moved(c, w).start

Inside(c, ws) ==
    LET upTo[n \in 0 .. Len(ws)] ==
            IF n = 0 THEN <<>>
            ELSE IF Plays(c, ws[n]) THEN Append(upTo[n - 1], Moved(c, ws[n]))
            ELSE upTo[n - 1]
    IN upTo[Len(ws)]

\* A phrase ends at a pause, at a sentence end, or when it gets long.
StartsNew(phrase, w) ==
    \/ w.start - phrase[Len(phrase)].end > BreakGap
    \/ Len(phrase) >= MaxWords
    \/ w.end - phrase[1].start > MaxSeconds
    \/ phrase[Len(phrase)].stop

Grouped(phrases, w) ==
    IF phrases = <<>> \/ StartsNew(phrases[Len(phrases)], w)
    THEN Append(phrases, <<w>>)
    ELSE [phrases EXCEPT ![Len(phrases)] = Append(@, w)]

Phrases(c, ws) ==
    LET inside == Inside(c, ws)
        upTo[n \in 0 .. Len(inside)] ==
            IF n = 0 THEN <<>> ELSE Grouped(upTo[n - 1], inside[n])
    IN upTo[Len(inside)]

\* Each caption is held until the next begins, within reason.
Held(phrases, n) ==
    LET natural == phrases[n][Len(phrases[n])].end
        next == IF n < Len(phrases) THEN phrases[n + 1][1].start ELSE natural + 3
    IN Greater(natural, Lesser(next, natural + 5))

CaptionOf(phrases, n) ==
    LET start == phrases[n][1].start
    IN [start |-> start, duration |-> Greater(MinCaption, Held(phrases, n) - start),
        words |-> phrases[n]]

CaptionsFromWords(c, ws) ==
    [n \in 1 .. Len(Phrases(c, ws)) |-> CaptionOf(Phrases(c, ws), n)]

-----------------------------------------------------------------------------
\* The transcript of a clip, one word after the other.
Hear(length, gap, stop) ==
    /\ Len(words) < MaxSpoken
    /\ LET at == gap + IF words = <<>> THEN 0 ELSE words[Len(words)].end
       IN words' = Append(words, [start |-> at, end |-> at + length, stop |-> stop])
    /\ UNCHANGED clip

Init == clip \in Clips /\ words = <<>>
Next == \E length \in Lengths, gap \in Gaps, stop \in BOOLEAN : Hear(length, gap, stop)
Spec == Init /\ [][Next]_<<clip, words>>

-----------------------------------------------------------------------------
Captions == CaptionsFromWords(clip, words)
EndOf(k) == k.start + k.duration

\* Every word the clip plays is in one caption, in the order spoken, while that
\* caption is on screen; nothing else is.
EveryWordIsShown ==
    /\ FlattenSeq([n \in 1 .. Len(Captions) |-> Captions[n].words]) = Inside(clip, words)
    /\ \A n \in 1 .. Len(Captions) : \A i \in 1 .. Len(Captions[n].words) :
          Captions[n].start <= Captions[n].words[i].start
          /\ Captions[n].words[i].end <= EndOf(Captions[n])

\* Two captions are on screen together only when the first was stretched to the
\* shortest a caption may be; without such a one, replaceCaptions takes them all.
OnlyStretchedOverlap ==
    \A n \in 1 .. Len(Captions) - 1 :
       EndOf(Captions[n]) > Captions[n + 1].start => Captions[n].duration = MinCaption

\* A caption runs on past its last word by less than half a second, but for one that
\* would flash by: it is not left on screen through a silence.
NotLeftOnScreen ==
    \A n \in 1 .. Len(Captions) :
       LET last == Captions[n].words[Len(Captions[n].words)].end
       IN EndOf(Captions[n]) <= last + 5 \/ Captions[n].duration = MinCaption
=============================================================================
