----------------------------- MODULE Saving_proofs -----------------------------
(* The promises of the parts, for every value of the constants.  A behaviour of   *)
(* the whole is one of each part (PartsRun), and each part has an inductive       *)
(* invariant of its own.                                                          *)
(*                                                                                *)
(* The history implements the undo log.  UndoLog speaks of one list and a place   *)
(* in it; the store keeps that list in three pieces, so most of the proof is      *)
(* about how sequences are cut and put together.                                  *)
(*                                                                                *)
(* Saving: what a save replaces is what it was made from, so it is enough that    *)
(* the page has seen what the store and every save on its way were made from      *)
(* (PageHasSeen, FlightsSeen); an answer recorded on another project ends that.   *)
(*                                                                                *)
(* Sending out: the key of the form is drawn anew only with an answer that tells. *)
(*                                                                                *)
(* Searching: each ticket is one search, and while the newest is due, whatever is *)
(* on screen will be replaced by its answer (TicketsAre, ScreenIs); an answer     *)
(* that was applied is kept (AppliedAreKept).                                     *)
EXTENDS Saving, SequenceTheorems, FiniteSetTheorems, TLAPS

-----------------------------------------------------------------------------
(* The history: sequences.                                                    *)

\* A sequence of one project.
LEMMA Single ==
    ASSUME NEW p \in Projects
    PROVE  <<p>> \in Seq(Projects) /\ Len(<<p>>) = 1 /\ <<p>>[1] = p
  OBVIOUS

\* What `Remembered` keeps: the whole of a short sequence, the end of a long one.
LEMMA RememberedIsTheEnd ==
    ASSUME NEW s \in Seq(Projects)
    PROVE  /\ Remembered(s) \in Seq(Projects)
           /\ Len(Remembered(s)) = IF Len(s) > Limit THEN Limit ELSE Len(s)
           /\ \A i \in 1 .. Len(Remembered(s)) :
                 Remembered(s)[i] = s[i + Len(s) - Len(Remembered(s))]
  <1> DEFINE m == IF Len(s) > Limit THEN Len(s) - Limit + 1 ELSE 1
  <1>1. /\ Len(s) \in Nat /\ m \in Int /\ m >= 1 /\ Limit \in Nat /\ Limit > 0
        /\ Len(s) - m + 1 = IF Len(s) > Limit THEN Limit ELSE Len(s)
    BY LenProperties, EditorAssumption
  <1>2. \A i \in m .. Len(s) : s[i] \in Projects
    BY <1>1, ElementOfSeq
  <1> HIDE DEF m
  <1>3. /\ SubSeq(s, m, Len(s)) \in Seq(Projects)
        /\ Len(SubSeq(s, m, Len(s))) = IF m <= Len(s) THEN Len(s) - m + 1 ELSE 0
        /\ \A i \in 1 .. Len(s) - m + 1 : SubSeq(s, m, Len(s))[i] = s[m + i - 1]
    BY <1>1, <1>2, SubSeqProperties
  <1>4. Remembered(s) = SubSeq(s, m, Len(s))
    BY DEF Remembered, m
  <1>5. Len(Remembered(s)) = Len(s) - m + 1 /\ Len(Remembered(s)) \in Nat
    BY <1>1, <1>3, <1>4
  <1>6. ASSUME NEW i \in 1 .. Len(Remembered(s))
        PROVE  Remembered(s)[i] = s[i + Len(s) - Len(Remembered(s))]
    <2>1. Remembered(s)[i] = s[m + i - 1]
      BY <1>1, <1>3, <1>4, <1>5
    <2>2. m + i - 1 = i + Len(s) - Len(Remembered(s))
      BY <1>1, <1>5
    <2> QED
      BY <2>1, <2>2
  <1> QED
    BY <1>1, <1>3, <1>4, <1>5, <1>6

\* The list made of the three pieces: its length and its entries.
LEMMA LogOf ==
    ASSUME NEW s \in Seq(Projects), NEW p \in Projects, NEW f \in Seq(Projects)
    PROVE  /\ s \o <<p>> \o f \in Seq(Projects)
           /\ Len(s \o <<p>> \o f) = Len(s) + 1 + Len(f)
           /\ \A i \in 1 .. Len(s) + 1 + Len(f) : (s \o <<p>> \o f)[i] =
                 IF i <= Len(s) THEN s[i]
                 ELSE IF i = Len(s) + 1 THEN p ELSE f[i - Len(s) - 1]
           /\ Len(s) \in Nat /\ Len(f) \in Nat
  <1>1. Len(s) \in Nat /\ Len(f) \in Nat
    BY LenProperties
  <1>2. /\ s \o <<p>> \in Seq(Projects) /\ Len(s \o <<p>>) = Len(s) + 1
        /\ \A i \in 1 .. Len(s) + 1 : (s \o <<p>>)[i] = IF i <= Len(s) THEN s[i] ELSE <<p>>[i - Len(s)]
    BY Single, ConcatProperties
  <1>3. \A i \in 1 .. Len(s) + 1 : (s \o <<p>>)[i] = IF i <= Len(s) THEN s[i] ELSE p
    <2> SUFFICES ASSUME NEW i \in 1 .. Len(s) + 1, ~ (i <= Len(s)) PROVE <<p>>[i - Len(s)] = p
      BY <1>2
    <2> i - Len(s) = 1
      BY <1>1
    <2> QED
      BY Single
  <1>4. /\ s \o <<p>> \o f \in Seq(Projects)
        /\ Len(s \o <<p>> \o f) = Len(s \o <<p>>) + Len(f)
        /\ \A i \in 1 .. Len(s \o <<p>>) + Len(f) : (s \o <<p>> \o f)[i] =
              IF i <= Len(s \o <<p>>) THEN (s \o <<p>>)[i] ELSE f[i - Len(s \o <<p>>)]
    BY <1>2, ConcatProperties
  <1> QED
    BY <1>1, <1>2, <1>3, <1>4

\* A new entry in the past and in the list: both forget the oldest, and the same one.
LEMMA CommitAdds ==
    ASSUME NEW s \in Seq(Projects), NEW from \in Projects, NEW p \in Projects,
           NEW f \in Seq(Projects)
    PROVE  /\ Remembered(Append(s, from)) \o <<p>> \o <<>>
                = Promise!Newest(Append(SubSeq(s \o <<from>> \o f, 1, Len(s) + 1), p))
           /\ Len(Remembered(Append(s, from)) \o <<p>> \o <<>>)
                = Len(Remembered(Append(s, from))) + 1
  <1> DEFINE l == s \o <<from>> \o f
             u == Append(s, from)
             t == Append(SubSeq(l, 1, Len(s) + 1), p)
             m == IF Len(t) > Limit + 1 THEN Len(t) - Limit ELSE 1
             r == Remembered(u)
  <1>1. /\ Len(s) \in Nat /\ Len(f) \in Nat /\ Limit \in Nat /\ Limit > 0
        /\ <<>> \in Seq(Projects) /\ Len(<<>>) = 0
    BY LenProperties, EditorAssumption, EmptySeq
  <1>2. /\ l \in Seq(Projects) /\ Len(l) = Len(s) + 1 + Len(f)
        /\ \A i \in 1 .. Len(s) + 1 : l[i] = IF i <= Len(s) THEN s[i] ELSE from
    BY <1>1, LogOf
  <1>3. /\ u \in Seq(Projects) /\ Len(u) = Len(s) + 1
        /\ \A i \in 1 .. Len(s) + 1 : u[i] = IF i <= Len(s) THEN s[i] ELSE from
    BY <1>1, AppendProperties
  <1> HIDE DEF l, u
  <1>4. \A i \in 1 .. Len(s) + 1 : l[i] \in Projects
    BY <1>1, <1>2, ElementOfSeq
  <1>5. /\ SubSeq(l, 1, Len(s) + 1) \in Seq(Projects)
        /\ Len(SubSeq(l, 1, Len(s) + 1)) = Len(s) + 1
        /\ \A i \in 1 .. Len(s) + 1 : SubSeq(l, 1, Len(s) + 1)[i] = l[i]
    BY <1>1, <1>4, SubSeqProperties
  <1>6. /\ t \in Seq(Projects) /\ Len(t) = Len(s) + 2
        /\ \A i \in 1 .. Len(s) + 2 : t[i] = IF i <= Len(s) + 1 THEN u[i] ELSE p
    <2> DEFINE c == SubSeq(l, 1, Len(s) + 1)
    <2>1. c \in Seq(Projects) /\ Len(c) = Len(s) + 1
      BY <1>5
    <2>2. \A i \in 1 .. Len(s) + 1 : c[i] = u[i]
      BY <1>1, <1>2, <1>3, <1>5
    <2>3. t = Append(c, p)
      OBVIOUS
    <2> HIDE DEF c, t
    <2>4. /\ t \in Seq(Projects) /\ Len(t) = Len(c) + 1
          /\ \A i \in 1 .. Len(c) : t[i] = c[i]
          /\ t[Len(c) + 1] = p
      BY <2>1, <2>3, AppendProperties
    <2> QED
      BY <1>1, <2>1, <2>2, <2>4
  <1> HIDE DEF t
  <1>7. /\ m \in Int /\ m >= 1 /\ m <= Len(t)
        /\ \A i \in m .. Len(t) : t[i] \in Projects
    BY <1>1, <1>6, ElementOfSeq
  <1>8. Promise!Newest(t) = SubSeq(t, m, Len(t))
    BY DEF Promise!Newest
  <1>9. /\ Len(t) > Limit + 1 => m = Len(t) - Limit
        /\ ~ (Len(t) > Limit + 1) => m = 1
    OBVIOUS
  <1> HIDE DEF m
  <1>10. /\ Promise!Newest(t) \in Seq(Projects)
         /\ Len(Promise!Newest(t)) = Len(t) - m + 1
         /\ \A i \in 1 .. Len(t) - m + 1 : Promise!Newest(t)[i] = t[m + i - 1]
    BY <1>6, <1>7, <1>8, SubSeqProperties
  <1>11. /\ r \in Seq(Projects)
         /\ Len(r) = IF Len(s) + 1 > Limit THEN Limit ELSE Len(s) + 1
         /\ \A i \in 1 .. Len(r) : r[i] = u[i + Len(u) - Len(r)]
    BY <1>3, RememberedIsTheEnd
  <1> HIDE DEF r
  <1>12. /\ r \o <<p>> \o <<>> \in Seq(Projects)
         /\ Len(r \o <<p>> \o <<>>) = Len(r) + 1
         /\ \A i \in 1 .. Len(r) + 1 :
               (r \o <<p>> \o <<>>)[i] = IF i <= Len(r) THEN r[i] ELSE p
    BY <1>1, <1>11, LogOf
  <1>13. Len(r) + 1 = Len(t) - m + 1 /\ Len(r) \in Nat
    <2>1. /\ Len(t) = Len(s) + 2 /\ Len(s) \in Nat /\ Limit \in Nat
          /\ Len(s) + 1 > Limit => Len(r) = Limit
          /\ ~ (Len(s) + 1 > Limit) => Len(r) = Len(s) + 1
      BY <1>1, <1>6, <1>11
    <2> QED
      BY <1>9, <2>1
  <1>14. \A i \in 1 .. Len(r) + 1 : (r \o <<p>> \o <<>>)[i] = Promise!Newest(t)[i]
    <2> SUFFICES ASSUME NEW i \in 1 .. Len(r) + 1
                 PROVE  (r \o <<p>> \o <<>>)[i] = Promise!Newest(t)[i]
      OBVIOUS
    <2>1. Promise!Newest(t)[i] = t[m + i - 1] /\ m + i - 1 \in 1 .. Len(s) + 2
      BY <1>6, <1>7, <1>10, <1>13
    <2>2. CASE i <= Len(r)
      <3>1. (r \o <<p>> \o <<>>)[i] = u[i + Len(u) - Len(r)]
        BY <1>11, <1>12, <1>13, <2>2
      <3>2. m + i - 1 = i + Len(u) - Len(r) /\ m + i - 1 <= Len(s) + 1
        <4>1. /\ Len(t) = Len(s) + 2 /\ Len(u) = Len(s) + 1 /\ Len(s) \in Nat
              /\ m \in Int /\ Len(r) \in Nat /\ Len(r) = Len(t) - m
              /\ i \in Int
          BY <1>1, <1>3, <1>6, <1>7, <1>13
        <4> QED
          BY <4>1, <2>2
      <3> QED
        BY <1>6, <2>1, <3>1, <3>2
    <2>3. CASE ~ (i <= Len(r))
      <3>1. (r \o <<p>> \o <<>>)[i] = p
        BY <1>12, <1>13, <2>3
      <3>2. ~ (m + i - 1 <= Len(s) + 1)
        BY <1>1, <1>6, <1>7, <1>13, <2>3
      <3> QED
        BY <1>6, <2>1, <3>1, <3>2
    <2> QED
      BY <2>2, <2>3
  <1>15. r \o <<p>> \o <<>> = Promise!Newest(t)
    BY <1>10, <1>12, <1>13, <1>14, SeqEqual
  <1> QED
    BY <1>12, <1>15 DEF r, u, t, l

\* A list that has the three pieces, entry by entry.
Agrees(s, p, f, l) ==
    /\ Len(l) = Len(s) + 1 + Len(f)
    /\ \A i \in 1 .. Len(s) : l[i] = s[i]
    /\ l[Len(s) + 1] = p
    /\ \A i \in 1 .. Len(f) : l[Len(s) + 1 + i] = f[i]

\* ... is the three pieces put together.
LEMMA SameLog ==
    ASSUME NEW s \in Seq(Projects), NEW p \in Projects, NEW f \in Seq(Projects),
           NEW l \in Seq(Projects), Agrees(s, p, f, l)
    PROVE  s \o <<p>> \o f = l
  <1> USE DEF Agrees
  <1> DEFINE r == s \o <<p>> \o f
  <1>1. /\ r \in Seq(Projects) /\ Len(r) = Len(l)
        /\ \A i \in 1 .. Len(s) + 1 + Len(f) : r[i] =
              IF i <= Len(s) THEN s[i]
              ELSE IF i = Len(s) + 1 THEN p ELSE f[i - Len(s) - 1]
        /\ Len(s) \in Nat /\ Len(f) \in Nat
    BY LogOf
  <1> HIDE DEF r
  <1>2. ASSUME NEW i \in 1 .. Len(r)
        PROVE  r[i] = l[i]
    <2>1. i \in 1 .. Len(s) + 1 + Len(f)
      BY <1>1
    <2>2. CASE i <= Len(s)
      BY <1>1, <2>1, <2>2
    <2>3. CASE i = Len(s) + 1
      BY <1>1, <2>1, <2>3
    <2>4. CASE i > Len(s) + 1
      <3> DEFINE j == i - Len(s) - 1
      <3>1. j \in 1 .. Len(f) /\ Len(s) + 1 + j = i
        BY <1>1, <2>1, <2>4
      <3>2. r[i] = f[j]
        BY <1>1, <2>1, <2>4
      <3> HIDE DEF j
      <3> QED
        BY <3>1, <3>2
    <2> QED
      BY <1>1, <2>1, <2>2, <2>3, <2>4
  <1>3. r = l
    BY <1>1, <1>2, SeqEqual
  <1> QED
    BY <1>3 DEF r

\* Another project in the middle amends the list there.
LEMMA AmendLog ==
    ASSUME NEW s \in Seq(Projects), NEW p \in Projects, NEW f \in Seq(Projects),
           NEW q \in Projects
    PROVE  s \o <<q>> \o f = [s \o <<p>> \o f EXCEPT ![Len(s) + 1] = q]
  <1> DEFINE r == s \o <<p>> \o f
             l == [r EXCEPT ![Len(s) + 1] = q]
  <1>1. /\ r \in Seq(Projects) /\ Len(r) = Len(s) + 1 + Len(f)
        /\ \A i \in 1 .. Len(s) + 1 + Len(f) : r[i] =
              IF i <= Len(s) THEN s[i]
              ELSE IF i = Len(s) + 1 THEN p ELSE f[i - Len(s) - 1]
        /\ Len(s) \in Nat /\ Len(f) \in Nat
    BY LogOf
  <1> HIDE DEF r
  <1>2. Len(s) + 1 \in 1 .. Len(r)
    BY <1>1
  <1>3. /\ l \in Seq(Projects) /\ Len(l) = Len(r)
        /\ \A i \in 1 .. Len(r) : l[i] = IF i = Len(s) + 1 THEN q ELSE r[i]
    BY <1>1, <1>2, ExceptSeq
  <1> HIDE DEF l
  <1>4. \A i \in 1 .. Len(s) : l[i] = s[i]
    BY <1>1, <1>3
  <1>5. l[Len(s) + 1] = q
    BY <1>2, <1>3
  <1>6. ASSUME NEW i \in 1 .. Len(f) PROVE l[Len(s) + 1 + i] = f[i]
    <2> DEFINE j == Len(s) + 1 + i
    <2>1. j \in 1 .. Len(s) + 1 + Len(f) /\ j > Len(s) + 1 /\ j - Len(s) - 1 = i
      BY <1>1
    <2> HIDE DEF j
    <2>2. l[j] = r[j] /\ r[j] = f[j - Len(s) - 1]
      BY <1>1, <1>3, <2>1
    <2> QED
      BY <2>1, <2>2 DEF j
  <1>7. Agrees(s, q, f, l)
    BY <1>1, <1>3, <1>4, <1>5, <1>6 DEF Agrees
  <1>8. s \o <<q>> \o f = l
    BY <1>3, <1>7, SameLog
  <1> QED
    BY <1>8 DEF l, r

\* One step forward: the first of the future is stood on, the list is the same.
LEMMA ForwardLog ==
    ASSUME NEW s \in Seq(Projects), NEW p \in Projects, NEW f \in Seq(Projects), f # <<>>
    PROVE  /\ Append(s, p) \o <<Head(f)>> \o Tail(f) = s \o <<p>> \o f
           /\ Append(s, p) \in Seq(Projects) /\ Len(Append(s, p)) = Len(s) + 1
           /\ Head(f) \in Projects /\ Tail(f) \in Seq(Projects)
  <1> DEFINE l == s \o <<p>> \o f
             u == Append(s, p)
             g == Tail(f)
             h == Head(f)
  <1>1. /\ l \in Seq(Projects) /\ Len(l) = Len(s) + 1 + Len(f)
        /\ \A i \in 1 .. Len(s) + 1 + Len(f) : l[i] =
              IF i <= Len(s) THEN s[i]
              ELSE IF i = Len(s) + 1 THEN p ELSE f[i - Len(s) - 1]
        /\ Len(s) \in Nat /\ Len(f) \in Nat
    BY LogOf
  <1>2. /\ u \in Seq(Projects) /\ Len(u) = Len(s) + 1
        /\ \A i \in 1 .. Len(s) : u[i] = s[i]
        /\ u[Len(s) + 1] = p
    BY AppendProperties
  <1>3. /\ h \in Projects /\ g \in Seq(Projects) /\ Len(g) = Len(f) - 1
        /\ \A i \in 1 .. Len(g) : g[i] = f[i + 1]
        /\ h = f[1] /\ Len(f) > 0
    BY <1>1, HeadTailProperties, EmptySeq
  <1> HIDE DEF l, u, g, h
  <1>4. Len(l) = Len(u) + 1 + Len(g)
    BY <1>1, <1>2, <1>3
  <1>5. \A i \in 1 .. Len(u) : l[i] = u[i]
    BY <1>1, <1>2
  <1>6. l[Len(u) + 1] = h
    <2>1. Len(s) + 2 \in 1 .. Len(s) + 1 + Len(f) /\ (Len(s) + 2) - Len(s) - 1 = 1
      BY <1>1, <1>3
    <2>2. l[Len(s) + 2] = f[1]
      BY <1>1, <2>1
    <2> QED
      BY <1>1, <1>2, <1>3, <2>2
  <1>7. ASSUME NEW i \in 1 .. Len(g) PROVE l[Len(u) + 1 + i] = g[i]
    <2> DEFINE j == Len(u) + 1 + i
    <2>1. j \in 1 .. Len(s) + 1 + Len(f) /\ j > Len(s) + 1 /\ j - Len(s) - 1 = i + 1
      BY <1>1, <1>2, <1>3
    <2> HIDE DEF j
    <2>2. l[j] = f[j - Len(s) - 1]
      BY <1>1, <2>1
    <2>3. l[j] = g[i]
      BY <1>3, <2>1, <2>2
    <2> QED
      BY <2>3 DEF j
  <1>8. l \in Seq(Projects) /\ u \in Seq(Projects) /\ h \in Projects /\ g \in Seq(Projects)
    BY <1>1, <1>2, <1>3
  <1>9. Agrees(u, h, g, l)
    BY <1>4, <1>5, <1>6, <1>7 DEF Agrees
  <1>10. u \o <<h>> \o g = l
    BY <1>8, <1>9, SameLog
  <1> QED
    BY <1>2, <1>3, <1>10 DEF l, u, g, h

\* One step back: the last of the past is stood on, the list is the same.
LEMMA BackLog ==
    ASSUME NEW s \in Seq(Projects), NEW p \in Projects, NEW f \in Seq(Projects), s # <<>>
    PROVE  /\ SubSeq(s, 1, Len(s) - 1) \o <<s[Len(s)]>> \o (<<p>> \o f) = s \o <<p>> \o f
           /\ SubSeq(s, 1, Len(s) - 1) \in Seq(Projects)
           /\ Len(SubSeq(s, 1, Len(s) - 1)) = Len(s) - 1
           /\ s[Len(s)] \in Projects
           /\ <<p>> \o f \in Seq(Projects) /\ Len(<<p>> \o f) = Len(f) + 1
  <1> DEFINE u == SubSeq(s, 1, Len(s) - 1)
             g == <<p>> \o f
             h == s[Len(s)]
  <1>1. Len(s) \in Nat /\ Len(s) > 0 /\ Len(f) \in Nat
    BY LenProperties, EmptySeq
  <1>2. \A i \in 1 .. Len(s) : s[i] \in Projects
    BY ElementOfSeq
  <1>3. /\ u \in Seq(Projects) /\ Len(u) = Len(s) - 1
        /\ \A i \in 1 .. Len(s) - 1 : u[i] = s[i]
    <2>1. \A i \in 1 .. Len(s) - 1 : s[i] \in Projects
      BY <1>1, <1>2
    <2>2. /\ u \in Seq(Projects)
          /\ Len(u) = IF 1 <= Len(s) - 1 THEN Len(s) - 1 - 1 + 1 ELSE 0
          /\ \A i \in 1 .. Len(s) - 1 - 1 + 1 : u[i] = s[1 + i - 1]
      BY <1>1, <2>1, SubSeqProperties
    <2> HIDE DEF u
    <2>3. /\ Len(s) - 1 - 1 + 1 = Len(s) - 1
          /\ 1 <= Len(s) - 1 \/ Len(s) - 1 = 0
      BY <1>1, SMTT(60)
    <2>4. Len(u) = Len(s) - 1
      BY <1>1, <2>2, <2>3
    <2>5. ASSUME NEW i \in 1 .. Len(s) - 1 PROVE u[i] = s[i]
      <3>1. u[i] = s[1 + i - 1]
        BY <2>2, <2>3
      <3> QED
        BY <2>3, <3>1
    <2> QED
      BY <2>2, <2>4, <2>5
  <1>4. h \in Projects
    BY <1>1, <1>2
  <1>5. /\ g \in Seq(Projects) /\ Len(g) = Len(f) + 1
        /\ \A i \in 1 .. Len(f) + 1 : g[i] = IF i = 1 THEN p ELSE f[i - 1]
    <2>1. /\ g \in Seq(Projects) /\ Len(g) = 1 + Len(f)
          /\ \A i \in 1 .. 1 + Len(f) : g[i] = IF i <= 1 THEN <<p>>[i] ELSE f[i - 1]
      BY Single, ConcatProperties
    <2> HIDE DEF g
    <2>2. \A i \in 1 .. 1 + Len(f) : i <= 1 <=> i = 1
      BY <1>1
    <2> QED
      BY <1>1, <2>1, <2>2, Single
  <1> DEFINE r == u \o <<h>> \o g
  <1> HIDE DEF u, g, h
  <1>6. /\ r \in Seq(Projects) /\ Len(r) = Len(u) + 1 + Len(g)
        /\ \A i \in 1 .. Len(u) + 1 + Len(g) : r[i] =
              IF i <= Len(u) THEN u[i]
              ELSE IF i = Len(u) + 1 THEN h ELSE g[i - Len(u) - 1]
    <2>1. u \in Seq(Projects) /\ h \in Projects /\ g \in Seq(Projects)
      BY <1>3, <1>4, <1>5
    <2> QED
      BY <2>1, LogOf
  <1> HIDE DEF r
  <1>7. Len(r) = Len(s) + 1 + Len(f)
    BY <1>1, <1>3, <1>5, <1>6
  <1>8. ASSUME NEW i \in 1 .. Len(s) PROVE r[i] = s[i]
    <2>1. i \in 1 .. Len(u) + 1 + Len(g)
      BY <1>1, <1>3, <1>5
    <2>2. CASE i <= Len(u)
      BY <1>1, <1>3, <1>6, <2>1, <2>2, SMTT(60)
    <2>3. CASE i = Len(s)
      <3>1. i = Len(u) + 1 /\ ~ (i <= Len(u))
        BY <1>1, <1>3, <2>3
      <3> QED
        BY <1>6, <2>1, <2>3, <3>1 DEF h
    <2> QED
      BY <1>1, <1>3, <2>2, <2>3
  <1>9. r[Len(s) + 1] = p
    <2>1. /\ Len(s) + 1 \in 1 .. Len(u) + 1 + Len(g) /\ (Len(s) + 1) - Len(u) - 1 = 1
          /\ ~ (Len(s) + 1 <= Len(u)) /\ Len(s) + 1 # Len(u) + 1
          /\ 1 \in 1 .. Len(f) + 1
      BY <1>1, <1>3, <1>5
    <2>2. r[Len(s) + 1] = g[1]
      BY <1>6, <2>1
    <2> QED
      BY <1>5, <2>1, <2>2
  <1>10. ASSUME NEW i \in 1 .. Len(f) PROVE r[Len(s) + 1 + i] = f[i]
    <2> DEFINE j == Len(s) + 1 + i
    <2>1. /\ j \in 1 .. Len(u) + 1 + Len(g) /\ j - Len(u) - 1 = i + 1
          /\ ~ (j <= Len(u)) /\ j # Len(u) + 1
          /\ i + 1 \in 1 .. Len(f) + 1 /\ i + 1 # 1 /\ (i + 1) - 1 = i
      BY <1>1, <1>3, <1>5
    <2> HIDE DEF j
    <2>2. r[j] = g[i + 1]
      BY <1>6, <2>1
    <2>3. r[j] = f[i]
      BY <1>5, <2>1, <2>2
    <2> QED
      BY <2>3 DEF j
  <1>11. Agrees(s, p, f, r)
    BY <1>7, <1>8, <1>9, <1>10 DEF Agrees
  <1>12. s \o <<p>> \o f = r
    BY <1>6, <1>11, SameLog
  <1> QED
    BY <1>3, <1>4, <1>5, <1>12 DEF r, u, g, h

-----------------------------------------------------------------------------
(* The store.                                                                 *)

\* What every commit does to the types.
LEMMA CommitTypes ==
    ASSUME TypeOK, NEW from \in Projects, NEW p \in Projects, Commit(from, p)
    PROVE  /\ past' \in Seq(Projects) /\ future' \in Seq(Projects) /\ present' \in Projects
           /\ \/ Len(past') + Len(future') <= Limit
              \/ past' = past /\ future' = future
  <1>1. /\ Append(past, from) \in Seq(Projects) /\ <<>> \in Seq(Projects) /\ Len(<<>>) = 0
        /\ Limit \in Nat
    BY AppendProperties, EmptySeq, EditorAssumption DEF TypeOK
  <1>2. /\ Remembered(Append(past, from)) \in Seq(Projects)
        /\ Len(Remembered(Append(past, from))) <= Limit
        /\ Len(Remembered(Append(past, from))) \in Nat
    <2> DEFINE u == Append(past, from)
    <2>1. Remembered(u) \in Seq(Projects) /\ Len(u) \in Nat /\ Len(Remembered(u)) \in Nat
      BY <1>1, RememberedIsTheEnd, LenProperties
    <2>2. Len(Remembered(u)) = IF Len(u) > Limit THEN Limit ELSE Len(u)
      BY <1>1, RememberedIsTheEnd
    <2> HIDE DEF u
    <2>3. Len(Remembered(u)) <= Limit
      BY <1>1, <2>1, <2>2
    <2> QED
      BY <2>1, <2>3 DEF u
  <1>3. CASE p = from
    BY <1>3 DEF Commit, TypeOK
  <1>4. CASE p # from
    <2>1. past' = Remembered(Append(past, from)) /\ future' = <<>> /\ present' = p
      BY <1>4 DEF Commit
    <2>2. Len(past') + Len(future') <= Limit
      BY <1>1, <1>2, <2>1
    <2> QED
      BY <1>1, <1>2, <2>1, <2>2
  <1> QED
    BY <1>3, <1>4

\* The type invariant and the bound of the history, together.
HistoryInv == TypeOK /\ HistoryBounded

\* Every step of the store keeps its types and its bound.
LEMMA StepKeepsHistory ==
    ASSUME HistoryInv, [Next]_vars
    PROVE  HistoryInv'
  <1> USE DEF HistoryInv
  <1>0. /\ TypeOK /\ Len(past) \in Nat /\ Len(future) \in Nat /\ Limit \in Nat /\ Limit > 0
        /\ <<>> \in Seq(Projects) /\ Len(<<>>) = 0 /\ Len(past) + Len(future) <= Limit
    BY EmptySeq, LenProperties, EditorAssumption DEF TypeOK, HistoryBounded
  <1>1. ASSUME NEW p \in Projects, Load(p) PROVE HistoryInv'
    BY <1>0, <1>1 DEF Load, TypeOK, HistoryBounded
  <1>2. ASSUME NEW p \in Projects, NEW key \in EditKeys \cup {NoKey}, Edit(p, key)
        PROVE  HistoryInv'
    <2>1. present \in Projects /\ Commit(present, p) /\ base' = NoProject /\ lastEdit' = key
      BY <1>2 DEF Edit, TypeOK
    <2>2. /\ past' \in Seq(Projects) /\ future' \in Seq(Projects) /\ present' \in Projects
          /\ \/ Len(past') + Len(future') <= Limit
             \/ past' = past /\ future' = future
      BY <1>0, <2>1, CommitTypes
    <2> QED
      BY <1>0, <2>1, <2>2 DEF TypeOK, HistoryBounded
  <1>3. ASSUME NEW p \in Projects, NEW key \in EditKeys \cup {NoKey}, Merge(p, key)
        PROVE  HistoryInv'
    BY <1>0, <1>3 DEF Merge, TypeOK, HistoryBounded
  <1>4. ASSUME NEW p \in Projects, Drag(p) PROVE HistoryInv'
    BY <1>0, <1>4 DEF Drag, TypeOK, HistoryBounded
  <1>5. CASE Lapse
    BY <1>0, <1>5 DEF Lapse, TypeOK, HistoryBounded
  <1>6. CASE EndDrag
    <2>1. /\ base \in Projects /\ present \in Projects
          /\ Commit(base, present) /\ base' = NoProject /\ lastEdit' = lastEdit
      BY <1>6 DEF EndDrag, Dragging, TypeOK
    <2>2. /\ past' \in Seq(Projects) /\ future' \in Seq(Projects) /\ present' \in Projects
          /\ \/ Len(past') + Len(future') <= Limit
             \/ past' = past /\ future' = future
      BY <1>0, <2>1, CommitTypes
    <2> QED
      BY <1>0, <2>1, <2>2 DEF TypeOK, HistoryBounded
  <1>7. CASE Undo
    <2>1. /\ past \in Seq(Projects) /\ present \in Projects /\ future \in Seq(Projects)
          /\ past # <<>>
      BY <1>0, <1>7 DEF Undo, TypeOK
    <2>2. /\ SubSeq(past, 1, Len(past) - 1) \in Seq(Projects)
          /\ Len(SubSeq(past, 1, Len(past) - 1)) = Len(past) - 1
          /\ past[Len(past)] \in Projects
          /\ <<present>> \o future \in Seq(Projects)
          /\ Len(<<present>> \o future) = Len(future) + 1
      BY <2>1, BackLog
    <2>3. /\ present' = past[Len(past)] /\ past' = SubSeq(past, 1, Len(past) - 1)
          /\ future' = <<present>> \o future /\ base' = base /\ lastEdit' = lastEdit
      BY <1>7 DEF Undo
    <2>4. /\ present' \in Projects /\ past' \in Seq(Projects) /\ future' \in Seq(Projects)
          /\ Len(past') = Len(past) - 1 /\ Len(future') = Len(future) + 1
      BY <2>2, <2>3
    <2>5. (Len(past) - 1) + (Len(future) + 1) <= Limit
      BY <1>0
    <2>6. HistoryBounded'
      BY <2>4, <2>5 DEF HistoryBounded
    <2>7. TypeOK'
      BY <1>0, <2>3, <2>4 DEF TypeOK
    <2> QED
      BY <2>6, <2>7
  <1>8. CASE Redo
    <2>1. /\ past \in Seq(Projects) /\ present \in Projects /\ future \in Seq(Projects)
          /\ future # <<>>
      BY <1>0, <1>8 DEF Redo, TypeOK
    <2>2. /\ Append(past, present) \in Seq(Projects)
          /\ Len(Append(past, present)) = Len(past) + 1
          /\ Head(future) \in Projects /\ Tail(future) \in Seq(Projects)
          /\ Len(Tail(future)) = Len(future) - 1
      BY <2>1, ForwardLog, HeadTailProperties
    <2>3. /\ present' = Head(future) /\ past' = Append(past, present)
          /\ future' = Tail(future) /\ base' = base /\ lastEdit' = lastEdit
      BY <1>8 DEF Redo
    <2>4. /\ present' \in Projects /\ past' \in Seq(Projects) /\ future' \in Seq(Projects)
          /\ Len(past') = Len(past) + 1 /\ Len(future') = Len(future) - 1
      BY <2>2, <2>3
    <2>5. Len(future) - 1 \in Int /\ (Len(past) + 1) + (Len(future) - 1) <= Limit
      BY <1>0
    <2>6. HistoryBounded'
      BY <2>4, <2>5 DEF HistoryBounded
    <2>7. TypeOK'
      BY <1>0, <2>3, <2>4 DEF TypeOK
    <2> QED
      BY <2>6, <2>7
  <1>9. CASE UNCHANGED vars
    BY <1>0, <1>9 DEF vars, TypeOK, HistoryBounded
  <1> QED
    BY <1>1, <1>2, <1>3, <1>4, <1>5, <1>6, <1>7, <1>8, <1>9 DEF Next

\* The store keeps its types, and what can be undone and redone together is never more
\* than the limit, also when an edit lands in the middle of a drag: redo does not cut
\* the past, and never has to.
THEOREM HistoryStaysBounded == Spec => [](TypeOK /\ HistoryBounded)
  <1>1. Init => HistoryInv
    BY EmptySeq, EditorAssumption DEF Init, HistoryInv, TypeOK, HistoryBounded
  <1>2. HistoryInv /\ [Next]_vars => HistoryInv'
    BY StepKeepsHistory
  <1> QED
    BY <1>1, <1>2, PTL DEF Spec, HistoryInv

-----------------------------------------------------------------------------
(* The undo log.                                                              *)

\* A commit from the project a person stands on adds one entry to the log, or none.
LEMMA CommitIsAdd ==
    ASSUME TypeOK, NEW p \in Projects, Standing \in Projects, Commit(Standing, p),
           base' = NoProject
    PROVE  [Promise!Next]_<<Log, Len(past) + 1>>
  <1> DEFINE from == Standing
  <1>1. Standing' = p
    BY DEF Standing, Dragging, Commit
  <1>2. CASE p = from
    <2>1. past' = past /\ future' = future /\ Standing' = Standing
      BY <1>1, <1>2 DEF Commit
    <2>2. Log' = Log /\ (Len(past) + 1)' = Len(past) + 1
      BY <2>1 DEF Log
    <2> QED
      BY <2>2
  <1>3. CASE p # from
    <2>1. past' = Remembered(Append(past, from)) /\ future' = <<>>
      BY <1>3 DEF Commit
    <2>2. past \in Seq(Projects) /\ future \in Seq(Projects)
      BY DEF TypeOK
    <2>3. /\ Remembered(Append(past, from)) \o <<p>> \o <<>>
               = Promise!Newest(Append(SubSeq(past \o <<from>> \o future, 1, Len(past) + 1), p))
          /\ Len(Remembered(Append(past, from)) \o <<p>> \o <<>>)
               = Len(Remembered(Append(past, from))) + 1
      BY <2>2, CommitAdds
    <2>4. Log' = Remembered(Append(past, from)) \o <<p>> \o <<>>
      BY <1>1, <2>1 DEF Log
    <2>5. Log = past \o <<from>> \o future
      BY DEF Log
    <2>6. Promise!Add(p)
      BY <2>1, <2>3, <2>4, <2>5 DEF Promise!Add
    <2> QED
      BY <2>6 DEF Promise!Next
  <1> QED
    BY <1>2, <1>3

\* Every step of the store is a step of the undo log, or leaves it alone, as long as
\* nothing but the pointer acts while a drag is under way.
LEMMA StepKeepsPromise ==
    ASSUME Interrupts = FALSE, TypeOK, [Next]_vars
    PROVE  [Promise!Next]_<<Log, Len(past) + 1>>
  <1>0. /\ past \in Seq(Projects) /\ future \in Seq(Projects) /\ present \in Projects
        /\ Standing \in Projects /\ Len(past) \in Nat /\ NoProject \notin Projects
    BY LenProperties, EditorAssumption DEF TypeOK, Standing, Dragging
  <1>1. ASSUME NEW p \in Projects, Load(p)
        PROVE  Promise!Open(p)
    <2>1. past' = <<>> /\ future' = <<>> /\ Standing' = p
      BY <1>1 DEF Load, Standing, Dragging
    <2>2. Log' = <<>> \o <<p>> \o <<>>
      BY <2>1 DEF Log
    <2>3. <<>> \o <<p>> \o <<>> = <<p>>
      BY <1>1, Single, ConcatEmptySeq, EmptySeq
    <2>4. (Len(past) + 1)' = 1
      BY <2>1, EmptySeq
    <2> QED
      BY <2>2, <2>3, <2>4 DEF Promise!Open
  <1>2. ASSUME NEW p \in Projects, NEW key \in EditKeys \cup {NoKey}, Edit(p, key)
        PROVE  [Promise!Next]_<<Log, Len(past) + 1>>
    <2>1. Standing = present /\ Commit(present, p) /\ base' = NoProject
      BY <1>2 DEF Edit, Free, Standing, Dragging
    <2> QED
      BY <1>0, <2>1, CommitIsAdd
  <1>3. ASSUME NEW p \in Projects, NEW key \in EditKeys \cup {NoKey}, Merge(p, key)
        PROVE  Promise!Amend(p)
    <2>1. /\ past' = past /\ future' = future
          /\ Standing' = p
      BY <1>3 DEF Merge, Standing, Dragging
    <2>2. Log' = past \o <<p>> \o future /\ Log = past \o <<Standing>> \o future
      BY <2>1 DEF Log
    <2>3. past \o <<p>> \o future = [past \o <<Standing>> \o future EXCEPT ![Len(past) + 1] = p]
      BY <1>0, <1>3, AmendLog
    <2> QED
      BY <2>1, <2>2, <2>3 DEF Promise!Amend
  <1>4. ASSUME NEW p \in Projects, Drag(p)
        PROVE  UNCHANGED <<Log, Len(past) + 1>>
    <2>1. past' = past /\ future' = future
      BY <1>4 DEF Drag
    <2>2. base' = Standing /\ base' # NoProject
      BY <1>0, <1>4 DEF Drag, Standing, Dragging
    <2>3. Standing' = Standing
      BY <2>2 DEF Standing, Dragging
    <2> QED
      BY <2>1, <2>3 DEF Log
  <1>5. CASE Lapse
    BY <1>5 DEF Lapse, Log, Standing, Dragging
  <1>6. CASE EndDrag
    <2>1. Standing = base /\ Commit(base, present) /\ base' = NoProject
      BY <1>6 DEF EndDrag, Standing, Dragging
    <2> QED
      BY <1>0, <2>1, CommitIsAdd
  <1>7. CASE Undo
    <2>1. /\ past # <<>> /\ present' = past[Len(past)]
          /\ past' = SubSeq(past, 1, Len(past) - 1)
          /\ future' = <<present>> \o future /\ base' = base
          /\ Standing = present /\ Standing' = present'
      BY <1>7 DEF Undo, Free, Standing, Dragging
    <2>2. /\ SubSeq(past, 1, Len(past) - 1) \o <<past[Len(past)]>> \o (<<present>> \o future)
               = past \o <<present>> \o future
          /\ Len(SubSeq(past, 1, Len(past) - 1)) = Len(past) - 1
      BY <1>0, <2>1, BackLog, ZenonT(60)
    <2>3. Log' = Log
      BY <2>1, <2>2 DEF Log
    <2>4. Len(past) > 0
      BY <1>0, <2>1, EmptySeq
    <2>5. (Len(past) + 1)' = Len(past)
      BY <1>0, <2>1, <2>2
    <2>6. Promise!Back
      BY <1>0, <2>3, <2>4, <2>5 DEF Promise!Back
    <2> QED
      BY <2>6 DEF Promise!Next
  <1>8. CASE Redo
    <2>1. /\ future # <<>> /\ present' = Head(future) /\ past' = Append(past, present)
          /\ future' = Tail(future) /\ base' = base
          /\ Standing = present /\ Standing' = present'
      BY <1>8 DEF Redo, Free, Standing, Dragging
    <2>2. /\ Append(past, present) \o <<Head(future)>> \o Tail(future)
               = past \o <<present>> \o future
          /\ Len(Append(past, present)) = Len(past) + 1
      BY <1>0, <2>1, ForwardLog
    <2>3. Log' = Log /\ Log = past \o <<present>> \o future
      BY <2>1, <2>2 DEF Log
    <2>4. Len(Log) = Len(past) + 1 + Len(future) /\ Len(future) > 0
      BY <1>0, <2>1, <2>3, LogOf, EmptySeq
    <2>5. (Len(past) + 1)' = Len(past) + 1 + 1 /\ Len(past) + 1 < Len(Log)
      <3>1. Len(future) \in Nat
        BY <1>0, LenProperties
      <3> QED
        BY <1>0, <2>1, <2>2, <2>4, <3>1
    <2>6. Promise!Forward
      BY <2>3, <2>5 DEF Promise!Forward
    <2> QED
      BY <2>6 DEF Promise!Next
  <1>9. CASE UNCHANGED vars
    BY <1>9 DEF vars, Log, Standing, Dragging
  <1> QED
    BY <1>1, <1>2, <1>3, <1>4, <1>5, <1>6, <1>7, <1>8, <1>9 DEF Next, Promise!Next

\* Edits, merged edits, drags, undo and redo implement the undo log: for any projects,
\* edit keys and limit, every behaviour of the store, in which nothing but the pointer
\* acts during a drag, is one of UndoLog.
THEOREM ImplementsUndoLog ==
    ASSUME Interrupts = FALSE
    PROVE  Spec => KeepsUndoPromise
  <1>1. Init => Promise!Init
    <2> SUFFICES ASSUME Init PROVE Promise!Init
      OBVIOUS
    <2>1. present \in Projects /\ past = <<>> /\ future = <<>> /\ Standing = present
      BY DEF Init, Standing, Dragging
    <2>2. <<>> \o <<present>> \o <<>> = <<present>>
      BY <2>1, Single, ConcatEmptySeq, EmptySeq
    <2>3. Log = <<present>> /\ Len(past) + 1 = 1
      BY <2>1, <2>2, EmptySeq DEF Log
    <2> QED
      BY <2>1, <2>3 DEF Promise!Init
  <1>2. TypeOK /\ [Next]_vars => [Promise!Next]_<<Log, Len(past) + 1>>
    BY StepKeepsPromise
  <1>3. Spec => []TypeOK
    BY HistoryStaysBounded, PTL
  <1> QED
    BY <1>1, <1>2, <1>3, PTL DEF Spec, KeepsUndoPromise, Promise!Spec

-----------------------------------------------------------------------------
(* Saving (save).                                                             *)

\* Before a project is opened there is nothing to save.
NothingOpenYet ==
    save_doc \notin Docs =>
        /\ ~ save_mounted
        /\ \A m \in save!Mounts : ~ save_timer[m] /\ save_flight[m] = NoSave

\* What this page knows of the versions: never more than the server has, and as long as
\* no answer was recorded on another project, at least what the store and a save on its
\* way were made from.
PageHasSeen ==
    /\ \A d \in Docs : save_seen[d] <= save_server[d].version
    /\ save_doc \in Docs /\ ~ save_crossed => save_version <= save_seen[save_doc]

FlightSeen(m) ==
    LET f == save_flight[m]
    IN /\ f.answer = "waiting" /\ ~ save_crossed => f.version <= save_seen[f.doc]
       /\ f.answer = "ok" => f.version < MaxVersion /\ f.version + 1 <= save_seen[f.doc]
FlightsSeen == \A m \in save!Mounts : save_flight[m] # NoSave => FlightSeen(m)

SaveInv ==
    /\ save!TypeOK /\ save!SavedMeansStored /\ save!OverwritesOnlyAfterCrossing
    /\ NothingOpenYet /\ PageHasSeen /\ FlightsSeen

\* It holds when the page is loaded.
LEMMA SaveStarts == ASSUME SaveAssumption, save!Init PROVE SaveInv
<1>1. PICK c \in Contents, t \in Titles \ {Blank} :
          save_server = [d \in Docs |-> [version |-> 1, object |-> <<d, c>>, title |-> t]] /\ save_title = t
      BY DEF save!Init
<1>2. save_server \in [Docs -> save!Row]
      BY <1>1, SaveAssumption DEF save!Row, save!Objects, SaveAssumption
<1>3. save_present \in save!Objects
      BY <1>1 DEF save!Init, save!Objects
<1>4. /\ 1 \in 1 .. MaxVersion /\ 0 \in 0 .. MaxVersion /\ 0 \in 0 .. MaxMounts /\ 0 \in 0 .. MaxChanges
      BY DEF SaveAssumption
<1>5. save!TypeOK
      BY <1>1, <1>2, <1>3, <1>4 DEF save!Init, save!TypeOK, save!Statuses
<1>. QED  BY <1>1, <1>5 DEF SaveAssumption, save!Init, SaveInv, save!SavedMeansStored,
        save!OverwritesOnlyAfterCrossing, NothingOpenYet, PageHasSeen, FlightsSeen

\* A change by the person, on a screen that is open.
LEMMA SaveChangeKeeps ==
    ASSUME SaveAssumption, SaveInv, save!Change,
           save_present' \in save!Objects, save_title' \in Titles, save_dragging' \in BOOLEAN,
           UNCHANGED save_dragging \/ save_dragging' = FALSE,
           \E b \in BOOLEAN : save_timer' = save!Scheduled(b)
    PROVE  SaveInv'
<1>1. /\ UNCHANGED <<save_doc, save_version, save_saved, save_mount, save_mounted, save_flight, save_server,
                     save_seen, save_acked, save_crossed, save_overwrote>>
      /\ save_changes' = save_changes + 1 /\ save_changes < MaxChanges
      /\ save_mounted /\ save_status' = "pending"
      BY DEF save!Change, save!hist
<1>2. save_timer' \in [save!Mounts -> BOOLEAN]
      BY DEF save!Scheduled, SaveInv, save!TypeOK
<1>3. save!TypeOK'
      BY <1>1, <1>2 DEF SaveAssumption, SaveInv, save!TypeOK, save!Statuses
<1>4. save_doc \in Docs
      BY <1>1 DEF SaveInv, NothingOpenYet
<1>5. NothingOpenYet' /\ save!SavedMeansStored' /\ save!OverwritesOnlyAfterCrossing' /\ PageHasSeen'
      BY <1>1, <1>4 DEF SaveInv, NothingOpenYet, save!SavedMeansStored, save!OverwritesOnlyAfterCrossing,
         PageHasSeen
<1>6. FlightsSeen'
      BY <1>1 DEF SaveInv, FlightsSeen, FlightSeen
<1>. QED  BY <1>3, <1>5, <1>6 DEF SaveInv

\* Steps that keep what is known of versions and what is on its way.
LEMMA SaveScreenKeeps ==
    ASSUME SaveAssumption, SaveInv,
           \/ \E o \in save!Of(save_doc) : save!Drag(o)
           \/ save!EndDrag \/ save!Leave \/ UNCHANGED save!vars
    PROVE  SaveInv'
<1>1. UNCHANGED <<save_doc, save_title, save_version, save_saved, save_mount, save_flight, save_server,
                  save_seen, save_acked, save_crossed, save_overwrote>>
  <2>1. ASSUME NEW o \in save!Of(save_doc), save!Drag(o)
        PROVE  UNCHANGED <<save_doc, save_title, save_version, save_saved, save_mount, save_flight, save_server,
                           save_seen, save_acked, save_crossed, save_overwrote>>
        BY <2>1 DEF save!Drag, save!hist
  <2>. QED  BY <2>1 DEF save!EndDrag, save!Leave, save!vars, save!hist, save!store
<1>2. /\ save_present' \in save!Objects /\ save_status' \in save!Statuses /\ save_mounted' \in BOOLEAN
      /\ save_dragging' \in BOOLEAN /\ save_timer' \in [save!Mounts -> BOOLEAN]
      /\ save_changes' \in 0 .. MaxChanges
      /\ (save_mounted' => save_mounted)
      /\ \A m \in save!Mounts : save_timer'[m] => save_timer[m]
      /\ \/ save_dragging' \/ save_status' = "pending"
         \/ UNCHANGED <<save_present, save_status, save_dragging>>
  <2>1. CASE \E o \in save!Of(save_doc) : save!Drag(o)
    <3>1. PICK o \in save!Of(save_doc) : save!Drag(o)  BY <2>1
    <3>2. save_doc \in Docs  BY <3>1 DEF save!Drag, SaveInv, NothingOpenYet
    <3>3. o \in save!Objects  BY <3>2 DEF save!Of, save!Objects
    <3>4. save_changes' \in 0 .. MaxChanges  BY <3>1 DEF save!Drag, SaveInv, save!TypeOK, SaveAssumption
    <3>. QED  BY <3>1, <3>3, <3>4 DEF save!Drag, SaveInv, save!TypeOK
  <2>2. CASE save!EndDrag
        BY <2>2 DEF save!EndDrag, SaveInv, save!TypeOK, save!Statuses
  <2>3. CASE save!Leave
        BY <2>3 DEF save!Leave, save!store, SaveInv, save!TypeOK
  <2>4. CASE UNCHANGED save!vars
        BY <2>4 DEF save!vars, SaveInv, save!TypeOK
  <2>. QED  BY <2>1, <2>2, <2>3, <2>4
<1>3. save!TypeOK'
      BY <1>1, <1>2 DEF SaveInv, save!TypeOK
<1>4. NothingOpenYet' /\ save!SavedMeansStored' /\ save!OverwritesOnlyAfterCrossing' /\ PageHasSeen'
      BY <1>1, <1>2 DEF SaveInv, NothingOpenYet, save!SavedMeansStored, save!OverwritesOnlyAfterCrossing,
         PageHasSeen
<1>5. FlightsSeen'
      BY <1>1 DEF SaveInv, FlightsSeen, FlightSeen
<1>. QED  BY <1>3, <1>4, <1>5 DEF SaveInv

\* A project is opened: what the page has seen of it is what the server has now.
LEMMA SaveEnterKeeps == ASSUME SaveAssumption, SaveInv, NEW d \in Docs, save!Enter(d) PROVE SaveInv'
<1>. USE DEF SaveInv
<1>1. /\ UNCHANGED <<save_timer, save_flight, save_server, save_changes, save_crossed, save_overwrote>>
      /\ save_mount' \in 0 .. MaxMounts /\ save_mounted' = TRUE /\ save_doc' = d
  <2>1. save_mount \in 0 .. MaxMounts /\ save_mount < MaxMounts /\ save_mount' = save_mount + 1
        BY DEF save!Enter, save!TypeOK
  <2>2. save_mount' \in 0 .. MaxMounts
        BY <2>1 DEF SaveAssumption
  <2>. QED  BY <2>2 DEF save!Enter, save!store
<1>2. CASE save_doc = d
  <2>1. UNCHANGED <<save_doc, save_present, save_title, save_version, save_saved, save_status,
                    save_dragging, save_seen, save_acked>>
        BY <1>2 DEF save!Enter, save!store
  <2>2. save!TypeOK'
        BY <1>1, <2>1 DEF save!TypeOK
  <2>3. NothingOpenYet' /\ save!SavedMeansStored' /\ save!OverwritesOnlyAfterCrossing' /\ PageHasSeen'
        BY <1>1, <2>1 DEF NothingOpenYet, save!SavedMeansStored, save!OverwritesOnlyAfterCrossing, PageHasSeen
  <2>4. FlightsSeen'
        BY <1>1, <2>1 DEF FlightsSeen, FlightSeen
  <2>. QED  BY <2>2, <2>3, <2>4
<1>3. CASE save_doc # d
  <2>1. /\ save_present' = save_server[d].object /\ save_saved' = save_server[d].object
        /\ save_title' = save_server[d].title /\ save_version' = save_server[d].version
        /\ save_status' = "saved" /\ save_dragging' = FALSE /\ save_acked' = save_server[d].object
        /\ save_seen' = [save_seen EXCEPT ![d] = save_server[d].version]
        BY <1>3 DEF save!Enter
  <2>2. save_server[d] \in save!Row
        BY DEF save!TypeOK
  <2>3. save_seen' \in [Docs -> 0 .. MaxVersion]
    <3>1. save_server[d].version \in 0 .. MaxVersion  BY <2>2 DEF save!Row
    <3>. QED  BY <2>1, <3>1 DEF save!TypeOK
  <2>4. save!TypeOK'
        BY <1>1, <2>1, <2>2, <2>3 DEF save!TypeOK, save!Row, save!Statuses
  <2>5. \A e \in Docs : save_seen'[e] \in Int /\ save_seen[e] \in Int /\ save_seen[e] <= save_seen'[e]
                        /\ save_seen'[e] <= save_server[e].version
    <3>1. \A e \in Docs : save_seen[e] \in Int /\ save_server[e].version \in Int
          BY DEF save!TypeOK, save!Row
    <3>. QED  BY <2>1, <3>1 DEF PageHasSeen, save!TypeOK
  <2>6. PageHasSeen'
    <3>1. save_version' <= save_seen'[d]
          BY <2>1, <2>2 DEF save!TypeOK, save!Row
    <3>. QED  BY <1>1, <2>5, <3>1 DEF PageHasSeen
  <2>7. FlightsSeen'
    <3>1. ASSUME NEW m \in save!Mounts, save_flight'[m] # NoSave PROVE FlightSeen(m)'
      <4>1. save_flight'[m] = save_flight[m] /\ save_flight[m] \in save!Save /\ FlightSeen(m)
            BY <1>1, <3>1 DEF FlightsSeen, save!TypeOK
      <4>2. save_flight[m].doc \in Docs /\ save_flight[m].version \in Int
            BY <4>1 DEF save!Save
      <4>. QED  BY <1>1, <2>5, <4>1, <4>2 DEF FlightSeen
    <3>. QED  BY <3>1 DEF FlightsSeen
  <2>8. NothingOpenYet' /\ save!SavedMeansStored' /\ save!OverwritesOnlyAfterCrossing'
        BY <1>1, <2>1 DEF NothingOpenYet, save!SavedMeansStored, save!OverwritesOnlyAfterCrossing
  <2>. QED  BY <2>4, <2>6, <2>7, <2>8
<1>. QED  BY <1>2, <1>3

\* A timer runs out: what is sent is the store as it is.
LEMMA SaveFlushKeeps ==
    ASSUME SaveAssumption, SaveInv, NEW m \in save!Mounts, save!Flush(m) PROVE SaveInv'
<1>. USE DEF SaveInv
<1>1. /\ UNCHANGED <<save_doc, save_present, save_title, save_version, save_saved, save_mount, save_mounted,
                     save_dragging, save_server, save_changes, save_seen, save_acked, save_crossed,
                     save_overwrote>>
      /\ save_timer[m] /\ save_timer' = [save_timer EXCEPT ![m] = FALSE]
      BY DEF save!Flush, save!screen, save!hist
<1>2. save_doc \in Docs
      BY <1>1 DEF NothingOpenYet
<1>3. save_timer' \in [save!Mounts -> BOOLEAN]
      BY <1>1 DEF save!TypeOK
<1>4. CASE UNCHANGED <<save_flight, save_status>>
  <2>1. save!TypeOK'  BY <1>1, <1>3, <1>4 DEF save!TypeOK
  <2>2. NothingOpenYet' /\ save!SavedMeansStored' /\ save!OverwritesOnlyAfterCrossing' /\ PageHasSeen'
        BY <1>1, <1>2, <1>4 DEF NothingOpenYet, save!SavedMeansStored, save!OverwritesOnlyAfterCrossing,
           PageHasSeen
  <2>3. FlightsSeen'  BY <1>1, <1>4 DEF FlightsSeen, FlightSeen
  <2>. QED  BY <2>1, <2>2, <2>3
<1>5. ASSUME NEW a \in {"waiting", "error", "none"}, save_status' = "saving",
             save_flight' = [save_flight EXCEPT ![m] =
                 [doc |-> save_doc, object |-> save_present, title |-> save_title, version |-> save_version,
                  answer |-> a]]
      PROVE  SaveInv'
  <2> DEFINE f == [doc |-> save_doc, object |-> save_present, title |-> save_title,
                   version |-> save_version, answer |-> a]
  <2>1. f \in save!Save
        BY <1>2 DEF save!Save, save!TypeOK
  <2>2. save!TypeOK'
        BY <1>1, <1>3, <1>5, <2>1 DEF save!TypeOK, save!Statuses
  <2>3. NothingOpenYet' /\ save!SavedMeansStored' /\ save!OverwritesOnlyAfterCrossing' /\ PageHasSeen'
        BY <1>1, <1>2, <1>5 DEF NothingOpenYet, save!SavedMeansStored, save!OverwritesOnlyAfterCrossing,
           PageHasSeen
  <2>4. f.answer # "ok" /\ f.doc = save_doc /\ f.version = save_version
        OBVIOUS
  <2>5. f.answer = "waiting" /\ ~ save_crossed' => f.version <= save_seen'[f.doc]
        BY <1>1, <1>2, <2>4 DEF PageHasSeen
  <2> HIDE DEF f
  <2>6. save_flight' = [save_flight EXCEPT ![m] = f]
        BY <1>5 DEF f
  <2>7. FlightsSeen'
    <3>1. ASSUME NEW n \in save!Mounts, save_flight'[n] # NoSave PROVE FlightSeen(n)'
      <4>1. CASE n = m
        <5>1. save_flight'[n] = f  BY <2>6, <4>1 DEF save!TypeOK
        <5>. QED  BY <2>4, <2>5, <5>1 DEF FlightSeen
      <4>2. CASE n # m
        <5>1. save_flight'[n] = save_flight[n] /\ FlightSeen(n)
              BY <2>6, <4>2, <3>1 DEF save!TypeOK, FlightsSeen
        <5>. QED  BY <1>1, <5>1 DEF FlightSeen
      <4>. QED  BY <4>1, <4>2
    <3>. QED  BY <3>1 DEF FlightsSeen
  <2>. QED  BY <2>2, <2>3, <2>7
<1>. QED  BY <1>4, <1>5 DEF save!Flush

\* A save that waits gets an answer.
LEMMA SaveAnsweredIs ==
    ASSUME SaveInv, NEW m \in save!Mounts, save_flight[m] # NoSave,
           NEW a \in {"waiting", "ok", "conflict", "error", "none"}
    PROVE  /\ save!Answered(m, a) \in [save!Mounts -> save!Save \cup {NoSave}]
           /\ save_flight[m] \in save!Save
           /\ save!Answered(m, a)[m] \in save!Save
           /\ save!Answered(m, a)[m].answer = a
           /\ save!Answered(m, a)[m].doc = save_flight[m].doc
           /\ save!Answered(m, a)[m].version = save_flight[m].version
           /\ \A n \in save!Mounts \ {m} : save!Answered(m, a)[n] = save_flight[n]
<1>1. save_flight \in [save!Mounts -> save!Save \cup {NoSave}] /\ save_flight[m] \in save!Save
      BY DEF SaveInv, save!TypeOK
<1>2. [save_flight[m] EXCEPT !.answer = a] \in save!Save
      /\ [save_flight[m] EXCEPT !.answer = a].answer = a
      /\ [save_flight[m] EXCEPT !.answer = a].doc = save_flight[m].doc
      /\ [save_flight[m] EXCEPT !.answer = a].version = save_flight[m].version
      BY <1>1 DEF save!Save
<1>. QED  BY <1>1, <1>2 DEF save!Answered

\* A save that is refused, or lost, changes nothing that is stored.
LEMMA SaveNotStoredKeeps ==
    ASSUME SaveAssumption, SaveInv, NEW m \in save!Mounts, NEW a \in {"conflict", "error", "none"},
           save_flight[m] # NoSave, save_flight' = save!Answered(m, a),
           UNCHANGED <<save_doc, save_present, save_title, save_version, save_saved, save_status,
                       save_mount, save_mounted, save_dragging, save_timer, save_server, save_changes,
                       save_seen, save_acked, save_crossed, save_overwrote>>
    PROVE  SaveInv'
<1>1. save!TypeOK'
      BY SaveAnsweredIs DEF SaveInv, save!TypeOK
<1>2. save_doc \in Docs
      BY DEF SaveInv, NothingOpenYet
<1>3. NothingOpenYet' /\ save!SavedMeansStored' /\ save!OverwritesOnlyAfterCrossing' /\ PageHasSeen'
      BY <1>2 DEF SaveInv, NothingOpenYet, save!SavedMeansStored, save!OverwritesOnlyAfterCrossing,
         PageHasSeen
<1>4. FlightsSeen'
  <2>1. ASSUME NEW n \in save!Mounts, save_flight'[n] # NoSave PROVE FlightSeen(n)'
    <3>1. CASE n = m
          BY <3>1, SaveAnsweredIs DEF FlightSeen
    <3>2. CASE n # m
          BY <3>2, <2>1, SaveAnsweredIs DEF FlightSeen, SaveInv, FlightsSeen
    <3>. QED  BY <3>1, <3>2
  <2>. QED  BY <2>1 DEF FlightsSeen
<1>. QED  BY <1>1, <1>3, <1>4 DEF SaveInv

\* The server stores what was made from the version it has.
LEMMA SaveStoreKeeps ==
    ASSUME SaveAssumption, SaveInv, NEW m \in save!Mounts, save!Store(m) PROVE SaveInv'
<1> DEFINE f == save_flight[m]
           r == save_server[f.doc]
<1>1. /\ UNCHANGED <<save_doc, save_present, save_title, save_version, save_saved, save_status,
                     save_mount, save_mounted, save_dragging, save_timer, save_changes, save_acked,
                     save_crossed>>
      /\ f # NoSave /\ f.answer = "waiting"
      BY DEF save!Store, save!store, save!screen
<1>2. f \in save!Save /\ f.doc \in Docs /\ f.version \in 1 .. MaxVersion /\ f.object \in save!Objects
      /\ f.title \in Titles
      BY <1>1 DEF SaveInv, save!TypeOK, save!Save
<1>3. r \in save!Row /\ r.version \in 1 .. MaxVersion
      BY <1>2 DEF SaveInv, save!TypeOK, save!Row
<1>4. CASE f.version # r.version
  <2>1. PICK a \in {"conflict", "error", "none"} :
            save_flight' = save!Answered(m, a) /\ UNCHANGED <<save_server, save_overwrote, save_seen>>
        BY <1>4 DEF save!Store
  <2>. QED  BY <1>1, <2>1, SaveNotStoredKeeps
<1>5. CASE f.version = r.version
  <2> DEFINE v == r.version + 1
             nr == [version |-> v, object |-> f.object, title |-> f.title]
  <2>1. /\ r.version < MaxVersion
        /\ save_server' = [save_server EXCEPT ![f.doc] = nr]
        /\ \E a \in {"ok", "error", "none"} : save_flight' = save!Answered(m, a)
        /\ save_overwrote' = (save_overwrote \/ save_seen[f.doc] < r.version)
        /\ save_seen' = [save_seen EXCEPT ![f.doc] = v]
        BY <1>5 DEF save!Store
  <2>2. PICK a \in {"ok", "error", "none"} : save_flight' = save!Answered(m, a)
        BY <2>1
  <2>3. v \in 1 .. MaxVersion /\ v \in 0 .. MaxVersion /\ nr \in save!Row /\ nr.version = v
        BY <1>2, <1>3, <2>1 DEF SaveAssumption, save!Row
  <2> HIDE DEF nr
  <2>4. save_server' \in [Docs -> save!Row] /\ save_seen' \in [Docs -> 0 .. MaxVersion]
        BY <2>1, <2>3 DEF SaveInv, save!TypeOK
  <2>5. save!TypeOK'
    <3>1. save_flight' \in [save!Mounts -> save!Save \cup {NoSave}]
          BY <1>1, <2>2, SaveAnsweredIs
    <3>2. save_overwrote' \in BOOLEAN  BY <2>1
    <3>. QED  BY <1>1, <2>4, <3>1, <3>2 DEF SaveInv, save!TypeOK
  <2>6. \A d \in Docs : save_seen[d] \in Int /\ save_server[d].version \in Int
                        /\ save_seen[d] <= save_server[d].version
        BY DEF SaveInv, save!TypeOK, save!Row, PageHasSeen
  <2>7. /\ save_seen'[f.doc] = v /\ save_server'[f.doc] = nr
        /\ \A d \in Docs : d # f.doc => save_seen'[d] = save_seen[d] /\ save_server'[d] = save_server[d]
        BY <1>2, <2>1 DEF SaveInv, save!TypeOK
  <2>8. v \in Int /\ r.version \in Int /\ v = r.version + 1
        BY <1>3
  <2>9. save_doc \in Docs
        BY <1>1 DEF SaveInv, NothingOpenYet
  <2>10. \A d \in Docs : save_seen'[d] \in Int /\ save_seen[d] <= save_seen'[d]
                         /\ save_seen'[d] <= save_server'[d].version
    <3>1. ASSUME NEW d \in Docs, d = f.doc
          PROVE  save_seen'[d] \in Int /\ save_seen[d] <= save_seen'[d] /\ save_seen'[d] <= save_server'[d].version
      <4>1. save_seen[d] <= r.version /\ save_seen[d] \in Int  BY <2>6, <3>1
      <4>2. save_seen'[d] = v /\ save_server'[d].version = v  BY <2>3, <2>7, <3>1
      <4> HIDE DEF v, r
      <4>. QED  BY <2>8, <4>1, <4>2
    <3>2. ASSUME NEW d \in Docs, d # f.doc
          PROVE  save_seen'[d] \in Int /\ save_seen[d] <= save_seen'[d] /\ save_seen'[d] <= save_server'[d].version
          BY <2>6, <2>7, <3>2
    <3>. QED  BY <3>1, <3>2
  <2>11. PageHasSeen'
    <3>1. save_doc' \in Docs /\ ~ save_crossed' => save_version' <= save_seen'[save_doc']
      <4>1. ~ save_crossed => save_version <= save_seen[save_doc]
            BY <2>9 DEF SaveInv, PageHasSeen
      <4>2. save_version \in Int  BY DEF SaveInv, save!TypeOK
      <4>. QED  BY <1>1, <2>6, <2>9, <2>10, <4>1, <4>2
    <3>. QED  BY <2>10, <3>1 DEF PageHasSeen
  <2>12. FlightsSeen'
    <3>1. ASSUME NEW n \in save!Mounts, save_flight'[n] # NoSave PROVE FlightSeen(n)'
      <4>1. CASE n = m
        <5>1. save_flight'[n].doc = f.doc /\ save_flight'[n].version = f.version
              /\ save_flight'[n].answer # "waiting"
              BY <1>1, <2>2, <4>1, SaveAnsweredIs
        <5>. QED  BY <1>5, <2>1, <2>7, <2>8, <5>1 DEF FlightSeen
      <4>2. CASE n # m
        <5>1. save_flight'[n] = save_flight[n] /\ FlightSeen(n) /\ save_flight[n] \in save!Save
              BY <1>1, <2>2, <3>1, <4>2, SaveAnsweredIs DEF SaveInv, FlightsSeen, save!TypeOK
        <5>2. save_flight[n].doc \in Docs /\ save_flight[n].version \in Int
              BY <5>1 DEF save!Save
        <5>. QED  BY <1>1, <2>6, <2>10, <5>1, <5>2 DEF FlightSeen
      <4>. QED  BY <4>1, <4>2
    <3>. QED  BY <3>1 DEF FlightsSeen
  <2>13. save!OverwritesOnlyAfterCrossing'
    <3>1. ~ save_crossed => f.version <= save_seen[f.doc]
          BY <1>1 DEF SaveInv, FlightsSeen, FlightSeen
    <3>2. ~ save_crossed => ~ (save_seen[f.doc] < r.version)
          BY <1>2, <1>3, <1>5, <2>6, <3>1
    <3>. QED  BY <1>1, <2>1, <3>2 DEF SaveInv, save!OverwritesOnlyAfterCrossing
  <2>14. NothingOpenYet' /\ save!SavedMeansStored'
        BY <1>1, <2>9 DEF SaveInv, NothingOpenYet, save!SavedMeansStored
  <2>. QED  BY <2>5, <2>11, <2>12, <2>13, <2>14 DEF SaveInv
<1>. QED  BY <1>4, <1>5

\* The answer is recorded, on whatever project the store holds by then.
LEMMA SaveAnswerKeeps ==
    ASSUME SaveAssumption, SaveInv, NEW m \in save!Mounts, save!Answer(m) PROVE SaveInv'
<1> DEFINE f == save_flight[m]
<1>1. /\ UNCHANGED <<save_doc, save_present, save_title, save_mount, save_mounted, save_dragging,
                     save_server, save_changes, save_seen, save_overwrote>>
      /\ f # NoSave /\ f.answer \notin {"waiting", "none"} /\ save_flight' = [save_flight EXCEPT ![m] = NoSave]
      BY DEF save!Answer, save!screen
<1>2. f \in save!Save /\ f.doc \in Docs /\ f.version \in 1 .. MaxVersion /\ f.object \in save!Objects
      /\ f.answer \in {"ok", "conflict", "error"}
      BY <1>1 DEF SaveInv, save!TypeOK, save!Save
<1>3. save_doc \in Docs
      BY <1>1 DEF SaveInv, NothingOpenYet
<1>4. save_flight' \in [save!Mounts -> save!Save \cup {NoSave}]
      /\ \A n \in save!Mounts : save_flight'[n] # NoSave => save_flight'[n] = save_flight[n]
      BY <1>1 DEF SaveInv, save!TypeOK
<1>5. /\ save_saved' \in save!Objects /\ save_version' \in 1 .. MaxVersion
      /\ save_status' \in save!Statuses /\ save_timer' \in [save!Mounts -> BOOLEAN]
      /\ save_acked' \in save!Objects /\ save_crossed' \in BOOLEAN
      /\ (save_crossed => save_crossed')
      /\ save_status' = "saved" => save_present = f.object /\ f.answer = "ok"
      /\ f.answer = "ok" => save_version' = f.version + 1 /\ save_crossed' = (save_crossed \/ save_doc # f.doc)
                            /\ save_acked' = IF save_doc = f.doc THEN f.object ELSE save_acked
      /\ f.answer # "ok" => UNCHANGED <<save_version, save_crossed>>
  <2>1. CASE f.answer = "ok"
    <3>1. /\ save_saved' = f.object /\ save_version' = f.version + 1
          /\ save_status' = (IF save_present = f.object THEN "saved" ELSE "pending")
          /\ save_timer' = (IF save_present # f.object THEN [save_timer EXCEPT ![m] = TRUE] ELSE save_timer)
          /\ save_acked' = (IF save_doc = f.doc THEN f.object ELSE save_acked)
          /\ save_crossed' = (save_crossed \/ save_doc # f.doc)
          BY <2>1 DEF save!Answer
    <3>2. f.version < MaxVersion
          BY <1>1, <2>1 DEF SaveInv, FlightsSeen, FlightSeen
    <3>3. save_version' \in 1 .. MaxVersion
          BY <1>2, <3>1, <3>2 DEF SaveAssumption
    <3>. QED  BY <1>2, <2>1, <3>1, <3>3 DEF SaveInv, save!TypeOK, save!Statuses
  <2>2. CASE f.answer # "ok"
    <3>1. save_status' = f.answer /\ UNCHANGED <<save_saved, save_version, save_timer, save_acked,
                                                 save_crossed>>
          BY <2>2 DEF save!Answer
    <3>. QED  BY <1>2, <2>2, <3>1 DEF SaveInv, save!TypeOK, save!Statuses
  <2>. QED  BY <2>1, <2>2
<1> HIDE DEF f
<1>6. save!TypeOK'
      BY <1>1, <1>4, <1>5 DEF SaveInv, save!TypeOK
<1>7. save!SavedMeansStored'
      BY <1>1, <1>5 DEF save!SavedMeansStored
<1>8. NothingOpenYet' /\ save!OverwritesOnlyAfterCrossing'
      BY <1>1, <1>3, <1>5 DEF SaveInv, NothingOpenYet, save!OverwritesOnlyAfterCrossing
<1>9. PageHasSeen'
  <2>1. f.answer = "ok" => f.version + 1 <= save_seen[f.doc]
        BY <1>1 DEF f, SaveInv, FlightsSeen, FlightSeen
  <2>2. ~ save_crossed' => save_version' <= save_seen[save_doc]
        BY <1>3, <1>5, <2>1 DEF SaveInv, PageHasSeen
  <2>. QED  BY <1>1, <2>2 DEF SaveInv, PageHasSeen
<1>10. FlightsSeen'
  <2>1. ASSUME NEW n \in save!Mounts, save_flight'[n] # NoSave PROVE FlightSeen(n)'
    <3>1. save_flight'[n] = save_flight[n] /\ FlightSeen(n)
          BY <1>4, <2>1 DEF SaveInv, FlightsSeen
    <3>. QED  BY <1>1, <1>5, <3>1 DEF FlightSeen
  <2>. QED  BY <2>1 DEF FlightsSeen
<1>. QED  BY <1>6, <1>7, <1>8, <1>9, <1>10 DEF SaveInv

\* Another tab makes a version this page has not seen.
LEMMA SaveOtherTabKeeps ==
    ASSUME SaveAssumption, SaveInv, NEW d \in Docs, NEW o \in save!Of(d), save!OtherTab(d, o) PROVE SaveInv'
<1> DEFINE r == save_server[d]
           nr == [r EXCEPT !.version = @ + 1, !.object = o]
<1>1. UNCHANGED <<save_doc, save_present, save_title, save_version, save_saved, save_status,
                  save_mount, save_mounted, save_dragging, save_timer, save_flight, save_changes,
                  save_seen, save_acked, save_crossed, save_overwrote>>
      /\ r.version < MaxVersion
      BY DEF save!OtherTab, save!store, save!screen, save!hist
<1>2. r \in save!Row /\ r.version \in 1 .. MaxVersion
      BY DEF SaveInv, save!TypeOK, save!Row
<1>3. o \in save!Objects
      BY DEF save!Of, save!Objects
<1>4. nr \in save!Row /\ nr.version = r.version + 1
  <2>1. r.version + 1 \in 1 .. MaxVersion  BY <1>1, <1>2 DEF SaveAssumption
  <2> HIDE DEF r
  <2>. QED  BY <1>2, <1>3, <2>1 DEF save!Row
<1>5. save_server' = [save_server EXCEPT ![d] = nr]
      BY DEF save!OtherTab, SaveInv, save!TypeOK
<1> HIDE DEF nr
<1>6. save!TypeOK'
      BY <1>1, <1>4, <1>5 DEF SaveInv, save!TypeOK
<1>7. PageHasSeen'
  <2>1. ASSUME NEW e \in Docs PROVE save_seen[e] <= save_server'[e].version
    <3>1. save_seen[e] <= save_server[e].version /\ save_seen[e] \in Int /\ save_server[e].version \in Int
          BY DEF SaveInv, PageHasSeen, save!TypeOK, save!Row
    <3>. QED  BY <1>4, <1>5, <3>1 DEF SaveInv, save!TypeOK
  <2>. QED  BY <1>1, <2>1 DEF SaveInv, PageHasSeen
<1>8. NothingOpenYet' /\ save!SavedMeansStored' /\ save!OverwritesOnlyAfterCrossing'
      BY <1>1 DEF SaveInv, NothingOpenYet, save!SavedMeansStored, save!OverwritesOnlyAfterCrossing
<1>9. FlightsSeen'
      BY <1>1 DEF SaveInv, FlightsSeen, FlightSeen
<1>. QED  BY <1>6, <1>7, <1>8, <1>9 DEF SaveInv

\* Every step of the studio, the server and the other tab.
LEMMA SaveKeeps == ASSUME SaveAssumption, SaveInv, [save!Next]_(save!vars) PROVE SaveInv'
<1>1. ASSUME NEW o \in save!Of(save_doc), save!Edit(o) \/ save!UndoRedo(o) PROVE SaveInv'
  <2>1. save!Change  BY <1>1 DEF save!Edit, save!UndoRedo
  <2>2. save_doc \in Docs  BY <2>1 DEF save!Change, SaveInv, NothingOpenYet
  <2>3. save_present' \in save!Objects /\ save_title' \in Titles
        BY <1>1, <2>2 DEF save!Edit, save!UndoRedo, save!Of, save!Objects, SaveInv, save!TypeOK
  <2>4. save_dragging' \in BOOLEAN /\ (UNCHANGED save_dragging \/ save_dragging' = FALSE)
        BY <1>1 DEF save!Edit, save!UndoRedo, SaveInv, save!TypeOK
  <2>5. \E b \in BOOLEAN : save_timer' = save!Scheduled(b)
        BY <1>1 DEF save!Edit, save!UndoRedo
  <2>. QED  BY <2>1, <2>3, <2>4, <2>5, SaveChangeKeeps
<1>2. ASSUME NEW t \in Titles, save!SetTitle(t) PROVE SaveInv'
  <2>1. save!Change  BY <1>2 DEF save!SetTitle
  <2>2. save_present' \in save!Objects /\ save_title' \in Titles
        /\ save_dragging' \in BOOLEAN /\ UNCHANGED save_dragging
        BY <1>2 DEF save!SetTitle, SaveInv, save!TypeOK
  <2>3. \E b \in BOOLEAN : save_timer' = save!Scheduled(b)
        BY <1>2 DEF save!SetTitle
  <2>. QED  BY <2>1, <2>2, <2>3, SaveChangeKeeps
<1>3. ASSUME NEW m \in save!Mounts, save!NotStored(m) PROVE SaveInv'
      BY <1>3, SaveNotStoredKeeps DEF save!NotStored, save!store, save!screen, save!hist
<1>. QED  BY <1>1, <1>2, <1>3, SaveScreenKeeps, SaveEnterKeeps, SaveFlushKeeps, SaveStoreKeeps,
             SaveAnswerKeeps, SaveOtherTabKeeps DEF save!Next

\* useAutosave, the store and the server's check of versions: "saved" is shown only when
\* what is on screen is what the server last gave or acknowledged, and a save replaces no
\* version this page has not seen, until an answer is recorded on another project.
THEOREM SavedIsStored ==
    ASSUME SaveAssumption
    PROVE  save!Spec => [](save!TypeOK /\ save!SavedMeansStored /\ save!OverwritesOnlyAfterCrossing)
<1>1. save!Init => SaveInv  BY SaveStarts
<1>2. SaveInv /\ [save!Next]_(save!vars) => SaveInv'  BY SaveKeeps
<1>. QED  BY <1>1, <1>2, PTL DEF save!Spec, SaveInv

-----------------------------------------------------------------------------
(* Sending out (send).                                                        *)

\* What is under way has a place to go to, a key after its own, and frames to draw.
SendHasPlace ==
    /\ send_form = "library" => send_chosen \in Targets
    /\ send!Busy => send_to \in Targets \cup {File}
    /\ send_form = "library" /\ send!Busy => send_to \in Targets
    /\ send_phase \in {"uploading", "posting"} => send_to \in Targets
    /\ send_form = "export" /\ send!Busy => send_key < MaxKeys
    /\ send_phase = "rendering" => send_frames < MaxFrames

\* What is always true of the forms.
SendInv == send!TypeOK /\ SendHasPlace /\ send!AtMostOneUntold

\* It holds when the form is opened.
LEMMA SendStarts == ASSUME SendAssumption, send!Init PROVE SendInv
<1>1. 1 \in send!Keys /\ 0 \in 0 .. MaxFrames  BY DEF SendAssumption, send!Keys
<1>2. send!TypeOK  BY <1>1 DEF send!Init, send!TypeOK, send!Phases
<1>. QED  BY <1>2 DEF send!Init, SendInv, SendHasPlace, send!Busy, send!UnderWay,
                        send!AtMostOneUntold

\* Steps that post nothing and draw no key.
LEMMA SendWaits ==
    ASSUME SendInv, UNCHANGED <<send_form, send_key, send_posts, send_told>>,
           send_opened' \in BOOLEAN, send_chosen' \in Targets \cup {File},
           send_form = "library" => send_chosen' \in Targets,
           send_phase' \in send!Phases, send_frames' \in 0 .. MaxFrames, send_aborted' \in BOOLEAN,
           send_to' \in Targets \cup {File, send!Nowhere}, send_answer' \in {"none", "ok", "refused"},
           send_files' \in BOOLEAN,
           send!Busy' => send_to' \in Targets \cup {File},
           send_form = "library" /\ send!Busy' => send_to' \in Targets,
           send_phase' \in {"uploading", "posting"} => send_to' \in Targets,
           send_form = "export" /\ send!Busy' => send_key < MaxKeys,
           send_phase' = "rendering" => send_frames' < MaxFrames
    PROVE  SendInv'
<1>1. send!TypeOK'  BY DEF SendInv, send!TypeOK
<1>2. SendHasPlace' /\ send!AtMostOneUntold'  BY DEF SendInv, SendHasPlace, send!AtMostOneUntold
<1>. QED  BY <1>1, <1>2 DEF SendInv

\* The person at the form, and a wait that is never over.
LEMMA SendFormKeeps ==
    ASSUME SendAssumption, SendInv,
           \/ \E d \in send!Destinations : send!Choose(d)
           \/ send!Open \/ send!Close \/ send!Submit \/ send!Stall \/ send!Cancel
    PROVE  SendInv'
<1>. USE DEF SendInv, send!TypeOK, SendHasPlace
<1>1. ASSUME NEW d \in send!Destinations, send!Choose(d) PROVE SendInv'
  <2>1. d \in Targets \cup {File} /\ (send_form = "library" => d \in Targets)
        BY DEF send!Destinations
  <2>2. UNCHANGED <<send_form, send_opened, send_phase, send_frames, send_aborted, send_to, send_key,
                    send_posts,
                    send_answer, send_files, send_told>> /\ send_chosen' = d
        BY <1>1 DEF send!Choose
  <2>3. send!Busy' = send!Busy  BY <2>2 DEF send!Busy, send!UnderWay
  <2>. QED  BY <2>1, <2>2, <2>3, SendWaits
<1>2. CASE send!Open
  <2>1. UNCHANGED <<send_form, send_chosen, send_phase, send_frames, send_aborted, send_to, send_posts,
                    send_answer,
                    send_files, send_told>> /\ send_opened' = TRUE
        BY <1>2 DEF send!Open
  <2>2. send!Busy' = send!Busy  BY <2>1 DEF send!Busy, send!UnderWay
  <2>3. CASE send_form # "library"
    <3>1. UNCHANGED send_key  BY <1>2, <2>3 DEF send!Open
    <3>. QED  BY <2>1, <2>2, <3>1, SendWaits
  <2>4. CASE send_form = "library"
    <3>1. send_key < MaxKeys /\ send_key' = send_key + 1  BY <1>2, <2>4 DEF send!Open
    <3>2. send_key' \in send!Keys  BY <3>1 DEF send!Keys, SendAssumption
    <3>3. send!TypeOK'  BY <2>1, <3>2
    <3>4. SendHasPlace'  BY <2>1, <2>2, <2>4
    <3>5. send!AtMostOneUntold'  BY <2>1, <2>4 DEF send!AtMostOneUntold
    <3>. QED  BY <3>3, <3>4, <3>5
  <2>. QED  BY <2>3, <2>4
<1>3. CASE send!Close
  <2>1. /\ UNCHANGED <<send_form, send_chosen, send_frames, send_aborted, send_to, send_key, send_files,
                       send_told>>
        /\ send_opened' = FALSE /\ send_phase' = "idle" /\ send_answer' = "none"
        /\ send_form = "export" => ~ send!Busy
        /\ send_posts' \in IF send_phase \in {"posting", "stalled"} THEN {send_posts, send!Taken}
                            ELSE {send_posts}
        BY <1>3 DEF send!Close
  <2>2. ~ send!Busy'  BY <2>1 DEF send!Busy, send!UnderWay
  <2>3. CASE send_posts' = send_posts
        BY <2>1, <2>2, <2>3, SendWaits DEF send!Phases
  <2>4. CASE send_posts' = send!Taken /\ send_phase \in {"posting", "stalled"}
    <3>1. send!Busy  BY <2>4 DEF send!Busy, send!UnderWay
    <3>2. send_form = "library" /\ send_to \in Targets  BY <2>1, <3>1
    <3>3. send_posts' \in [send!Keys -> Targets \cup {send!Nowhere}]
          BY <2>4, <3>2 DEF send!Taken
    <3>4. send!TypeOK'  BY <2>1, <3>3 DEF send!Phases
    <3>5. SendHasPlace'  BY <2>1, <2>2
    <3>6. send!AtMostOneUntold'  BY <2>1, <3>2 DEF send!AtMostOneUntold
    <3>. QED  BY <3>4, <3>5, <3>6
  <2>5. send_posts' = send_posts \/ (send_posts' = send!Taken /\ send_phase \in {"posting", "stalled"})
    <3> HIDE DEF send!Taken
    <3>. QED  BY <2>1
  <2>. QED  BY <2>3, <2>4, <2>5
<1>4. CASE send!Submit
  <2>1. /\ UNCHANGED <<send_form, send_opened, send_chosen, send_key, send_posts, send_files, send_told>>
        /\ send_to' = send_chosen /\ send_aborted' = FALSE /\ send_frames' = 0 /\ send_answer' = "none"
        /\ send_phase' = (IF send_form = "export" THEN "rendering" ELSE "posting")
        /\ send_form = "export" => send_key < MaxKeys
        BY <1>4 DEF send!Submit
  <2>2. send_frames' \in 0 .. MaxFrames /\ send_frames' < MaxFrames  BY <2>1 DEF SendAssumption
  <2>3. send_phase' \in send!Phases  BY <2>1 DEF send!Phases
  <2>. QED  BY <2>1, <2>2, <2>3, SendWaits
<1>5. CASE send!Cancel
  <2>1. UNCHANGED <<send_form, send_opened, send_chosen, send_phase, send_frames, send_to, send_key, send_posts,
                    send_answer, send_files, send_told>> /\ send_aborted' = TRUE
        BY <1>5 DEF send!Cancel
  <2>2. send!Busy' = send!Busy  BY <2>1 DEF send!Busy, send!UnderWay
  <2>. QED  BY <2>1, <2>2, SendWaits
<1>6. CASE send!Stall
  <2>1. /\ UNCHANGED <<send_form, send_opened, send_chosen, send_frames, send_aborted, send_to, send_key,
                       send_posts, send_answer, send_files, send_told>>
        /\ send!UnderWay /\ send_phase' = "stalled"
        BY <1>6 DEF send!Stall
  <2>2. send!Busy  BY <2>1 DEF send!Busy
  <2>3. send_phase' \in send!Phases  BY <2>1 DEF send!Phases
  <2>. QED  BY <2>1, <2>2, <2>3, SendWaits
<1>. QED  BY <1>1, <1>2, <1>3, <1>4, <1>5, <1>6

\* Drawing, uploading and posting.
LEMMA SendWorkKeeps == ASSUME SendAssumption, SendInv, send!Work PROVE SendInv'
<1>. USE DEF SendInv, send!TypeOK, SendHasPlace
<1>1. CASE send!Failed
  <2>1. UNCHANGED <<send_form, send_opened, send_chosen, send_frames, send_aborted, send_to, send_key,
                    send_posts,
                    send_answer, send_files, send_told>> /\ send_phase' = "failed"
        BY <1>1 DEF send!Failed
  <2>2. ~ send!Busy' /\ send_phase' \in send!Phases  BY <2>1 DEF send!Busy, send!UnderWay, send!Phases
  <2>. QED  BY <2>1, <2>2, SendWaits
<1>2. CASE send!Frame
  <2>1. UNCHANGED <<send_form, send_opened, send_chosen, send_aborted, send_to, send_key, send_posts,
                    send_answer,
                    send_files, send_told>> /\ send_phase = "rendering"
        BY <1>2 DEF send!Frame
  <2>2. send!Busy  BY <2>1 DEF send!Busy, send!UnderWay
  <2>3. CASE send_phase' = "idle" /\ UNCHANGED send_frames
    <3>1. ~ send!Busy' /\ send_phase' \in send!Phases  BY <2>3 DEF send!Busy, send!UnderWay, send!Phases
    <3>. QED  BY <2>1, <2>3, <3>1, SendWaits
  <2>4. CASE /\ send_frames' = send_frames + 1
             /\ send_phase' = (IF send_frames' = MaxFrames THEN "finishing" ELSE send_phase)
    <3>1. send_frames < MaxFrames  BY <2>1
    <3>2. send_frames' \in 0 .. MaxFrames /\ (send_frames' # MaxFrames => send_frames' < MaxFrames)
          BY <2>4, <3>1 DEF SendAssumption
    <3>3. send_phase' \in {"rendering", "finishing"} /\ send_phase' \in send!Phases
          BY <2>1, <2>4 DEF send!Phases
    <3>4. send_phase' = "rendering" => send_frames' < MaxFrames
          BY <2>4, <3>2
    <3>. QED  BY <2>1, <2>2, <3>2, <3>3, <3>4, SendWaits
  <2>. QED  BY <1>2, <2>3, <2>4 DEF send!Frame
<1>3. CASE send!Finalized
  <2>1. UNCHANGED <<send_form, send_opened, send_chosen, send_frames, send_aborted, send_to, send_key,
                    send_posts,
                    send_answer, send_told>> /\ send_phase = "finishing"
        BY <1>3 DEF send!Finalized
  <2>2. send!Busy  BY <2>1 DEF send!Busy, send!UnderWay
  <2>3. CASE send_to = File
    <3>1. send_files' = TRUE /\ send_phase' = "done"  BY <1>3, <2>3 DEF send!Finalized
    <3>2. ~ send!Busy' /\ send_phase' \in send!Phases  BY <3>1 DEF send!Busy, send!UnderWay, send!Phases
    <3>. QED  BY <2>1, <3>1, <3>2, SendWaits
  <2>4. CASE send_to # File
    <3>1. send_phase' = "uploading" /\ UNCHANGED send_files  BY <1>3, <2>4 DEF send!Finalized
    <3>2. send_phase' \in send!Phases  BY <3>1 DEF send!Phases
    <3>. QED  BY <2>1, <2>2, <2>4, <3>1, <3>2, SendWaits
  <2>. QED  BY <2>3, <2>4
<1>4. CASE send!Uploaded
  <2>1. UNCHANGED <<send_form, send_opened, send_chosen, send_frames, send_aborted, send_to, send_key,
                    send_posts,
                    send_answer, send_files, send_told>> /\ send_phase = "uploading" /\ send_phase' = "posting"
        BY <1>4 DEF send!Uploaded
  <2>2. send!Busy /\ send_phase' \in send!Phases  BY <2>1 DEF send!Busy, send!UnderWay, send!Phases
  <2>. QED  BY <2>1, <2>2, SendWaits
<1>5. CASE send!Accept
  <2>1. /\ UNCHANGED <<send_form, send_opened, send_chosen, send_phase, send_frames, send_aborted, send_to,
                       send_key,
                       send_files, send_told>>
        /\ send_phase = "posting" /\ send_answer' \in {"ok", "refused"}
        /\ send_posts' = send_posts \/ send_posts' = [send_posts EXCEPT ![send_key] = send_to]
        BY <1>5 DEF send!Accept, send!Taken
  <2>2. send!Busy' = send!Busy  BY <2>1 DEF send!Busy, send!UnderWay
  <2>3. send_posts' \in [send!Keys -> Targets \cup {send!Nowhere}]
        /\ \A k \in send!Keys : k # send_key => send_posts'[k] = send_posts[k]
        BY <2>1
  <2>4. send!AtMostOneUntold'  BY <2>1, <2>3 DEF send!AtMostOneUntold
  <2>5. send!TypeOK'  BY <2>1, <2>3
  <2>. QED  BY <2>1, <2>2, <2>4, <2>5
<1>6. CASE send!Answered
  <2>1. /\ UNCHANGED <<send_form, send_opened, send_chosen, send_frames, send_aborted, send_to, send_posts,
                       send_files>>
        /\ send_phase = "posting" /\ send_answer' = "none"
        BY <1>6 DEF send!Answered
  <2>2. send!Busy  BY <2>1 DEF send!Busy, send!UnderWay
  <2>3. CASE send_answer # "ok"
    <3>1. send_phase' = "failed" /\ UNCHANGED <<send_key, send_told>>  BY <1>6, <2>3 DEF send!Answered
    <3>2. ~ send!Busy' /\ send_phase' \in send!Phases  BY <3>1 DEF send!Busy, send!UnderWay, send!Phases
    <3>. QED  BY <2>1, <3>1, <3>2, SendWaits
  <2>4. CASE send_answer = "ok"
    <3>1. /\ send_phase' = "done" /\ send_told' = send_told \cup {<<send_key, send_to>>}
          /\ send_key' = (IF send_form = "export" THEN send_key + 1 ELSE send_key)
          BY <1>6, <2>4 DEF send!Answered
    <3>2. ~ send!Busy' /\ send_phase' \in send!Phases  BY <3>1 DEF send!Busy, send!UnderWay, send!Phases
    <3>3. send_key' \in send!Keys  BY <2>2, <3>1 DEF send!Keys, SendAssumption
    <3>4. send_told' \subseteq send!Keys \X Targets  BY <2>1, <3>1
    <3>5. send!TypeOK'  BY <2>1, <3>1, <3>2, <3>3, <3>4
    <3>6. SendHasPlace'  BY <2>1, <3>1, <3>2
    <3>7. send!AtMostOneUntold'
      <4>1. send_key \in {t[1] : t \in send_told'}
        <5>1. <<send_key, send_to>> \in send_told' /\ <<send_key, send_to>>[1] = send_key  BY <3>1
        <5>. QED  BY <5>1
      <4>2. \A k \in {t[1] : t \in send_told} : k \in {t[1] : t \in send_told'}
            BY <3>1
      <4>. QED  BY <2>1, <3>1, <4>1, <4>2 DEF send!AtMostOneUntold
    <3>. QED  BY <3>5, <3>6, <3>7
  <2>. QED  BY <2>3, <2>4
<1>. QED  BY <1>1, <1>2, <1>3, <1>4, <1>5, <1>6 DEF send!Work

\* Every step of the dialog and the form.
LEMMA SendKeeps == ASSUME SendAssumption, SendInv, [send!Next]_(send!vars) PROVE SendInv'
<1>1. CASE UNCHANGED send!vars
  <2>1. send!Busy' = send!Busy  BY <1>1 DEF send!vars, send!Busy, send!UnderWay
  <2>. QED  BY <1>1, <2>1, SendWaits DEF send!vars, SendInv, send!TypeOK, SendHasPlace
<1>. QED  BY <1>1, SendFormKeeps, SendWorkKeeps DEF send!Next, send!Work

\* useExportFlow and the library's form: at most one post is out that the person was not
\* told of, and that under the key of the form, so pressing again posts nothing more.
THEOREM PostedOnce ==
    ASSUME SendAssumption
    PROVE  send!Spec => [](send!TypeOK /\ send!AtMostOneUntold)
<1>1. send!Init => SendInv  BY SendStarts
<1>2. SendInv /\ [send!Next]_(send!vars) => SendInv'  BY SendKeeps
<1>. QED  BY <1>1, <1>2, PTL DEF send!Spec, SendInv

-----------------------------------------------------------------------------
(* Searching (seek).                                                          *)

\* A set of places has the same size everywhere.
LEMMA PlacesCount == \A S : seek!Cardinality(S) = Cardinality(S)
BY Zenon DEF seek!Cardinality, Cardinality

\* Nothing is in it twice.
NoRepeat(h) == \A i, j \in DOMAIN h : h[i] = h[j] => i = j

\* Some place among the others has each number up to how many they are.
LEMMA PlacesRanked ==
    ASSUME NEW L \in Nat, NEW O \in SUBSET (1 .. L), NEW p \in 1 .. L,
           O = 1 .. L \/ O = (1 .. L) \ {p}
    PROVE  /\ seek!Cardinality(O) \in Nat /\ seek!Cardinality(O) <= L
           /\ \A n \in 1 .. seek!Cardinality(O) :
                 \E i \in O : seek!Cardinality({j \in O : j <= i}) = n
<1> DEFINE R(i) == Cardinality({j \in O : j <= i})
           Ranked == /\ Cardinality(O) \in Nat /\ Cardinality(O) <= L
                     /\ \A n \in 1 .. Cardinality(O) : \E i \in O : R(i) = n
<1>1. \A a \in Nat : IsFiniteSet(1 .. a) /\ Cardinality(1 .. a) = a
  <2>1. ASSUME NEW a \in Nat PROVE IsFiniteSet(1 .. a) /\ Cardinality(1 .. a) = a
    <3>1. IsFiniteSet(1 .. a) /\ Cardinality(1 .. a) = IF 1 > a THEN 0 ELSE a - 1 + 1
          BY FS_Interval
    <3>. QED  BY <3>1
  <2>. QED  BY <2>1
<1>2. ASSUME O = 1 .. L PROVE Ranked
  <2>1. IsFiniteSet(O) /\ Cardinality(O) = L  BY <1>1, <1>2
  <2>2. ASSUME NEW n \in 1 .. L PROVE \E i \in O : R(i) = n
    <3>1. {j \in O : j <= n} = 1 .. n  BY <1>2
    <3>2. Cardinality(1 .. n) = n  BY <1>1
    <3>3. R(n) = n  BY <3>1, <3>2, Zenon
    <3>. QED  BY <1>2, <3>3
  <2>3. Cardinality(O) \in Nat /\ Cardinality(O) <= L  BY <2>1
  <2>. QED  BY <2>1, <2>2, <2>3
<1>3. ASSUME O = (1 .. L) \ {p} PROVE Ranked
  <2>1. IsFiniteSet(O) /\ Cardinality(O) = L - 1
    <3>1. IsFiniteSet(1 .. L) /\ Cardinality(1 .. L) = L  BY <1>1
    <3>. QED  BY <1>3, <3>1, FS_RemoveElement
  <2>2. ASSUME NEW n \in 1 .. L - 1 PROVE \E i \in O : R(i) = n
    <3>1. CASE n < p
      <4>1. {j \in O : j <= n} = 1 .. n /\ n \in O  BY <1>3, <3>1
      <4>2. Cardinality(1 .. n) = n  BY <1>1
      <4>3. R(n) = n  BY <4>1, <4>2, Zenon
      <4>. QED  BY <4>1, <4>3
    <3>2. CASE n >= p
      <4>1. {j \in O : j <= n + 1} = (1 .. n + 1) \ {p} /\ n + 1 \in O /\ p \in 1 .. n + 1
            BY <1>3, <3>2
      <4>2. n + 1 \in Nat /\ IsFiniteSet(1 .. n + 1) /\ Cardinality(1 .. n + 1) = n + 1  BY <1>1
      <4>3. Cardinality((1 .. n + 1) \ {p}) = Cardinality(1 .. n + 1) - 1
            BY <4>1, <4>2, FS_RemoveElement
      <4>4. R(n + 1) = Cardinality((1 .. n + 1) \ {p})  BY <4>1, Zenon
      <4>5. R(n + 1) = n  BY <4>2, <4>3, <4>4
      <4>. QED  BY <4>1, <4>5
    <3>3. n < p \/ n >= p  OBVIOUS
    <3>. QED  BY <3>1, <3>2, <3>3, Zenon
  <2>3. L - 1 \in Nat /\ L - 1 <= L  BY <1>3
  <2>. QED  BY <2>1, <2>2, <2>3
<1>4. Ranked
      BY <1>2, <1>3
<1>5. \A i : seek!Cardinality({j \in O : j <= i}) = R(i)  BY PlacesCount, Zenon
<1>6. seek!Cardinality(O) = Cardinality(O)  BY PlacesCount
<1>. QED  BY <1>4, <1>5, <1>6

\* What filter leaves of searches of which none is there twice.
LEMMA WithoutIs ==
    ASSUME NEW h \in Seq(seek!Searches), NoRepeat(h), NEW k \in seek!Searches
    PROVE  /\ seek!Without(h, k) \in Seq(seek!Searches) /\ Len(seek!Without(h, k)) <= Len(h)
           /\ NoRepeat(seek!Without(h, k))
           /\ \A n \in DOMAIN seek!Without(h, k) : seek!Without(h, k)[n] # k
<1> DEFINE L == Len(h)
           O == {i \in DOMAIN h : h[i] # k}
           R(i) == seek!Cardinality({j \in O : j <= i})
           N == seek!Cardinality(O)
           at(n) == CHOOSE i \in O : R(i) = n
           w == [n \in 1 .. N |-> h[at(n)]]
<1>1. L \in Nat /\ DOMAIN h = 1 .. L /\ \A i \in 1 .. L : h[i] \in seek!Searches
      BY LenProperties, ElementOfSeq
<1>2. /\ N \in Nat /\ N <= L
      /\ \A n \in 1 .. N : \E i \in O : R(i) = n
  <2>1. CASE O = 1 .. L
    <3>1. CASE L = 0
      <4>1. O = {}  BY <2>1, <3>1
      <4>2. N = 0  BY <4>1, FS_EmptySet, PlacesCount
      <4>. QED  BY <3>1, <4>2
    <3>2. CASE L # 0
      <4>1. 1 \in 1 .. L  BY <1>1, <3>2
      <4>. QED  BY <1>1, <2>1, <4>1, PlacesRanked, ZenonT(60)
    <3>. QED  BY <3>1, <3>2
  <2>2. CASE O # 1 .. L
    <3>1. PICK p \in 1 .. L : h[p] = k  BY <1>1, <2>2
    <3>2. O = (1 .. L) \ {p}  BY <1>1, <3>1 DEF NoRepeat
    <3>. QED  BY <1>1, <3>2, PlacesRanked
  <2>. QED  BY <2>1, <2>2
<1>3. \A n \in 1 .. N : at(n) \in O /\ R(at(n)) = n
      BY <1>2
<1>4. seek!Without(h, k) = w
      BY DEF seek!Without
<1> HIDE DEF N, at, R
<1>5. \A n \in 1 .. N : w[n] = h[at(n)] /\ w[n] \in seek!Searches /\ w[n] # k /\ at(n) \in 1 .. L
      BY <1>1, <1>3
<1>6. w \in Seq(seek!Searches) /\ Len(w) = N /\ DOMAIN w = 1 .. N
      BY <1>2, <1>5
<1>7. \A m, n \in 1 .. N : w[m] = w[n] => m = n
      BY <1>1, <1>3, <1>5 DEF NoRepeat
<1>. QED  BY <1>2, <1>4, <1>5, <1>6, <1>7 DEF NoRepeat

\* The beginning of a sequence.
LEMMA BeginningIs ==
    ASSUME NEW s \in Seq(seek!Searches), NEW m \in Nat, m <= Len(s)
    PROVE  /\ SubSeq(s, 1, m) \in Seq(seek!Searches) /\ Len(SubSeq(s, 1, m)) = m
           /\ \A i \in 1 .. m : SubSeq(s, 1, m)[i] = s[i]
<1>1. Len(s) \in Nat  BY LenProperties
<1>2. \A i \in 1 .. m : s[i] \in seek!Searches  BY <1>1, ElementOfSeq
<1>3. m + 1 - 1 = m /\ (1 <= m => m - 1 + 1 = m) /\ (~ (1 <= m) => m = 0)  OBVIOUS
<1>4. /\ SubSeq(s, 1, m) \in Seq(seek!Searches)
      /\ Len(SubSeq(s, 1, m)) = IF 1 <= m THEN m - 1 + 1 ELSE 0
      /\ \A i \in 1 .. m - 1 + 1 : SubSeq(s, 1, m)[i] = s[1 + i - 1]
      BY <1>2, SubSeqProperties
<1>. QED  BY <1>3, <1>4

\* The history after a search: as long as is kept, and none of it twice.
LEMMA RememberedIs ==
    ASSUME SeekAssumption, NEW h \in Seq(seek!Searches), NoRepeat(h), NEW k \in seek!Searches
    PROVE  /\ seek!Remembered(h, k) \in Seq(seek!Searches) /\ Len(seek!Remembered(h, k)) <= Kept
           /\ NoRepeat(seek!Remembered(h, k))
<1> DEFINE w == seek!Without(h, k)
           a == <<k>> \o w
           m == IF Len(a) < Kept THEN Len(a) ELSE Kept
<1>1. w \in Seq(seek!Searches) /\ NoRepeat(w) /\ \A n \in DOMAIN w : w[n] # k
      BY WithoutIs
<1>2. seek!Remembered(h, k) = SubSeq(a, 1, m)
      BY DEF seek!Remembered
<1> HIDE DEF w
<1>3. Len(w) \in Nat /\ DOMAIN w = 1 .. Len(w)
      BY <1>1, LenProperties
<1>4. <<k>> \in Seq(seek!Searches) /\ Len(<<k>>) = 1 /\ <<k>>[1] = k
      OBVIOUS
<1>5. /\ a \in Seq(seek!Searches) /\ Len(a) = 1 + Len(w)
      /\ \A i \in 1 .. Len(a) : a[i] = IF i <= 1 THEN <<k>>[i] ELSE w[i - 1]
      BY <1>1, <1>4, ConcatProperties
<1> HIDE DEF a
<1>6. m \in Nat /\ m <= Len(a) /\ m <= Kept
  <2>1. Len(a) \in Nat  BY <1>5, LenProperties
  <2>. QED  BY <2>1 DEF SeekAssumption
<1>7. \A i, j \in 1 .. Len(a) : a[i] = a[j] => i = j
  <2>1. ASSUME NEW i \in 1 .. Len(a), NEW j \in 1 .. Len(a), a[i] = a[j] PROVE i = j
    <3>1. \A n \in 1 .. Len(a) : n = 1 => a[n] = k  BY <1>4, <1>5
    <3>2. \A n \in 1 .. Len(a) : n # 1 => n - 1 \in DOMAIN w /\ a[n] = w[n - 1] /\ a[n] # k
      <4>1. ASSUME NEW n \in 1 .. Len(a), n # 1 PROVE n - 1 \in DOMAIN w /\ a[n] = w[n - 1]
            BY <1>3, <1>5, <4>1
      <4>. QED  BY <1>1, <4>1
    <3>3. CASE i = 1 \/ j = 1  BY <2>1, <3>1, <3>2, <3>3
    <3>4. CASE i # 1 /\ j # 1
      <4>1. i - 1 = j - 1  BY <1>1, <2>1, <3>2, <3>4 DEF NoRepeat
      <4>. QED  BY <4>1
    <3>. QED  BY <3>3, <3>4
  <2>. QED  BY <2>1
<1> HIDE DEF m
<1>8. /\ SubSeq(a, 1, m) \in Seq(seek!Searches) /\ Len(SubSeq(a, 1, m)) = m
      /\ \A i \in 1 .. m : SubSeq(a, 1, m)[i] = a[i]
      BY <1>5, <1>6, BeginningIs
<1>9. DOMAIN SubSeq(a, 1, m) = 1 .. m
      BY <1>8, LenProperties
<1>10. \A i \in 1 .. m : i \in 1 .. Len(a)
      BY <1>3, <1>5, <1>6
<1>11. NoRepeat(SubSeq(a, 1, m))
      BY <1>7, <1>8, <1>9, <1>10 DEF NoRepeat
<1>. QED  BY <1>2, <1>6, <1>8, <1>11

-----------------------------------------------------------------------------
\* The newest search whose answer is awaited, if it is.
Due(s) == s \in seek_inflight /\ s.ticket = seek_latest

\* Each ticket is one search, and the newest is what was asked for.
TicketsAre ==
    /\ \A s \in seek_inflight : s.ticket <= seek_latest
    /\ \A s, t \in seek_inflight : s.ticket = t.ticket => s = t
    /\ \A s \in seek_inflight : Due(s) => seek!Of(s) = seek_asked
    /\ \A s \in seek_inflight : Due(s) => \A c \in seek_cache : c.key # seek!Of(s)

\* What is on screen is of the newest search, and on the toggle's platform, or an answer
\* is due that will replace it.
ScreenIs ==
    /\ seek_results \in {seek!None, seek_asked} \/ \E s \in seek_inflight : Due(s)
    /\ seek_strayed \/ (\E s \in seek_inflight : Due(s))
         \/ seek_results = seek!None \/ seek_results.on = seek_platform
    /\ seek_strayed \/ \A s \in seek_inflight : Due(s) /\ s.term # "post" => s.on = seek_platform

\* The history is as stored, and short.
HistoryIs ==
    seek_history = seek_stored /\ Len(seek_history) <= Kept /\ NoRepeat(seek_history)

\* An answer that was applied is kept.
AppliedAreKept ==
    \A a \in seek_answers : a.applied => \E c \in seek_cache : c.key = a.key

SeekInv == seek!TypeOK /\ TicketsAre /\ ScreenIs /\ HistoryIs /\ AppliedAreKept

\* It holds when the page is opened.
LEMMA SeekStarts == ASSUME SeekAssumption, seek!Init PROVE SeekInv
<1>1. seek!TypeOK
  <2>1. 0 \in 0 .. MaxTickets /\ <<>> \in Seq(seek!Searches)  BY DEF SeekAssumption
  <2>. QED  BY <2>1 DEF seek!Init, seek!TypeOK, seek!Platforms
<1>2. HistoryIs
  <2>1. Len(<<>>) = 0 /\ DOMAIN <<>> = {} /\ Len(<<>>) <= Kept  BY DEF SeekAssumption
  <2>2. NoRepeat(<<>>)  BY <2>1 DEF NoRepeat
  <2>. QED  BY <2>1, <2>2 DEF seek!Init, HistoryIs
<1>. QED  BY <1>1, <1>2 DEF seek!Init, SeekInv, TicketsAre, ScreenIs, AppliedAreKept

\* What it means for the screen.
LEMMA SeekPromises ==
    ASSUME SeekInv
    PROVE  /\ seek!ResultsAreOfTheNewest /\ seek!ToggleAgrees /\ seek!OnlyLateAnswersArePaidAgain
           /\ seek!HistoryIsStored
<1>1. seek!ResultsAreOfTheNewest /\ seek!ToggleAgrees
      BY DEF SeekInv, ScreenIs, seek!ResultsAreOfTheNewest, seek!ToggleAgrees, seek!busy
<1>2. seek!OnlyLateAnswersArePaidAgain
      BY DEF SeekInv, TicketsAre, Due, AppliedAreKept, seek!OnlyLateAnswersArePaidAgain, seek!Newest
<1>3. seek!HistoryIsStored
      BY DEF SeekInv, HistoryIs, NoRepeat, seek!HistoryIsStored
<1>. QED  BY <1>1, <1>2, <1>3

-----------------------------------------------------------------------------
\* A new ticket is newer than all whose answers are awaited.
LEMMA TicketClaimed ==
    ASSUME SeekAssumption, SeekInv, NEW k \in seek!Asked, seek!Claim(k)
    PROVE  /\ seek_latest' \in 0 .. MaxTickets /\ seek_latest' \in 1 .. MaxTickets
           /\ seek_asked' = k /\ seek_latest' = seek_latest + 1
           /\ \A s \in seek_inflight : s.ticket < seek_latest'
<1>1. seek_latest \in 0 .. MaxTickets /\ seek_latest < MaxTickets /\ seek_latest' = seek_latest + 1
      BY DEF seek!Claim, SeekInv, seek!TypeOK
<1>2. seek_latest' \in 0 .. MaxTickets /\ seek_latest' \in 1 .. MaxTickets
      BY <1>1 DEF SeekAssumption
<1>3. ASSUME NEW s \in seek_inflight PROVE s.ticket < seek_latest'
  <2>1. s.ticket \in Int /\ s.ticket <= seek_latest
        BY DEF SeekInv, seek!TypeOK, TicketsAre
  <2>. QED  BY <1>1, <2>1
<1>. QED  BY <1>1, <1>2, <1>3 DEF seek!Claim

\* A request is sent under the new ticket.
LEMMA SeekAsks ==
    ASSUME SeekAssumption, SeekInv, NEW term \in Terms \cup {"post"}, NEW on \in seek!Platforms,
           seek!Claim([term |-> term, on |-> on]),
           seek_inflight' = seek_inflight \cup {[ticket |-> seek_latest', term |-> term, on |-> on]},
           \A c \in seek_cache : c.key # [term |-> term, on |-> on],
           term # "post" => seek_platform' = on,
           seek_query' \in Terms \cup {"x"} \cup seek!Links, seek_platform' \in seek!Platforms,
           seek_notice' \in {"none", "empty", "error"},
           UNCHANGED <<seek_results, seek_cache, seek_answers, seek_strayed>>,
           seek_history' \in Seq(seek!Searches), HistoryIs'
    PROVE  SeekInv'
<1> DEFINE n == [ticket |-> seek_latest', term |-> term, on |-> on]
           k == [term |-> term, on |-> on]
<1>0. k \in seek!Asked /\ k = seek!Of(n) /\ n.ticket = seek_latest' /\ n.term = term /\ n.on = on
      BY DEF seek!Asked, seek!Searches, seek!Of
<1>1. /\ seek_latest' \in 0 .. MaxTickets /\ seek_latest' \in 1 .. MaxTickets
      /\ seek_asked' = k /\ seek_latest' = seek_latest + 1
      /\ \A s \in seek_inflight : s.ticket < seek_latest'
      BY <1>0, TicketClaimed
<1>2. n \in [ticket : 1 .. MaxTickets, term : Terms \cup {"post"}, on : seek!Platforms]
      BY <1>1
<1> HIDE DEF n, k
<1>3. seek_inflight' = seek_inflight \cup {n} /\ seek_stored' = seek_history'
      BY DEF n, HistoryIs
<1>4. seek!TypeOK'
      BY <1>0, <1>1, <1>2, <1>3 DEF SeekInv, seek!TypeOK
<1>5. \A s \in seek_inflight : s.ticket \in Int /\ s.ticket # seek_latest' /\ s.ticket <= seek_latest'
  <2>1. ASSUME NEW s \in seek_inflight
        PROVE  s.ticket \in Int /\ s.ticket # seek_latest' /\ s.ticket <= seek_latest'
    <3>1. s.ticket \in Int  BY DEF SeekInv, seek!TypeOK
    <3>2. s.ticket < seek_latest' /\ seek_latest' \in Int  BY <1>1
    <3>. QED  BY <3>1, <3>2
  <2>. QED  BY <2>1
<1>6. n \in seek_inflight' /\ \A s \in seek_inflight' : Due(s)' <=> s = n
      BY <1>0, <1>3, <1>5 DEF Due
<1>7. TicketsAre'
  <2>1. \A s \in seek_inflight' : s.ticket <= seek_latest'
        BY <1>0, <1>1, <1>3, <1>5
  <2>2. \A s, t \in seek_inflight' : s.ticket = t.ticket => s = t
        BY <1>0, <1>3, <1>5 DEF SeekInv, TicketsAre
  <2>3. seek!Of(n) = seek_asked' /\ \A c \in seek_cache' : c.key # seek!Of(n)
        BY <1>0, <1>1 DEF k
  <2>. QED  BY <1>6, <2>1, <2>2, <2>3 DEF TicketsAre, seek!Of
<1>8. ScreenIs'
      BY <1>0, <1>6 DEF ScreenIs
<1>9. AppliedAreKept'
      BY DEF SeekInv, AppliedAreKept
<1>. QED  BY <1>4, <1>7, <1>8, <1>9 DEF SeekInv

\* A search for a term, whose platform the toggle shows from then on.
LEMMA SeekRuns ==
    ASSUME SeekAssumption, SeekInv, NEW term \in Terms, NEW on \in seek!Platforms,
           seek!run(term, on), seek_platform' = on
    PROVE  SeekInv'
<1> DEFINE k == [term |-> term, on |-> on]
<1>1. k \in seek!Searches /\ k \in seek!Asked /\ k.on = on
      BY DEF seek!Asked, seek!Searches
<1>2. seek_history' \in Seq(seek!Searches) /\ HistoryIs'
  <2>1. seek_history' = seek!Remembered(seek_history, k) /\ seek_stored' = seek_history'
        BY DEF seek!run, seek!remember
  <2>2. seek_history \in Seq(seek!Searches) /\ NoRepeat(seek_history)
        BY DEF SeekInv, HistoryIs, seek!TypeOK
  <2>. QED  BY <1>1, <2>1, <2>2, RememberedIs DEF HistoryIs, NoRepeat
<1>3. seek!Claim(k) /\ seek_query' = term /\ UNCHANGED <<seek_cache, seek_answers, seek_strayed>>
      BY DEF seek!run
<1>4. CASE ~ seek!Held(k)
  <2>1. /\ seek_inflight' = seek_inflight \cup {[ticket |-> seek_latest', term |-> term, on |-> on]}
        /\ seek_notice' = "none" /\ UNCHANGED seek_results
        BY <1>4 DEF seek!run
  <2>2. \A c \in seek_cache : c.key # k
        BY <1>4 DEF seek!Held
  <2>. QED  BY <1>2, <1>3, <2>1, <2>2, SeekAsks
<1>5. CASE seek!Held(k)
  <2>1. seek_results' = k /\ UNCHANGED seek_inflight /\ seek_notice' \in {"none", "empty"}
        BY <1>5 DEF seek!run
  <2>2. /\ seek_latest' \in 0 .. MaxTickets /\ seek_asked' = k
        /\ \A s \in seek_inflight : s.ticket < seek_latest'
        BY <1>1, <1>3, TicketClaimed
  <2> HIDE DEF k
  <2>3. seek!TypeOK'
        BY <1>1, <1>2, <1>3, <2>1, <2>2 DEF SeekInv, seek!TypeOK, HistoryIs
  <2>4. \A s \in seek_inflight : ~ Due(s)' /\ s.ticket <= seek_latest'
    <3>1. ASSUME NEW s \in seek_inflight PROVE s.ticket # seek_latest' /\ s.ticket <= seek_latest'
      <4>1. s.ticket \in Int  BY DEF SeekInv, seek!TypeOK
      <4>2. s.ticket < seek_latest' /\ seek_latest' \in Int  BY <2>2
      <4>. QED  BY <4>1, <4>2
    <3>. QED  BY <3>1 DEF Due
  <2>5. TicketsAre' /\ ScreenIs'
        BY <1>1, <1>3, <2>1, <2>2, <2>4 DEF SeekInv, TicketsAre, ScreenIs
  <2>6. AppliedAreKept'
        BY <1>3 DEF SeekInv, AppliedAreKept
  <2>. QED  BY <1>2, <2>3, <2>5, <2>6 DEF SeekInv
<1>. QED  BY <1>4, <1>5

\* A pasted link.
LEMMA SeekLinks ==
    ASSUME SeekAssumption, SeekInv, NEW on \in seek!Platforms, seek!runUrl(on),
    seek_platform' \in seek!Platforms
    PROVE  SeekInv'
<1>1. /\ seek!Claim([term |-> "post", on |-> on]) /\ seek_query' = "post" /\ seek_notice' = "none"
      /\ seek_inflight' = seek_inflight \cup {[ticket |-> seek_latest', term |-> "post", on |-> on]}
      /\ UNCHANGED <<seek_results, seek_cache, seek_answers, seek_history, seek_stored, seek_strayed>>
      BY DEF seek!runUrl
<1>2. \A c \in seek_cache : c.key # [term |-> "post", on |-> on]
  <2>1. ASSUME NEW c \in seek_cache PROVE c.key.term # "post"
        BY DEF SeekInv, seek!TypeOK, seek!Searches, SeekAssumption
  <2>. QED  BY <2>1
<1>3. seek_history' \in Seq(seek!Searches) /\ HistoryIs'
      BY <1>1 DEF SeekInv, seek!TypeOK, HistoryIs, NoRepeat
<1>4. seek_query' \in Terms \cup {"x"} \cup seek!Links
      BY <1>1 DEF seek!Links
<1>. QED  BY <1>1, <1>2, <1>3, <1>4, SeekAsks

\* The screen is cleared while answers may be due.
LEMMA SeekClears ==
    ASSUME SeekInv, seek_results' = seek!None, seek_notice' \in {"none", "empty", "error"},
           seek_strayed' = (seek_strayed \/ seek!busy), seek_platform' \in seek!Platforms,
           UNCHANGED <<seek_query, seek_latest, seek_asked, seek_inflight, seek_cache, seek_answers,
                       seek_history, seek_stored>>
    PROVE  SeekInv'
<1>1. seek!TypeOK'  BY DEF SeekInv, seek!TypeOK
<1>2. TicketsAre' /\ HistoryIs' /\ AppliedAreKept'
      BY DEF SeekInv, TicketsAre, HistoryIs, AppliedAreKept, Due, NoRepeat
<1>3. ScreenIs'  BY DEF ScreenIs, Due, seek!busy
<1>. QED  BY <1>1, <1>2, <1>3 DEF SeekInv

\* What the field or the toggle holds is searched for.
LEMMA SeekSubmits ==
    ASSUME SeekAssumption, SeekInv, NEW text, NEW on \in seek!Platforms, seek!submit(text, on),
    seek_platform' = on
    PROVE  SeekInv'
<1>1. CASE text \in Terms /\ seek!run(text, on)
      BY <1>1, SeekRuns
<1>2. ASSUME NEW of \in seek!Platforms, seek!runUrl(of) PROVE SeekInv'
      BY <1>2, SeekLinks
<1>3. CASE seek!refuseLink
      BY <1>3, SeekClears DEF seek!refuseLink
<1>. QED  BY <1>1, <1>2, <1>3 DEF seek!submit

\* An answer, or none: only the newest search's changes what is on screen.
LEMMA SeekAnswers ==
    ASSUME SeekAssumption, SeekInv, NEW s \in seek_inflight, NEW some \in BOOLEAN,
           seek!Answered(s, some) \/ seek!NotAnswered(s)
    PROVE  SeekInv'
<1>1. /\ seek_inflight' = seek_inflight \ {s}
      /\ UNCHANGED <<seek_query, seek_latest, seek_asked, seek_history, seek_stored, seek_strayed>>
      BY DEF seek!Answered, seek!NotAnswered, seek!Over
<1>2. s \in [ticket : 1 .. MaxTickets, term : Terms \cup {"post"}, on : seek!Platforms]
      BY DEF SeekInv, seek!TypeOK
<1>3. seek!Of(s) \in seek!Asked /\ (s.term # "post" => seek!Of(s) \in seek!Searches)
      /\ seek!Of(s).on = s.on
      BY <1>2 DEF seek!Asked, seek!Searches, seek!Of
<1>4. HistoryIs'
      BY <1>1 DEF SeekInv, HistoryIs, NoRepeat
<1>5. CASE ~ Due(s)
  <2>1. UNCHANGED <<seek_results, seek_notice, seek_platform, seek_cache>>
        BY <1>5 DEF seek!Answered, seek!NotAnswered, seek!Newest, Due
  <2>3. \A t \in seek_inflight : Due(t) => t \in seek_inflight' /\ Due(t)'
        BY <1>1, <1>5 DEF Due
  <2>4. \A t \in seek_inflight' : t \in seek_inflight /\ (Due(t)' => Due(t))
        BY <1>1 DEF Due
  <2>5. TicketsAre'
        BY <1>1, <2>1, <2>4 DEF SeekInv, TicketsAre
  <2>6. ScreenIs'
        BY <1>1, <2>1, <2>3, <2>4 DEF SeekInv, ScreenIs
  <2>7. seek_answers' = seek_answers
           \/ \E k \in seek!Searches : seek_answers' = seek_answers \cup {[key |-> k, applied |-> FALSE]}
    <3>1. CASE seek!NotAnswered(s)
          BY <3>1 DEF seek!NotAnswered
    <3>2. CASE seek!Answered(s, some) /\ s.term = "post"
          BY <3>2 DEF seek!Answered
    <3>3. CASE seek!Answered(s, some) /\ s.term # "post"
      <4>1. seek_answers' = seek_answers \cup {[key |-> seek!Of(s), applied |-> seek!Newest(s)]}
            BY <3>3 DEF seek!Answered
      <4>2. seek!Newest(s) = FALSE
            BY <1>5 DEF Due, seek!Newest
      <4>. QED  BY <1>3, <3>3, <4>1, <4>2
    <3>. QED  BY <3>1, <3>2, <3>3
  <2>8. AppliedAreKept' /\ seek_answers' \subseteq [key : seek!Searches, applied : BOOLEAN]
    <3>1. CASE seek_answers' = seek_answers
          BY <2>1, <3>1 DEF SeekInv, AppliedAreKept, seek!TypeOK
    <3>2. ASSUME NEW k \in seek!Searches,
                 seek_answers' = seek_answers \cup {[key |-> k, applied |-> FALSE]}
          PROVE  AppliedAreKept' /\ seek_answers' \subseteq [key : seek!Searches, applied : BOOLEAN]
      <4> DEFINE a == [key |-> k, applied |-> FALSE]
      <4>1. seek_answers' = seek_answers \cup {a}  BY <3>2
      <4>2. ~ a.applied /\ a \in [key : seek!Searches, applied : BOOLEAN]  OBVIOUS
      <4> HIDE DEF a
      <4>. QED  BY <2>1, <4>1, <4>2 DEF SeekInv, AppliedAreKept, seek!TypeOK
    <3>. QED  BY <2>7, <3>1, <3>2
  <2>2. seek!TypeOK'
        BY <1>1, <2>1, <2>8 DEF SeekInv, seek!TypeOK
  <2>. QED  BY <1>4, <2>2, <2>5, <2>6, <2>8 DEF SeekInv
<1>6. CASE Due(s)
  <2>1. seek!Of(s) = seek_asked
        BY <1>6 DEF SeekInv, TicketsAre
  <2>2. \A t \in seek_inflight' : t \in seek_inflight /\ ~ Due(t)'
    <3>1. ASSUME NEW t \in seek_inflight', t.ticket = seek_latest PROVE FALSE
      <4>1. t \in seek_inflight /\ t # s  BY <1>1
      <4>2. t.ticket = s.ticket  BY <1>6, <3>1 DEF Due
      <4>. QED  BY <4>1, <4>2 DEF SeekInv, TicketsAre
    <3>. QED  BY <1>1, <3>1 DEF Due
  <2>3. TicketsAre'
        BY <1>1, <2>2 DEF SeekInv, TicketsAre
  <2>4. CASE seek!NotAnswered(s)
    <3>1. /\ seek_results' = seek!None /\ seek_notice' = "error"
          /\ UNCHANGED <<seek_platform, seek_cache, seek_answers>>
          BY <1>6, <2>4 DEF seek!NotAnswered, seek!Newest, Due
    <3>2. seek!TypeOK'
          BY <1>1, <3>1 DEF SeekInv, seek!TypeOK
    <3>3. ScreenIs'
          BY <2>2, <3>1 DEF ScreenIs
    <3>4. AppliedAreKept'
          BY <3>1 DEF SeekInv, AppliedAreKept
    <3>. QED  BY <1>4, <2>3, <3>2, <3>3, <3>4 DEF SeekInv
  <2>5. CASE seek!Answered(s, some)
    <3>1. /\ seek_results' = seek!Of(s)
          /\ seek_notice' = (IF some THEN seek_notice ELSE "empty")
          /\ seek_platform' = (IF s.term = "post" THEN s.on ELSE seek_platform)
          /\ seek_cache' = seek_cache \cup
                (IF s.term = "post" THEN {} ELSE {[key |-> seek!Of(s), some |-> some]})
          /\ seek_answers' = seek_answers \cup
                (IF s.term = "post" THEN {} ELSE {[key |-> seek!Of(s), applied |-> TRUE]})
          BY <1>6, <2>5 DEF seek!Answered, seek!Newest, Due
    <3>2. seek_cache' \subseteq [key : seek!Searches, some : BOOLEAN]
          BY <1>3, <3>1 DEF SeekInv, seek!TypeOK
    <3>3. seek_notice' \in {"none", "empty", "error"} /\ seek_platform' \in seek!Platforms
          BY <1>2, <3>1 DEF SeekInv, seek!TypeOK
    <3>7. /\ seek_answers' \subseteq [key : seek!Searches, applied : BOOLEAN]
          /\ AppliedAreKept'
      <4>1. CASE s.term = "post"
            BY <3>1, <4>1 DEF SeekInv, seek!TypeOK, AppliedAreKept
      <4>2. CASE s.term # "post"
        <5> DEFINE a == [key |-> seek!Of(s), applied |-> TRUE]
                   c == [key |-> seek!Of(s), some |-> some]
        <5>1. seek_answers' = seek_answers \cup {a} /\ seek_cache' = seek_cache \cup {c}
              BY <3>1, <4>2
        <5>2. a.key = c.key /\ a \in [key : seek!Searches, applied : BOOLEAN]
              BY <1>3, <4>2
        <5> HIDE DEF a, c
        <5>. QED  BY <5>1, <5>2 DEF SeekInv, seek!TypeOK, AppliedAreKept
      <4>. QED  BY <4>1, <4>2
    <3>4. seek!TypeOK'
          BY <1>1, <1>3, <3>1, <3>2, <3>3, <3>7 DEF SeekInv, seek!TypeOK
    <3>5. seek_strayed \/ seek_results'.on = seek_platform'
          BY <1>3, <1>6, <3>1 DEF SeekInv, ScreenIs
    <3>6. ScreenIs'
          BY <1>1, <2>1, <2>2, <3>1, <3>5 DEF ScreenIs
    <3>. QED  BY <1>4, <2>3, <3>4, <3>6, <3>7 DEF SeekInv
  <2>. QED  BY <2>4, <2>5
<1>. QED  BY <1>5, <1>6

\* The page is opened again with what the device holds.
LEMMA SeekReloads == ASSUME SeekAssumption, SeekInv, seek!Reload PROVE SeekInv'
<1>1. /\ seek_query' = "x" /\ seek_platform' = "tiktok" /\ seek_results' = seek!None /\ seek_notice' = "none"
      /\ seek_asked' = seek!None /\ seek_inflight' = {} /\ seek_cache' = {}
      /\ seek_answers' = {} /\ seek_strayed' = FALSE
      /\ UNCHANGED <<seek_latest, seek_stored>>
      /\ seek_history' = SubSeq(seek_stored, 1, IF Len(seek_stored) < Kept THEN Len(seek_stored) ELSE Kept)
      BY DEF seek!Reload
<1>2. seek_stored \in Seq(seek!Searches) /\ seek_history = seek_stored /\ Len(seek_stored) <= Kept
      /\ Len(seek_stored) \in Nat
      BY LenProperties DEF SeekInv, seek!TypeOK, HistoryIs
<1>3. seek_history' = SubSeq(seek_stored, 1, Len(seek_stored))
  <2>1. (IF Len(seek_stored) < Kept THEN Len(seek_stored) ELSE Kept) = Len(seek_stored)
        BY <1>2 DEF SeekAssumption
  <2>. QED  BY <1>1, <2>1
<1>4. seek_history' = seek_stored
  <2>1. /\ seek_history' \in Seq(seek!Searches) /\ Len(seek_history') = Len(seek_stored)
        /\ \A i \in 1 .. Len(seek_stored) : seek_history'[i] = seek_stored[i]
        BY <1>2, <1>3, BeginningIs
  <2>. QED  BY <1>2, <2>1, SeqEqual
<1>5. HistoryIs'
      BY <1>1, <1>2, <1>4 DEF SeekInv, HistoryIs, NoRepeat
<1>6. seek!TypeOK'
      BY <1>1, <1>2, <1>4 DEF SeekInv, seek!TypeOK, seek!Platforms
<1>7. TicketsAre' /\ ScreenIs' /\ AppliedAreKept'
      BY <1>1 DEF TicketsAre, ScreenIs, AppliedAreKept
<1>. QED  BY <1>5, <1>6, <1>7 DEF SeekInv

\* Every step of the field, the toggle, the history and the answers.
LEMMA SeekKeeps == ASSUME SeekAssumption, SeekInv, [seek!Next]_(seek!vars) PROVE SeekInv'
<1>0. seek_platform \in seek!Platforms  BY DEF SeekInv, seek!TypeOK
<1>1. CASE UNCHANGED seek!vars
  <2>1. seek!TypeOK'  BY <1>1 DEF SeekInv, seek!TypeOK, seek!vars
  <2>2. TicketsAre' /\ ScreenIs' /\ HistoryIs' /\ AppliedAreKept'
        BY <1>1 DEF SeekInv, seek!vars, TicketsAre, ScreenIs, HistoryIs, AppliedAreKept, Due, NoRepeat
  <2>. QED  BY <2>1, <2>2 DEF SeekInv
<1>2. ASSUME NEW text \in Terms \cup {"x"} \cup seek!Links, seek!Type(text) PROVE SeekInv'
  <2>1. UNCHANGED <<seek_platform, seek_results, seek_notice, seek_latest, seek_asked, seek_inflight,
                    seek_cache, seek_answers, seek_history, seek_stored, seek_strayed>> /\ seek_query' = text
        BY <1>2 DEF seek!Type
  <2>2. seek!TypeOK'  BY <2>1 DEF SeekInv, seek!TypeOK
  <2>3. TicketsAre' /\ ScreenIs' /\ HistoryIs' /\ AppliedAreKept'
        BY <2>1 DEF SeekInv, TicketsAre, ScreenIs, HistoryIs, AppliedAreKept, Due, NoRepeat
  <2>. QED  BY <2>2, <2>3 DEF SeekInv
<1>3. CASE seek!onSubmit
      BY <1>0, <1>3, SeekSubmits DEF seek!onSubmit
<1>4. ASSUME NEW next \in seek!Platforms, seek!onPlatformChange(next) PROVE SeekInv'
  <2>1. CASE seek_query = "x"
        BY <1>4, <2>1, SeekClears DEF seek!onPlatformChange
  <2>2. CASE seek_query # "x"
        BY <1>4, <2>2, SeekSubmits DEF seek!onPlatformChange
  <2>. QED  BY <2>1, <2>2
<1>5. ASSUME NEW term \in Terms, seek!onSuggestion(term) PROVE SeekInv'
      BY <1>0, <1>5, SeekRuns DEF seek!onSuggestion
<1>6. ASSUME NEW i \in DOMAIN seek_history, seek!onPick(i) PROVE SeekInv'
  <2>1. seek_history[i] \in seek!Searches
        BY ElementOfSeq, LenProperties DEF SeekInv, seek!TypeOK
  <2>2. seek_history[i].term \in Terms /\ seek_history[i].on \in seek!Platforms
        BY <2>1 DEF seek!Searches
  <2>. QED  BY <1>6, <2>2, SeekRuns DEF seek!onPick
<1>7. CASE seek!clear
  <2>1. seek_history' = <<>> /\ seek_stored' = <<>> /\ UNCHANGED <<seek_query, seek_platform, seek_results,
             seek_notice, seek_latest, seek_asked, seek_inflight, seek_cache, seek_answers, seek_strayed>>
        BY <1>7 DEF seek!clear
  <2>2. <<>> \in Seq(seek!Searches) /\ Len(<<>>) = 0 /\ DOMAIN <<>> = {} /\ Len(<<>>) <= Kept
        BY DEF SeekAssumption
  <2>3. seek!TypeOK'  BY <2>1, <2>2 DEF SeekInv, seek!TypeOK
  <2>4. HistoryIs'  BY <2>1, <2>2 DEF HistoryIs, NoRepeat
  <2>5. TicketsAre' /\ ScreenIs' /\ AppliedAreKept'
        BY <2>1 DEF SeekInv, TicketsAre, ScreenIs, AppliedAreKept, Due
  <2>. QED  BY <2>3, <2>4, <2>5 DEF SeekInv
<1>8. ASSUME seek!Answers PROVE SeekInv'
  <2>1. PICK s \in seek_inflight : (\E some \in BOOLEAN : seek!Answered(s, some)) \/ seek!NotAnswered(s)
        BY <1>8 DEF seek!Answers
  <2>. QED  BY <2>1, SeekAnswers
<1>. QED  BY <1>1, <1>2, <1>3, <1>4, <1>5, <1>6, <1>7, <1>8, SeekReloads DEF seek!Next

\* useDiscoverSearch and useSearchHistory: whatever order answers come in, the results are
\* of the newest search and on the toggle's platform, no search whose answer was shown is asked
\* and paid for again,
\* and the history is stored as shown, with nothing in it twice.
THEOREM NewestIsShown ==
    ASSUME SeekAssumption
    PROVE  seek!Spec => [](/\ seek!TypeOK /\ seek!ResultsAreOfTheNewest /\ seek!ToggleAgrees
                           /\ seek!OnlyLateAnswersArePaidAgain /\ seek!HistoryIsStored)
<1>1. seek!Init => SeekInv  BY SeekStarts
<1>2. SeekInv /\ [seek!Next]_(seek!vars) => SeekInv'  BY SeekKeeps
<1>3. SeekInv => /\ seek!TypeOK /\ seek!ResultsAreOfTheNewest /\ seek!ToggleAgrees
                 /\ seek!OnlyLateAnswersArePaidAgain /\ seek!HistoryIsStored
      BY SeekPromises DEF SeekInv
<1>. QED  BY <1>1, <1>2, <1>3, PTL DEF seek!Spec

-----------------------------------------------------------------------------
(* The whole.                                                                 *)

\* A behaviour of the whole is one of each part.
LEMMA PartsRun ==
    SavingSpec => Spec /\ save!Spec /\ send!Spec /\ seek!Spec /\ [](screen \in Screens)
<1>1. SavingInit => Init /\ save!Init /\ send!Init /\ seek!Init /\ screen \in Screens
      BY DEF SavingInit
<1>2. [SavingNext]_SavingVars => [Next]_vars
      BY DEF SavingNext, SavingVars, vars
<1>3. [SavingNext]_SavingVars => [save!Next]_(save!vars)
      BY DEF SavingNext, SavingVars, saveVars, save!vars
<1>4. [SavingNext]_SavingVars => [send!Next]_(send!vars)
      BY DEF SavingNext, SavingVars, sendVars, send!vars
<1>5. [SavingNext]_SavingVars => [seek!Next]_(seek!vars)
      BY DEF SavingNext, SavingVars, seekVars, seek!vars
<1>6. screen \in Screens /\ [SavingNext]_SavingVars => (screen \in Screens)'
      BY DEF SavingNext, SavingVars
<1>. QED  BY <1>1, <1>2, <1>3, <1>4, <1>5, <1>6, PTL DEF SavingSpec, Spec, save!Spec, send!Spec, seek!Spec

\* Whatever screen a behaviour is about, its variables stay what they are declared to be.
THEOREM SavingTypeCorrect == SavingSpec => []AllTypes
<1>1. SaveAssumption /\ SendAssumption /\ SeekAssumption  BY PartsAssumption
<1>2. screen \in Screens /\ TypeOK /\ save!TypeOK /\ send!TypeOK /\ seek!TypeOK => AllTypes
      BY DEF AllTypes, Screens
<1>. QED  BY <1>1, <1>2, PartsRun, HistoryStaysBounded, SavedIsStored, PostedOnce, NewestIsShown, PTL

\* useAutosave and useExportFlow: "saved" is said only of what the server has, no version
\* is replaced that this page has not seen unless an answer was recorded on another
\* project, and at most one post is out that the person was not told of, for any
\* projects, openings, other tabs and presses.
THEOREM WorkStaysKept == SavingSpec => []WorkIsKept
<1>1. SaveAssumption /\ SendAssumption  BY PartsAssumption
<1>2. /\ save!SavedMeansStored /\ save!OverwritesOnlyAfterCrossing /\ send!AtMostOneUntold
      => WorkIsKept
      BY DEF WorkIsKept
<1>. QED  BY <1>1, <1>2, PartsRun, SavedIsStored, PostedOnce, PTL

\* useDiscoverSearch: the results are of the newest search and on the toggle's platform,
\* no search whose answer was shown is asked and paid for again, and the history is on the device as on screen, for
\* any terms, any number of searches and any order of answers.
THEOREM SearchesShowTheNewest == SavingSpec => []NewestSearchIsShown
<1>1. SeekAssumption  BY PartsAssumption
<1>2. /\ seek!ResultsAreOfTheNewest /\ seek!ToggleAgrees /\ seek!OnlyLateAnswersArePaidAgain /\ seek!HistoryIsStored
      => NewestSearchIsShown
      BY DEF NewestSearchIsShown
<1>. QED  BY <1>1, <1>2, PartsRun, NewestIsShown, PTL

\* The history keeps its promise on whatever screen.
THEOREM SavingKeepsTheLog ==
    ASSUME Interrupts = FALSE
    PROVE  SavingSpec => KeepsUndoPromise
BY PartsRun, ImplementsUndoLog, PTL
=============================================================================
