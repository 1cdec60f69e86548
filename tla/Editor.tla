-------------------------------- MODULE Editor --------------------------------
(* The studio's store (features/studio/store/editor-store.ts) and its history     *)
(* (core/history.ts): edits, drags, undo and redo.  A project is an object, and   *)
(* what an edit makes of one is Timeline's subject: here it is any project, the   *)
(* same object when there was nothing to do (a file already known, addAsset).     *)
(*                                                                                *)
(* Edits come from the pointer and the keyboard, but also from the assistant, a   *)
(* finished upload and a finished video, so they can land in a drag.              *)
EXTENDS Integers, Sequences

CONSTANTS
    Projects,   \* the objects a project may be
    EditKeys,   \* names of edits that continue one another (a slider, a field)
    NoKey,      \* the edit before had none, or was too long ago
    NoProject,  \* no drag is under way
    Limit,      \* the longest past (100)
    Interrupts  \* whether anything but the pointer acts while a drag is under way

ASSUME EditorAssumption ==
    /\ NoProject \notin Projects
    /\ NoKey \notin EditKeys
    /\ Limit \in Nat \ {0}
    /\ Interrupts \in BOOLEAN

VARIABLES
    past, present, future,
    base,       \* gestureBase: the project the drag started from
    lastEdit    \* the key of the last edit, until COALESCE_MS have passed

history == <<past, present, future>>
vars == <<past, present, future, base, lastEdit>>

TypeOK ==
    /\ past \in Seq(Projects) /\ future \in Seq(Projects)
    /\ present \in Projects
    /\ base \in Projects \cup {NoProject}
    /\ lastEdit \in EditKeys \cup {NoKey}

Dragging == base # NoProject
Free == Dragging => Interrupts

\* history.ts commit: the newest Limit entries of the past are kept.
Remembered(s) == SubSeq(s, IF Len(s) > Limit THEN Len(s) - Limit + 1 ELSE 1, Len(s))

\* Mutation of Commit: what was undone stays for redo.
Commit_KeepsFuture(from, p) ==
    /\ present' = p
    /\ IF p = from
       THEN past' = past /\ future' = future
       ELSE past' = Remembered(Append(past, from)) /\ future' = future

Commit(from, p) ==
    /\ present' = p
    /\ IF p = from
       THEN past' = past /\ future' = future
       ELSE past' = Remembered(Append(past, from)) /\ future' = <<>>

-----------------------------------------------------------------------------
Load(p) ==
    /\ ~ Dragging
    /\ present' = p /\ past' = <<>> /\ future' = <<>>
    /\ base' = NoProject
    /\ UNCHANGED lastEdit

\* An edit with no key, or with one that does not continue the last edit.
Edit(p, key) ==
    /\ Free
    /\ key = NoKey \/ key # lastEdit
    /\ Commit(present, p)
    /\ base' = NoProject
    /\ lastEdit' = key

\* An edit that continues the last one replaces what that made.
Merge(p, key) ==
    /\ Free
    /\ key # NoKey /\ key = lastEdit
    /\ present' = p
    /\ base' = NoProject
    /\ UNCHANGED <<past, future, lastEdit>>

\* COALESCE_MS go by without an edit under the key.
Lapse == lastEdit # NoKey /\ lastEdit' = NoKey /\ UNCHANGED <<past, present, future, base>>

\* Each move of the pointer previews an edit of the project the drag started from.
Drag(p) ==
    /\ base' = IF Dragging THEN base ELSE present
    /\ p # base'
    /\ present' = p
    /\ UNCHANGED <<past, future, lastEdit>>

EndDrag ==
    /\ Dragging
    /\ base' = NoProject
    /\ Commit(base, present)
    /\ UNCHANGED lastEdit

Undo ==
    /\ Free
    /\ past # <<>>
    /\ present' = past[Len(past)]
    /\ past' = SubSeq(past, 1, Len(past) - 1)
    /\ future' = <<present>> \o future
    /\ UNCHANGED <<base, lastEdit>>

Redo ==
    /\ Free
    /\ future # <<>>
    /\ present' = Head(future)
    /\ past' = Append(past, present)
    /\ future' = Tail(future)
    /\ UNCHANGED <<base, lastEdit>>

Init ==
    /\ present \in Projects /\ past = <<>> /\ future = <<>>
    /\ base = NoProject
    /\ lastEdit = NoKey

Next ==
    \/ \E p \in Projects :
          \/ Load(p)
          \/ \E key \in EditKeys \cup {NoKey} : Edit(p, key) \/ Merge(p, key)
          \/ Drag(p)
    \/ Lapse
    \/ EndDrag
    \/ Undo
    \/ Redo

Spec == Init /\ [][Next]_vars

-----------------------------------------------------------------------------
\* The history never grows past its limit: redo puts an entry back on the past
\* without cutting it, and is safe because undo took it from there.
HistoryBounded == Len(past) + Len(future) <= Limit

\* The entries a person can reach, the one they stand on in the middle: while a
\* drag is under way that is still the project it started from.
Standing == IF Dragging THEN base ELSE present
Log == past \o <<Standing>> \o future

Promise == INSTANCE UndoLog WITH log <- Log, place <- Len(past) + 1

\* Edits, drags, undo and redo do what UndoLog promises: a drag is one step however
\* long it was, its previews are never entries ("While set, moves are previews, not
\* history"), and nothing but the oldest entries is ever forgotten.
KeepsUndoPromise == Promise!Spec
=============================================================================
