------------------------------- MODULE UndoLog -------------------------------
(* What undo and redo promise the person editing: one list of the projects that  *)
(* were put to rest, oldest first, and a place in it.  A new edit drops what was *)
(* undone and goes to the end; an edit that continues the one before it (a       *)
(* slider still moving) amends the entry it stands on.  Limit steps back are     *)
(* kept, however long the editing goes on.                                       *)
EXTENDS Integers, Sequences

CONSTANTS
    Projects,   \* every project there may be
    Limit       \* how many steps can be undone

VARIABLES log, place

Newest(s) == SubSeq(s, IF Len(s) > Limit + 1 THEN Len(s) - Limit ELSE 1, Len(s))

Init == log \in {<<p>> : p \in Projects} /\ place = 1

Add(p) ==
    /\ log' = Newest(Append(SubSeq(log, 1, place), p))
    /\ place' = Len(log')

Amend(p) == log' = [log EXCEPT ![place] = p] /\ UNCHANGED place
Back     == place > 1 /\ place' = place - 1 /\ UNCHANGED log
Forward  == place < Len(log) /\ place' = place + 1 /\ UNCHANGED log
Open(p)  == log' = <<p>> /\ place' = 1

Next ==
    \/ \E p \in Projects : Add(p) \/ Amend(p) \/ Open(p)
    \/ Back
    \/ Forward

Spec == Init /\ [][Next]_<<log, place>>
=============================================================================
