------------------------------- MODULE WallClock -------------------------------
(* The time a post is scheduled for (core/zone.ts, zone-field.tsx): a wall-clock    *)
(* time in a named zone becomes the instant it means.  Time is counted in half      *)
(* hours around one clock change; a zone is ahead of UTC by `before` until the      *)
(* instant 0 and by `after` from then on.                                           *)
EXTENDS Integers, FiniteSets

CONSTANTS
    Offsets,    \* bound: how far ahead of UTC the zones may be
    Shifts,     \* bound: how far a clock change moves the clock
    Reach       \* bound: how far from the change the times are

VARIABLES zone, local

Zones == [before : Offsets, shift : Shifts]

\* offsetMinutes: how far the zone is ahead of UTC at an instant.
Offset(z, instant) == IF instant < 0 THEN z.before ELSE z.before + z.shift

\* What the clock on the wall shows at an instant.
Shows(z, instant) == instant + Offset(z, instant)

\* Mutation of ToUtc: the offset is looked up once.
ToUtc_OneStep(t, z) ==
    LET first == t - Offset(z, t)
    IN first

\* zonedTimeToUtc: the offset at the time read as UTC, then the offset found there.
ToUtc(t, z) ==
    LET first == t - Offset(z, t)
    IN t - Offset(z, first)

SetZone(z) == zone' = z /\ UNCHANGED local
SetLocal(t) == local' = t /\ UNCHANGED zone

TypeOK == zone \in Zones /\ local \in -Reach .. Reach

Init == zone \in {z \in Zones : z.shift = 0} /\ local = 0
Next == (\E z \in Zones : SetZone(z)) \/ (\E t \in -Reach .. Reach : SetLocal(t))
Spec == Init /\ [][Next]_<<zone, local>>

-----------------------------------------------------------------------------
Instants == -3 * Reach .. 3 * Reach
Readings(t, z) == {i \in Instants : Shows(z, i) = t}

\* A time the clock shows is turned into an instant at which it shows it, on either
\* side of a clock change, in zones east and west.
ReadsBack == Readings(local, zone) # {} => ToUtc(local, zone) \in Readings(local, zone)

\* zone.ts:38: "In the hour a clock change skips, the later reading is used."  East
\* of Greenwich, the zone of London included, it is; to the west the code's first
\* guess falls after the change, and the earlier reading comes out.
SkippedIsTheLaterEast ==
    zone.before >= 0 /\ Readings(local, zone) = {} => ToUtc(local, zone) = local - zone.before
=============================================================================
