---------------------------------- MODULE MCMaking ----------------------------------
(* Small instances of what a person makes.  The files' links outlive the refresh by *)
(* one unit of time; zones are from five hours west to five and a half east, with   *)
(* changes of up to an hour; words are short and long, with and without a pause, of *)
(* a whole clip and a trimmed one; two drafts of an earlier visit are listed.       *)
EXTENDS Making

CONSTANTS a, b, d

\* A track of clips and one of captions.
MCKind == [t \in {"clips", "words"} |-> IF t = "clips" THEN "video" ELSE "caption"]

MCOffsets == {-10, -9, -1, 0, 1, 2, 11}
MCShifts == -2 .. 2
MCClips == {[start |-> 0, trimIn |-> 0, duration |-> 60],
            [start |-> 10, trimIn |-> 2, duration |-> 30]}
MCDrafts == <<[kind |-> "preview", link |-> "l1", state |-> "open"],
              [kind |-> "analysis", link |-> "l2", state |-> "done"]>>

\* Where a part begins matters to its own screen only.
MCInit ==
    /\ MakingInit
    /\ screen # "clock" => clock_zone = [before |-> 0, shift |-> 0]
    /\ screen # "captions" => caps_clip.start = 0
    /\ screen # "avatar" => pack_page = "flow" /\ pack_linked = "none"
    /\ screen # "link" => link_route.panel = "link"
    /\ row_there = 1 /\ (screen # "post" => row_here = 1 /\ row_post.at = 1)
MCSpec == MCInit /\ [][MakingNext]_MakingVars

\* Bounds: once an avatar screen was misled, or a step was picked out of turn, what the
\* properties say of that behaviour is said; an approved script changes nothing else of
\* the link's screen; one of the two groups is consented to.
Orderly ==
    /\ ~ pack_misled /\ ~ pack_jumped /\ ~ setup_jumped
    /\ link_script.shown = 0
    /\ pack_stored["ours"].consent \in [{"face", "voice"} -> {FALSE}]

=============================================================================
