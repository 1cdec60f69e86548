---------------------------------- MODULE MCMoney ----------------------------------
(* Small instances of what one account pays.                                       *)
EXTENDS Money, TLC

CONSTANTS h1, h2

\* A search and an avatar video, each as dear as a window.
MCPrice == <<3, 2>>
MCHow == <<"flat", "measured">>
MCMeasured == <<1, 1>>

\* The plan matters to charges only.
MCInit == MoneyInit /\ (part # "usage" => plan = "free")
MCSpec == MCInit /\ [][MoneyNext]_MoneyVars

\* Bounds: the closings of one job at a time, of which the video's alone may be lost or
\* come early, and nothing more of a membership whose messages came out of order than its
\* beginning.
Orderly ==
    /\ Cardinality({j \in Jobs : \E c \in Closers : closing[j][c].step # "no"}) <= 1
    /\ ~ lost[1] /\ ~ early[1]
    /\ member_jumbled => Len(member_sent) <= 3

\* Two requests are alike.
MoneySymmetry == Permutations({h1, h2})
=============================================================================
