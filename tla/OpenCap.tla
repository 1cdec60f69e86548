-------------------------------- MODULE OpenCap --------------------------------
(* The caps on what one person may have open at once: posts that wait              *)
(* (publish/publish.go), workflows (orchestrator/service.go), each kind of job     *)
(* (transform, generate, kietools, avatarvideo, analysis) and searches             *)
(* (discovery/service.go).  Each counts the open rows, and stores its own in a     *)
(* later statement, under a key that gives a repeated request the row that is      *)
(* there.  A workflow is open once it is routed out of draft, which is the step    *)
(* taken here for its Create; a search has no key, so none of its keys is repeated.*)
EXTENDS Integers, FiniteSets

CONSTANTS
    Requests,       \* requests under way
    Keys,           \* the idempotency keys they come with
    Cap             \* open rows a person may have

VARIABLES
    rows,           \* [Keys -> "none", "open" or "over"]
    request,        \* what a request is at: its step and key
    ahead           \* history: the most requests that had counted and not yet stored

vars == <<rows, request, ahead>>
Idle == [step |-> "idle", key |-> 0]
Open == {k \in Keys : rows[k] = "open"}
Counted == {r \in Requests : request[r].step = "counted"}

Init ==
    /\ rows = [k \in Keys |-> "none"]
    /\ request = [r \in Requests |-> Idle]
    /\ ahead = 0

Goto(r, to) ==
    /\ request' = [request EXCEPT ![r] = to]
    /\ LET n == Cardinality({s \in Requests : request'[s].step = "counted"}) IN
       ahead' = IF n > ahead THEN n ELSE ahead

\* Mutation of Count: the cap itself may be passed by one.
Count_AtCap(r) ==
    /\ request[r].step = "idle"
    /\ Cardinality(Open) <= Cap
    /\ \E k \in Keys : Goto(r, [step |-> "counted", key |-> k])
    /\ UNCHANGED rows

\* CountActive, CountOpen: a request is refused at the cap.
Count(r) ==
    /\ request[r].step = "idle"
    /\ Cardinality(Open) < Cap
    /\ \E k \in Keys : Goto(r, [step |-> "counted", key |-> k])
    /\ UNCHANGED rows

\* Create: the row of the key, or a new one.
Create(r) ==
    /\ request[r].step = "counted"
    /\ rows' = [rows EXCEPT ![request[r].key] = IF @ = "none" THEN "open" ELSE @]
    /\ Goto(r, Idle)

\* A request is cut off, or refused after it has counted.
Die(r) ==
    /\ request[r].step = "counted"
    /\ Goto(r, Idle)
    /\ UNCHANGED rows

\* The work of a row ends, or it was not paid for.
Ends(k) ==
    /\ rows[k] = "open" /\ rows' = [rows EXCEPT ![k] = "over"]
    /\ UNCHANGED <<request, ahead>>

Next == (\E r \in Requests : Count(r) \/ Create(r) \/ Die(r)) \/ (\E k \in Keys : Ends(k))
Spec == Init /\ [][Next]_vars

-----------------------------------------------------------------------------
TypeOK ==
    /\ rows \in [Keys -> {"none", "open", "over"}]
    /\ request \in [Requests -> [step : {"idle", "counted"}, key : Keys \cup {0}]]
    /\ ahead \in 0 .. Cardinality(Requests)

\* The cap is passed by as many as counted at once beyond the first, and by no more: one
\* request at a time never passes it, and a key that is repeated never counts twice.
PassedOnlyTogether ==
    ahead > 0 => Cardinality(Open) + Cardinality(Counted) <= Cap + ahead - 1
=============================================================================
