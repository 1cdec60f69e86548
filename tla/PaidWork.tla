------------------------------- MODULE PaidWork -------------------------------
(***************************************************************************)
(* What the service promises about paid work, without saying how: a piece  *)
(* of work is accepted, the provider is paid for it at most once, it is    *)
(* delivered or fails for good, and what its owner was charged is kept or  *)
(* returned accordingly, once.                                             *)
(*                                                                         *)
(* The promise is weaker than the comments of the code: Charge may come    *)
(* after Spend, or after Fail, because a job can be claimed before the     *)
(* request that created it has reserved its price.                         *)
(***************************************************************************)
EXTENDS Naturals

CONSTANTS Users, Work, Owner, Price, Grant

VARIABLES
    phase,    \* "none", "open", then "delivered" or "failed" for good
    spent,    \* whether the provider has been paid for the work
    charge,   \* "none", "held", then "kept" or "returned" for good
    balance

vars == <<phase, spent, charge, balance>>

Init ==
    /\ phase = [w \in Work |-> "none"]
    /\ spent = [w \in Work |-> FALSE]
    /\ charge = [w \in Work |-> "none"]
    /\ balance = [u \in Users |-> Grant]

Accept(w) ==
    /\ phase[w] = "none"
    /\ phase' = [phase EXCEPT ![w] = "open"]
    /\ UNCHANGED <<spent, charge, balance>>

Charge(w) ==
    /\ phase[w] # "none"
    /\ charge[w] = "none"
    /\ Price[w] > 0
    /\ balance[Owner[w]] >= Price[w]
    /\ charge' = [charge EXCEPT ![w] = "held"]
    /\ balance' = [balance EXCEPT ![Owner[w]] = @ - Price[w]]
    /\ UNCHANGED <<phase, spent>>

\* The provider takes the work, even if it was given up meanwhile.
Spend(w) ==
    /\ phase[w] \in {"open", "failed"}
    /\ ~ spent[w]
    /\ spent' = [spent EXCEPT ![w] = TRUE]
    /\ UNCHANGED <<phase, charge, balance>>

Deliver(w) ==
    /\ phase[w] = "open"
    /\ spent[w]
    /\ phase' = [phase EXCEPT ![w] = "delivered"]
    /\ UNCHANGED <<spent, charge, balance>>

Fail(w) ==
    /\ phase[w] = "open"
    /\ phase' = [phase EXCEPT ![w] = "failed"]
    /\ UNCHANGED <<spent, charge, balance>>

Keep(w) ==
    /\ phase[w] = "delivered"
    /\ charge[w] = "held"
    /\ charge' = [charge EXCEPT ![w] = "kept"]
    /\ UNCHANGED <<phase, spent, balance>>

Return(w) ==
    /\ phase[w] = "failed"
    /\ charge[w] = "held"
    /\ charge' = [charge EXCEPT ![w] = "returned"]
    /\ balance' = [balance EXCEPT ![Owner[w]] = @ + Price[w]]
    /\ UNCHANGED <<phase, spent>>

Next == \E w \in Work : \/ Accept(w) \/ Charge(w) \/ Spend(w) \/ Deliver(w)
                        \/ Fail(w) \/ Keep(w) \/ Return(w)

Spec == Init /\ [][Next]_vars
=============================================================================
