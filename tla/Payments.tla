------------------------------- MODULE Payments -------------------------------
(* One payment for a credit pack and the messages Stripe sends of it               *)
(* (internal/billing, credits.Purchase and Clawback).  A message arrives once it   *)
(* is true, again and again, in any order, and two at once; what a handler reads   *)
(* of the payment and of the balance it acts on later, and it may be cut off at    *)
(* any of its statements, after which Stripe sends the message again.  Money is    *)
(* counted in cents, and a refund says how many cents were returned in all.        *)
EXTENDS Integers

CONSTANTS
    Credits, Cents, \* what the pack holds and what it was sold for
    Handlers,       \* requests of Stripe under way
    Saved,          \* the credits the member has of other sources
    MaxSpend        \* bound: the credits the member spends

VARIABLES
    charged,        \* the member has paid at Stripe
    returned,       \* the totals Stripe told, in cents, as it returned more and more
    status, known,  \* the payment's row: its status, and whether it has the intent
    removed,        \* credits_removed of the row
    bought,         \* the ledger has the entry "purchase:"
    keys, clawed,   \* the ledger's entries "refund:": their keys, by the cents, and their sum
    balance, spent,
    handler,
    strayed         \* history: two refunds were handled at once, or one was cut off

vars == <<charged, returned, status, known, removed, bought, keys, clawed, balance, spent, handler, strayed>>
stripe == <<charged, returned>>
row == <<status, known, removed>>
ledger == <<bought, keys, clawed, balance, spent>>

Idle == [step |-> "idle", cents |-> 0, want |-> 0, take |-> 0]
Amounts == 1 .. Cents
Least(x, y) == IF x < y THEN x ELSE y

\* The share of the credits that goes with a share of the money.
Share(cents) == (Credits * cents) \div Cents

Init ==
    /\ charged = FALSE /\ returned = {}
    /\ status = "pending" /\ known = FALSE /\ removed = 0
    /\ bought = FALSE /\ keys = {} /\ clawed = 0
    /\ balance = Saved /\ spent = 0
    /\ handler = [h \in Handlers |-> Idle]
    /\ strayed = FALSE

Goto(h, to) == handler' = [handler EXCEPT ![h] = to]
Done(h) == Goto(h, Idle)
On(k, to, take) == [step |-> to, cents |-> k.cents, want |-> k.want, take |-> take]
Refunding(h) == handler[h].step \in {"wanting", "weighing", "removing"}

\* What happens at Stripe: the member pays, and an admin returns money, in parts.
Pay ==
    /\ ~ charged /\ charged' = TRUE
    /\ UNCHANGED <<returned, row, ledger, handler, strayed>>

GiveBack ==
    /\ charged
    /\ \E c \in Amounts : (\A d \in returned : c > d) /\ returned' = returned \cup {c}
    /\ UNCHANGED <<charged, row, ledger, handler, strayed>>

\* The member's work and other purchases.
Spend ==
    /\ spent < MaxSpend /\ balance > 0
    /\ spent' = spent + 1 /\ balance' = balance - 1
    /\ UNCHANGED <<stripe, row, bought, keys, clawed, handler, strayed>>

-----------------------------------------------------------------------------
\* Paid: Purchase under the key of the payment, then MarkPaid.
Purchase(h) ==
    /\ handler[h].step = "idle" /\ charged
    /\ bought' = TRUE
    /\ balance' = IF bought THEN balance ELSE balance + Credits
    /\ Goto(h, On(Idle, "marking", 0))
    /\ UNCHANGED <<stripe, row, keys, clawed, spent, strayed>>

MarkPaid(h) ==
    /\ handler[h].step = "marking"
    /\ status' = IF status = "pending" THEN "paid" ELSE status
    /\ known' = TRUE
    /\ Done(h)
    /\ UNCHANGED <<stripe, removed, ledger, strayed>>

\* Refunded: the payment is found by its intent and read; a message of an earlier
\* refund may come late.  A payment that is not known yet is an error, and Stripe
\* sends the message again.
ReadPayment(h) ==
    /\ handler[h].step = "idle" /\ known
    /\ \E c \in returned :
           Goto(h, [step |-> IF Share(c) > removed THEN "wanting" ELSE "removing",
                    cents |-> c, want |-> Share(c) - removed, take |-> 0])
    /\ strayed' = (strayed \/ \E g \in Handlers \ {h} : Refunding(g))
    /\ UNCHANGED <<stripe, row, ledger>>

\* Clawback reads the balance and takes no more than is left,
ReadBalance(h) ==
    /\ handler[h].step = "wanting"
    /\ LET take == Least(handler[h].want, balance) IN
       Goto(h, On(handler[h], IF take > 0 THEN "weighing" ELSE "removing", take))
    /\ UNCHANGED <<stripe, row, ledger, strayed>>

\* Mutation of Clawback: nothing is checked when the entry is written.
Clawback_Unchecked(h) ==
    /\ handler[h].step = "weighing"
    /\ LET c == handler[h].cents  take == handler[h].take IN
       IF c \in keys
       THEN /\ Goto(h, On(handler[h], "removing", 0))
            /\ UNCHANGED <<keys, clawed, balance>>
       ELSE /\ keys' = keys \cup {c} /\ clawed' = clawed + take
            /\ balance' = balance - take
            /\ Goto(h, On(handler[h], "removing", take))
    /\ UNCHANGED <<stripe, row, bought, spent, strayed>>

\* under a key that names the cents returned: a repeat takes nothing and says so.
Clawback(h) ==
    /\ handler[h].step = "weighing"
    /\ LET c == handler[h].cents  take == handler[h].take IN
       IF c \in keys
       THEN /\ Goto(h, On(handler[h], "removing", 0))
            /\ UNCHANGED <<keys, clawed, balance>>
       ELSE /\ balance >= take
            /\ keys' = keys \cup {c} /\ clawed' = clawed + take
            /\ balance' = balance - take
            /\ Goto(h, On(handler[h], "removing", take))
    /\ UNCHANGED <<stripe, row, bought, spent, strayed>>

\* The balance has sunk below what was to be taken: an error, and a repeat.
ClawbackFails(h) ==
    /\ handler[h].step = "weighing"
    /\ handler[h].cents \notin keys /\ balance < handler[h].take
    /\ Done(h)
    /\ UNCHANGED <<stripe, row, ledger, strayed>>

AddRemoved(h) ==
    /\ handler[h].step = "removing"
    /\ removed' = removed + handler[h].take
    /\ status' = IF handler[h].cents = Cents THEN "refunded" ELSE status
    /\ Done(h)
    /\ UNCHANGED <<stripe, known, ledger, strayed>>

\* A handler is cut off between two statements; Stripe sends its message again.
Die(h) ==
    /\ handler[h].step # "idle"
    /\ strayed' = (strayed \/ Refunding(h))
    /\ Done(h)
    /\ UNCHANGED <<stripe, row, ledger>>

Next ==
    \/ Pay \/ GiveBack \/ Spend
    \/ \E h \in Handlers :
        \/ Purchase(h) \/ MarkPaid(h) \/ ReadPayment(h) \/ ReadBalance(h)
        \/ Clawback(h) \/ ClawbackFails(h) \/ AddRemoved(h) \/ Die(h)

Spec == Init /\ [][Next]_vars

-----------------------------------------------------------------------------
TypeOK ==
    /\ charged \in BOOLEAN /\ returned \subseteq Amounts
    /\ status \in {"pending", "paid", "refunded"} /\ known \in BOOLEAN /\ removed \in Nat
    /\ bought \in BOOLEAN /\ keys \subseteq Amounts /\ clawed \in Nat
    /\ balance \in Nat /\ spent \in 0 .. MaxSpend
    /\ handler \in [Handlers -> [step : {"idle", "marking", "wanting", "weighing", "removing"},
           cents : 0 .. Cents, want : Int, take : Nat]]
    /\ strayed \in BOOLEAN

\* However often Stripe says it was paid, the pack is added once, and every credit is
\* accounted for: a refund never takes the balance below what is there.
PackIsAddedOnce ==
    balance = Saved + (IF bought THEN Credits ELSE 0) - spent - clawed

\* The share of the credits that goes with the money returned is taken, and never more,
\* through repeats and messages out of order; two refunds handled at once, or one cut off
\* after it took the credits and before the row says so, do take more.
RefundTakesItsShare ==
    ~ strayed => /\ \E c \in returned \cup {0} : clawed <= Share(c)
                 /\ (\A h \in Handlers : ~ Refunding(h)) => removed = clawed

\* The row never says more was removed than was, whatever is cut off.
NeverSaysTooMuch == removed <= clawed

\* A payment that was returned in full is not paid again by a late message.
RefundedStays == [][status = "refunded" => status' = "refunded"]_vars
=============================================================================
