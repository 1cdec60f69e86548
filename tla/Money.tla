----------------------------------- MODULE Money -----------------------------------
(* What one account pays and may have open (internal/credits, billing and the      *)
(* counts before every kind of work): the charges of a plan, a payment for a pack,  *)
(* a membership, and the caps.  These parts share no variable: each behaviour is    *)
(* about one of them, which `part` names, and one run checks them all.             *)
EXTENDS UsageWindows, Sequences

CONSTANTS
    Credits, Cents, Saved, MaxSpend,    \* a pack: see Payments
    Subs, MaxMessages,                  \* the subscriptions of a person: see Membership
    Handlers,                           \* requests of Stripe, about either
    Requests, Keys, OpenLimit           \* what asks for a row, and the cap: see OpenCap

VARIABLES
    part,       \* the part of the server this behaviour is about
    pay_charged, pay_returned, pay_status, pay_known, pay_removed, pay_bought, pay_keys,
    pay_clawed, pay_balance, pay_spent, pay_handler, pay_strayed,
    member_state, member_sent, member_handled, member_row, member_handler, member_mails,
    member_jumbled, member_again,
    cap_rows, cap_request, cap_ahead

payVars == <<pay_charged, pay_returned, pay_status, pay_known, pay_removed, pay_bought,
    pay_keys, pay_clawed, pay_balance, pay_spent, pay_handler, pay_strayed>>
pay == INSTANCE Payments WITH
    charged <- pay_charged, returned <- pay_returned, status <- pay_status,
    known <- pay_known, removed <- pay_removed, bought <- pay_bought, keys <- pay_keys,
    clawed <- pay_clawed, balance <- pay_balance, spent <- pay_spent,
    handler <- pay_handler, strayed <- pay_strayed

memberVars == <<member_state, member_sent, member_handled, member_row, member_handler,
    member_mails, member_jumbled, member_again>>
member == INSTANCE Membership WITH
    state <- member_state, sent <- member_sent, handled <- member_handled,
    row <- member_row, handler <- member_handler, mails <- member_mails,
    jumbled <- member_jumbled, again <- member_again

capVars == <<cap_rows, cap_request, cap_ahead>>
cap == INSTANCE OpenCap WITH
    Cap <- OpenLimit, rows <- cap_rows, request <- cap_request, ahead <- cap_ahead

-----------------------------------------------------------------------------
\* A pack holds credits and costs money.
PackAssumption ==
    /\ Credits \in Nat \ {0} /\ Cents \in Nat \ {0}
    /\ Saved \in Nat /\ MaxSpend \in Nat

\* Subscriptions are numbered, and the bound on messages is a number.
MembershipAssumption == Subs \subseteq Nat /\ MaxMessages \in Nat

\* The cap is a number; requests are under way, and keys in use, in finite number.
CapAssumption == IsFiniteSet(Requests) /\ IsFiniteSet(Keys) /\ OpenLimit \in Nat

\* The parameters of every part: positive prices and windows, a pack, numbered
\* subscriptions, and finitely many of whatever is counted.
ASSUME MoneyAssumption ==
    /\ UsageAssumption /\ Percent >= 100 /\ Jobs # {}
    /\ PackAssumption /\ IsFiniteSet(Handlers)
    /\ MembershipAssumption /\ IsFiniteSet(Subs)
    /\ CapAssumption

-----------------------------------------------------------------------------
Parts == {"usage", "payment", "membership", "cap"}

MoneyInit == part \in Parts /\ Init /\ pay!Init /\ member!Init /\ cap!Init

MoneyNext ==
    /\ UNCHANGED part
    /\ \/ part = "usage" /\ Next
          /\ UNCHANGED <<payVars, memberVars, capVars>>
       \/ part = "payment" /\ pay!Next
          /\ UNCHANGED <<vars, memberVars, capVars>>
       \/ part = "membership" /\ member!Next
          /\ UNCHANGED <<vars, payVars, capVars>>
       \/ part = "cap" /\ cap!Next
          /\ UNCHANGED <<vars, payVars, memberVars>>

MoneyVars == <<part, vars, payVars, memberVars, capVars>>
MoneySpec == MoneyInit /\ [][MoneyNext]_MoneyVars

-----------------------------------------------------------------------------
\* What no part's variables are ever outside of.
AllTypes ==
    CASE part = "usage" -> TypeOK       [] part = "payment" -> pay!TypeOK
      [] part = "membership" -> member!TypeOK [] OTHER -> cap!TypeOK

\* Money adds up.  Every credit is in a balance, held or spent, and every point in the
\* window it was counted in; what failed is free and what was made costs what it cost on
\* the plan it was charged on; a pack is added once, and a refund takes back its share of
\* the credits, unless two refunds were handled at once or one was cut off.
MoneyAddsUp ==
    /\ part = "usage" => /\ WindowsAddUp /\ CreditsAddUp
                         /\ CreditsFollowOutcome /\ PointsFollowOutcome
    /\ part = "payment" => /\ pay!PackIsAddedOnce /\ pay!NeverSaysTooMuch
                           /\ pay!RefundTakesItsShare

\* Plans and limits hold.  No window is passed by more than the job that fills it; the
\* overage cap and the limit of a day are kept by charges that come one by one, and a cap
\* on open rows is passed only by requests that counted at once; who pays is Pro, is told
\* so once, and a payment that was returned stays returned.
PlansAndLimitsHold ==
    /\ [](part = "usage" => WindowsOvershootOnce /\ OverageStaysUnderCap)
    /\ [](part = "membership" => member!WhoPaysIsPro /\ member!NoMailTwice)
    /\ [](part = "cap" => cap!PassedOnlyTogether)
    /\ ChargedUnderTheDay
    /\ pay!RefundedStays
=============================================================================
