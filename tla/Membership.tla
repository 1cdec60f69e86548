------------------------------ MODULE Membership ------------------------------
(* A person's Pro membership: the subscriptions Stripe holds for them, the         *)
(* messages it sends of each change, and the one row the server keeps              *)
(* (internal/billing/subscription.go, database/billing.go SaveSubscription).  The  *)
(* row is of the person, not of the subscription, and the message that is handled  *)
(* last is the one it says.  Left out: the period's end, and with it the three     *)
(* days of grace a payment that failed has; invoices, which nothing reads but a    *)
(* report; "trialing", which counts as active.                                     *)
EXTENDS Integers, Sequences, FiniteSets

CONSTANTS
    Subs,           \* subscriptions a person may take out, naturals
    Handlers,       \* requests of Stripe under way
    MaxMessages     \* bound: the messages Stripe sends

VARIABLES
    state,          \* the subscriptions at Stripe
    sent,           \* the messages, in the order of what they tell
    handled,        \* how many of them were handled, when they come in order
    row,            \* the row: the status it has, and the subscription it is of
    handler,        \* the message a request holds, and the status it read before
    mails,          \* history: the mails that went out, counted up to the bound
    jumbled,        \* history: a message came out of order, or while another was handled
    again           \* history: a subscription was taken out while another was not over

vars == <<state, sent, handled, row, handler, mails, jumbled, again>>

NoRow == [status |-> "none", sub |-> 0]
Idle == [message |-> 0, previous |-> "none"]
Live == {"active", "past_due"}
Least(x, y) == IF x < y THEN x ELSE y
IsPro(status) == status = "active"

Init ==
    /\ state = [s \in Subs |-> "none"] /\ sent = <<>> /\ handled = 0
    /\ row = NoRow /\ handler = [h \in Handlers |-> Idle]
    /\ mails = [started |-> 0, failed |-> 0, ended |-> 0]
    /\ jumbled = FALSE /\ again = FALSE

Tell(messages) ==
    /\ Len(sent) + Len(messages) <= MaxMessages
    /\ sent' = sent \o messages

\* Subscribe refuses whoever is Pro by the row, and opens a page at Stripe,
Subscribe(s) ==
    /\ ~ IsPro(row.status) /\ state[s] = "none"
    /\ \A t \in Subs : t < s => state[t] # "none"
    /\ state' = [state EXCEPT ![s] = "open"]
    /\ UNCHANGED <<sent, handled, row, handler, mails, jumbled, again>>

\* where the person pays, or has paid already on another; Stripe tells of the checkout
\* and of the subscription, in either order.
Pays(s) ==
    /\ state[s] = "open"
    /\ state' = [state EXCEPT ![s] = "active"]
    /\ LET of(kind) == [kind |-> kind, sub |-> s, status |-> "active"] IN
       \/ Tell(<<of("checkout"), of("changed")>>)
       \/ Tell(<<of("changed"), of("checkout")>>)
    /\ again' = (again \/ \E t \in Subs : state[t] \in Live)
    /\ UNCHANGED <<handled, row, handler, mails, jumbled>>

\* A payment fails, is made good, or Stripe ends the subscription.
Changes(s, to) ==
    /\ state[s] \in Live /\ to # state[s]
    /\ state' = [state EXCEPT ![s] = to]
    /\ Tell(<<[kind |-> "changed", sub |-> s, status |-> to]>>)
    /\ UNCHANGED <<handled, row, handler, mails, jumbled, again>>

-----------------------------------------------------------------------------
\* The handler reads the row before it saves, to tell what mail to send.
Receive(h) ==
    /\ handler[h] = Idle
    /\ \E m \in DOMAIN sent :
        /\ handler' = [handler EXCEPT ![h] = [message |-> m, previous |-> row.status]]
        /\ jumbled' = (jumbled \/ m # handled + 1 \/ \E g \in Handlers : handler[g] # Idle)
        /\ handled' = IF m = handled + 1 THEN m ELSE handled
    /\ UNCHANGED <<state, sent, row, mails, again>>

Mail(kind, previous, status) ==
    IF kind = "checkout" THEN {k \in {"started"} : ~ IsPro(previous)}
    ELSE {k \in {"failed"} : status = "past_due" /\ previous # "past_due"}
         \cup {k \in {"ended"} : status = "canceled" /\ previous \in Live}

\* subscriptionStarted and subscriptionChanged: SaveSubscription, and the mail.
Save(h) ==
    /\ handler[h] # Idle
    /\ LET m == sent[handler[h].message] IN
       /\ row' = [status |-> m.status, sub |-> m.sub]
       /\ mails' = [k \in DOMAIN mails |->
              IF k \in Mail(m.kind, handler[h].previous, m.status) THEN Least(mails[k] + 1, MaxMessages)
              ELSE mails[k]]
    /\ handler' = [handler EXCEPT ![h] = Idle]
    /\ UNCHANGED <<state, sent, handled, jumbled, again>>

\* The request fails, before it has saved or before its mail is out; Stripe sends the
\* message again.
Fails(h) ==
    /\ handler[h] # Idle
    /\ LET m == sent[handler[h].message] IN
       row' \in {row, [status |-> m.status, sub |-> m.sub]}
    /\ handler' = [handler EXCEPT ![h] = Idle]
    /\ handled' = IF handled = handler[h].message THEN handled - 1 ELSE handled
    /\ UNCHANGED <<state, sent, mails, jumbled, again>>

Next ==
    \/ \E s \in Subs : Subscribe(s) \/ Pays(s) \/ \E to \in Live \cup {"canceled"} : Changes(s, to)
    \/ \E h \in Handlers : Receive(h) \/ Save(h) \/ Fails(h)

Spec == Init /\ [][Next]_vars

-----------------------------------------------------------------------------
Message == [kind : {"checkout", "changed"}, sub : Subs, status : Live \cup {"canceled"}]
TypeOK ==
    /\ state \in [Subs -> Live \cup {"none", "open", "canceled"}] /\ sent \in Seq(Message)
    /\ handled \in 0 .. Len(sent)
    /\ row \in [status : Live \cup {"none", "canceled"}, sub : Subs \cup {0}]
    /\ handler \in [Handlers -> [message : 0 .. Len(sent), previous : Live \cup {"none", "canceled"}]]
    /\ mails \in [{"started", "failed", "ended"} -> 0 .. MaxMessages]
    /\ jumbled \in BOOLEAN /\ again \in BOOLEAN

Settled == handled = Len(sent) /\ \A h \in Handlers : handler[h] = Idle

\* Once every message was handled, in order, who pays is Pro and who does not is not;
\* unless a subscription was taken out beside one that was not over, whose end then ends
\* what the row says of the new one.
WhoPaysIsPro ==
    Settled /\ ~ jumbled /\ ~ again => (IsPro(row.status) <=> \E s \in Subs : state[s] = "active")

\* No more than one mail for each membership that began, each payment that failed and
\* each end.
Told(status) == Cardinality({m \in 1 .. Len(sent) : sent[m].kind = "changed" /\ sent[m].status = status})
NoMailTwice ==
    Settled /\ ~ jumbled /\ ~ again =>
        /\ mails.started <= Cardinality({s \in Subs : state[s] \notin {"none", "open"}})
        /\ mails.failed <= Told("past_due") /\ mails.ended <= Told("canceled")
=============================================================================
