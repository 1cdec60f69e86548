------------------------------- MODULE SignIn -------------------------------
(*****************************************************************************)
(* The account screens of the web client (features/auth), the middleware in  *)
(* front of every page (lib/supabase/middleware.ts) and the fixed-window     *)
(* limiter of the sign-in actions (lib/rate-limit.ts), seen from one tab of  *)
(* a browser whose other tabs share its address and its session cookie.      *)
(*                                                                           *)
(* A server action runs and its cookie lands in one step; the form that sent *)
(* it hears of it in a later one, unless the page was loaded anew meanwhile: *)
(* the other tabs move in between.  Whether a password, a code or a new      *)
(* account is accepted is the account service's choice.                      *)
(*****************************************************************************)
EXTENDS Naturals, FiniteSets

CONSTANTS Keys,       \* the actions whose windows are followed; another action, with
                      \* a window of its own, is refused or let in freely
          Limit,      \* attempts per window: 5 to 10 in the code
          Window,     \* the length of a window: 60 seconds in the code
          MaxTime     \* bound of the clock

VARIABLES page, asked, form, sent, reply, session, bucket, now, tried, wanted

vars == <<page, asked, form, sent, reply, session, bucket, now, tried, wanted>>

Protected == {"/dashboard", "/editor"}
\* What each account screen submits.
ActionOf == [p \in {"/login", "/signup", "/forgot-password", "/reset-password", "/verify"} |->
  CASE p = "/login" -> "signin" [] p = "/signup" -> "signup" [] p = "/forgot-password" -> "reset"
    [] p = "/reset-password" -> "password-set" [] OTHER -> "otp"]
AuthPages == DOMAIN ActionOf
Pages     == Protected \cup AuthPages \cup {"/"}
Actions   == {ActionOf[p] : p \in AuthPages}
Replies   == {"", "refused", "wrong", "lost", "done"}

\* The middleware: where a request for p ends, and the ?redirect= it carries.
Route(p, signedIn) ==
  IF p \in Protected /\ ~signedIn THEN [at |-> "/login", redirect |-> p]
  ELSE IF p \in AuthPages /\ signedIn THEN [at |-> "/dashboard", redirect |-> ""]
  ELSE [at |-> p, redirect |-> ""]
\* A full request, or a client-side push: either way the middleware decides.
Goes(p) == /\ page'  = Route(p, session).at
           /\ asked' = Route(p, session).redirect

-----------------------------------------------------------------------------
Expired(b) == b.resetAt <= now
\* Past the limit the count tells no more: it is kept at Limit + 1.
OneMore(n) == IF n > Limit THEN n ELSE n + 1

\* Mutation of Counted: the attempt that opens a window is not counted.
Counted_FromZero(b) == IF Expired(b) THEN [count |-> 0, resetAt |-> now + Window]
                       ELSE [b EXCEPT !.count = OneMore(@)]

\* The limiter: a window opens with the first attempt after the last one closed.
Counted(b) == IF Expired(b) THEN [count |-> 1, resetAt |-> now + Window]
              ELSE [b EXCEPT !.count = OneMore(@)]
Allows(a)  == a \in Keys => Counted(bucket[a]).count <= Limit
Refuses(a) == a \in Keys => Counted(bucket[a]).count > Limit

\* The attempts at a let through in the last Window.
Recent(a) == {n \in tried : n.action = a /\ n.at + Window > now}

Init ==
  /\ page = "/" /\ asked = ""
  /\ form = "idle" /\ sent = "" /\ reply = ""
  /\ session = FALSE /\ now = 0 /\ tried = {} /\ wanted = ""
  /\ bucket = [a \in Keys |-> [count |-> 0, resetAt |-> 0]]

\* The person opens a page: a full load, which forgets the form that was waiting.
Open(p) ==
  /\ Goes(p)
  /\ form' = "idle"
  /\ wanted' = IF p \in Protected THEN p ELSE ""
  /\ UNCHANGED <<sent, reply, session, bucket, now, tried>>

Submit ==
  /\ page \in AuthPages /\ form # "sending" /\ form # "sent" /\ sent = ""
  /\ form' = "sending"
  /\ sent' = ActionOf[page]
  /\ UNCHANGED <<page, asked, reply, session, bucket, now, tried, wanted>>

Waiting == sent # "" /\ reply = ""

\* throttle: the attempt counts against the window whether or not it is let in.
CountsFor(a) == bucket' = [k \in Keys |-> IF k = a THEN Counted(bucket[k]) ELSE bucket[k]]
Counts == CountsFor(sent)

ServeRefused ==
  /\ Waiting /\ Refuses(sent)
  /\ Counts
  /\ reply' = "refused"
  /\ UNCHANGED <<page, asked, form, sent, session, now, tried, wanted>>

Try(a) == {[action |-> k, at |-> now, nth |-> Counted(bucket[k]).count] : k \in Keys \cap {a}}

LetIn == /\ Waiting /\ Allows(sent)
         /\ Counts
         /\ tried' = tried \cup Try(sent)

\* The service says no: always what a new password without a session gets, and
\* never what a request for a reset link does.
ServeWrong ==
  /\ LetIn /\ sent # "reset"
  /\ reply' = "wrong"
  /\ UNCHANGED <<page, asked, form, sent, session, now, wanted>>

\* The service says yes. A new account may have to be confirmed before it is in.
ServeDone ==
  /\ LetIn
  /\ \/ sent \in {"signin", "otp"} /\ session' = TRUE
     \/ sent = "signup" /\ session' \in {session, TRUE}
     \/ sent = "password-set" /\ session /\ session' = session
     \/ sent = "reset" /\ session' = session
  /\ reply' = "done"
  /\ UNCHANGED <<page, asked, form, sent, now, wanted>>

\* The request or its answer is lost on the way.
Lost ==
  /\ Waiting
  /\ reply' = "lost"
  /\ UNCHANGED <<page, asked, form, sent, session, bucket, now, tried, wanted>>

Heard == /\ sent' = "" /\ reply' = ""
         /\ UNCHANGED <<session, bucket, now, tried, wanted>>

\* The page that asked is gone.
HearNothing ==
  /\ reply # "" /\ form # "sending"
  /\ Heard /\ UNCHANGED <<page, asked, form>>

HearError ==
  /\ reply \in {"refused", "wrong", "lost"} /\ form = "sending"
  /\ form' = "error"
  /\ Heard /\ UNCHANGED <<page, asked>>

HearLinkSent ==
  /\ reply = "done" /\ sent = "reset" /\ form = "sending"
  /\ form' = "sent"
  /\ Heard /\ UNCHANGED <<page, asked>>

\* redirectTo, or for a sign-in the page the address bar's ?redirect= names.
Target == IF sent = "password-set" THEN "/login"
             ELSE IF sent = "signin" /\ asked # "" THEN asked ELSE "/dashboard"

HearDone ==
  /\ reply = "done" /\ sent # "reset" /\ form = "sending"
  /\ Goes(Target)
  /\ form' = "idle"
  /\ Heard

\* Another tab signs in; another tab signs out, or the session runs out. This tab
\* sees it at its next request.
InElsewhere ==
  /\ Allows("signin") /\ CountsFor("signin") /\ tried' = tried \cup Try("signin")
  /\ session' = TRUE
  /\ UNCHANGED <<page, asked, form, sent, reply, now, wanted>>

OutElsewhere ==
  /\ session /\ session' = FALSE
  /\ UNCHANGED <<page, asked, form, sent, reply, bucket, now, tried, wanted>>

Tick ==
  /\ now < MaxTime /\ now' = now + 1
  /\ tried' = {n \in tried : n.at + Window > now'}
  /\ UNCHANGED <<page, asked, form, sent, reply, session, bucket, wanted>>

Next == \/ \E p \in Pages : Open(p)
        \/ Submit \/ ServeRefused \/ ServeWrong \/ ServeDone \/ Lost
        \/ HearNothing \/ HearError \/ HearLinkSent \/ HearDone
        \/ InElsewhere \/ OutElsewhere \/ Tick

Spec == Init /\ [][Next]_vars

-----------------------------------------------------------------------------
TypeOK ==
  /\ page \in Pages /\ asked \in Protected \cup {""}
  /\ form \in {"idle", "sending", "sent", "error"}
  /\ sent \in Actions \cup {""} /\ reply \in Replies
  /\ session \in BOOLEAN /\ now \in 0..MaxTime /\ wanted \in Protected \cup {""}
  /\ \A n \in tried : n.action \in Keys /\ n.nth \in 0..Limit
  /\ bucket \in [Keys -> [count : 0..Limit + 1, resetAt : 0..MaxTime + Window]]

\* A fixed window lets a burst through at the end of one window and another at
\* the start of the next, and no more: in any Window fewer than twice the limit
\* reach the account service, because the first of the older window is too old.
BurstBounded == \A a \in Keys : Cardinality(Recent(a)) < 2 * Limit

\* Nobody is turned away who has not used up the limit within the last Window:
\* a refused attempt counts, but does not hold the window open.
RefusedOnlyWhenFull ==
  [][reply' = "refused" /\ reply # "refused" /\ sent \in Keys =>
       Cardinality(Recent(sent)) >= Limit]_vars

\* The page behind the sign-in is the one the person last asked for, whichever
\* tabs signed in and out, and whichever errors were answered, on the way.
LandsWhereAsked ==
  page \in Protected /\ wanted # "" => page = wanted
=============================================================================
