--------------------------- MODULE BackgroundServices ---------------------------
(***************************************************************************)
(* What works in the background of a backend process, whatever it trades:  *)
(* the quote cache, the price stream and the notifications.  They share no *)
(* state, so nothing one of them does depends on how another's steps lie   *)
(* between its own: a behaviour is one of each service alone.              *)
(***************************************************************************)
EXTENDS QuoteCache, MarketStream, Notifications

VARIABLE part    \* the service that is looked at

bvars == <<qvars, svars, nvars, part>>

Init ==
    /\ QInit /\ SInit /\ NInit
    /\ part \in {"quotes", "stream", "notifications"}

Quotes == part = "quotes" /\ QNext /\ UNCHANGED <<svars, nvars>>
Stream == part = "stream" /\ SNext /\ UNCHANGED <<qvars, nvars>>
Notify == part = "notifications" /\ NNext /\ UNCHANGED <<qvars, svars>>

Next == (Quotes \/ Stream \/ Notify) /\ UNCHANGED part

Spec == Init /\ [][Next]_bvars
\* The fairness of a service asks nothing of one that is not looked at: it
\* rests in its initial state, where none of these steps is possible.
FairSpec == Spec /\ StreamFairness /\ NotificationsFairness
=============================================================================
