----------------------------- MODULE ApprovalGate -----------------------------
(****************************************************************************)
(* What the review of marketplace orders promises, whatever route an order  *)
(* takes: work on an order starts only once those who have a say in it have *)
(* let it through.  Reviews are never taken back.                           *)
(****************************************************************************)
CONSTANTS Orders, ProviderReviews

VARIABLES
    granted,    \* who has let each order through
    started     \* orders whose work has begun

vars == <<granted, started>>

Reviewers == {"consumer", "provider", "agent"}

\* The provider's own agent speaks for both.
MayStart(who) ==
    \/ "agent" \in who
    \/ "consumer" \in who /\ (ProviderReviews => "provider" \in who)

Init ==
    /\ granted = [o \in Orders |-> {}]
    /\ started = {}

Record(o, who) == granted' = [granted EXCEPT ![o] = @ \cup {who}]

\* Work may begin in the step that records the last review.
Start ==
    /\ started \subseteq started'
    /\ started' \subseteq Orders
    /\ \A o \in started' \ started : MayStart(granted'[o])

Next ==
    /\ \/ UNCHANGED granted
       \/ \E o \in Orders, who \in Reviewers : Record(o, who)
    /\ Start

Spec == Init /\ [][Next]_vars
================================================================================
