------------------------------ MODULE Delivery ------------------------------
(***************************************************************************)
(* What the end of the publish/subscribe chain promises to a reader who    *)
(* does not want to know of its threads, queues and futures: items given   *)
(* to a set of consumers before the delivery is closed reach each of those *)
(* consumers once and in order, and the delivery finishes, after it was    *)
(* closed, only when everything has been delivered.  SubscriberChain       *)
(* implements it with one thread and two queues per subscriber.            *)
(***************************************************************************)
EXTENDS Naturals, Sequences

CONSTANTS Consumer, Item

VARIABLES
    submitted,      \* per consumer, the items given to it
    delivered,      \* per consumer, the items it has handled
    closed,         \* nothing is submitted any more
    finished        \* whoever waits for the end has been told

deliveryVars == <<submitted, delivered, closed, finished>>

Init ==
    /\ submitted = [c \in Consumer |-> <<>>]
    /\ delivered = [c \in Consumer |-> <<>>]
    /\ closed = FALSE
    /\ finished = FALSE

Submit(C, i) ==
    /\ ~closed
    /\ submitted' = [c \in Consumer |->
           IF c \in C THEN Append(submitted[c], i) ELSE submitted[c]]
    /\ UNCHANGED <<delivered, closed, finished>>

Deliver(c) ==
    /\ Len(delivered[c]) < Len(submitted[c])
    /\ delivered' = [delivered EXCEPT ![c] =
           Append(@, submitted[c][Len(@) + 1])]
    /\ UNCHANGED <<submitted, closed, finished>>

Close ==
    /\ ~closed
    /\ closed' = TRUE
    /\ UNCHANGED <<submitted, delivered, finished>>

Finish ==
    /\ closed
    /\ ~finished
    /\ delivered = submitted
    /\ finished' = TRUE
    /\ UNCHANGED <<submitted, delivered, closed>>

Next ==
    \/ \E C \in SUBSET Consumer, i \in Item : Submit(C, i)
    \/ \E c \in Consumer : Deliver(c)
    \/ Close
    \/ Finish

Safety == Init /\ [][Next]_deliveryVars

\* Everything submitted is delivered, and a closed delivery finishes.
Fairness ==
    /\ \A c \in Consumer : WF_deliveryVars(Deliver(c))
    /\ WF_deliveryVars(Finish)

Spec == Safety /\ Fairness

=============================================================================
