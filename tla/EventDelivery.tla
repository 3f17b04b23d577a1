---------------------------- MODULE EventDelivery -----------------------------
(***************************************************************************)
(* What the outbox promises for each domain event, whatever workers, leases *)
(* and retries do: MH-Core may receive it any number of times, it is called *)
(* published only if MH-Core received it, it ends published or in the dead  *)
(* letter state, and it never leaves either.                                *)
(***************************************************************************)
CONSTANT Events

VARIABLES outcome,     \* outcome[e]: "absent", "pending", "published", "dead_letter"
          received     \* the events MH-Core has accepted

deliveryVars == <<outcome, received>>

Settled == {"published", "dead_letter"}

DeliveryInit ==
    /\ outcome = [e \in Events |-> "absent"]
    /\ received = {}

Settle(e, from, to) ==
    /\ outcome[e] = from
    /\ outcome' = [outcome EXCEPT ![e] = to]
    /\ UNCHANGED received

Receive(e) ==
    /\ outcome[e] # "absent"
    /\ received' = received \cup {e}
    /\ UNCHANGED outcome

\* One recovery of expired leases may exhaust several events.
GiveUp(S) ==
    /\ \A e \in S : outcome[e] = "pending"
    /\ outcome' = [e \in Events |-> IF e \in S THEN "dead_letter" ELSE outcome[e]]
    /\ UNCHANGED received

DeliveryNext ==
    \/ \E e \in Events :
          \/ Settle(e, "absent", "pending")
          \/ Receive(e)
          \/ e \in received /\ Settle(e, "pending", "published")
    \/ \E S \in SUBSET Events : GiveUp(S)

DeliverySafety == DeliveryInit /\ [][DeliveryNext]_deliveryVars

DeliverySpec ==
    /\ DeliverySafety
    /\ \A e \in Events : outcome[e] = "pending" ~> outcome[e] \in Settled
===============================================================================
