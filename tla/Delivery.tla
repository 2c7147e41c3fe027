------------------------------ MODULE Delivery ------------------------------
(***************************************************************************)
(* What the dispatcher promises of the requests on its input stream: each  *)
(* one has at most one outcome.  Its result is queued once, and then sent  *)
(* or lost, never both and never twice; or it is rejected (dead-lettered)  *)
(* or ignored, and then nothing is sent.  A request is settled, so that it *)
(* is not looked at again, only when its outcome is decided.               *)
(***************************************************************************)
CONSTANT Id     \* the requests

VARIABLES outcome, settled

deliveryVars == <<outcome, settled>>

DeliveryInit ==
    /\ outcome = [id \in Id |-> "open"]
    /\ settled = {}

\* The outcome of the requests in S goes from one value to another.
Becomes(S, from, to) ==
    /\ \A id \in S : outcome[id] = from
    /\ outcome' = [id \in Id |-> IF id \in S THEN to ELSE outcome[id]]

Enqueue(id) == Becomes({id}, "open", "queued") /\ UNCHANGED settled

Send(id) == Becomes({id}, "queued", "sent") /\ UNCHANGED settled

\* A process that ends loses all it holds.
Lose == \E S \in SUBSET Id : Becomes(S, "queued", "lost") /\ UNCHANGED settled

Reject(id) == Becomes({id}, "open", "rejected") /\ UNCHANGED settled

Ignore(id) ==
    /\ Becomes({id}, "open", "ignored")
    /\ settled' = settled \cup {id}

Settle(id) ==
    /\ outcome[id] # "open" /\ id \notin settled
    /\ settled' = settled \cup {id}
    /\ UNCHANGED outcome

DeliveryNext ==
    \/ Lose
    \/ \E id \in Id :
        Enqueue(id) \/ Send(id) \/ Reject(id) \/ Ignore(id) \/ Settle(id)

DeliverySpec == DeliveryInit /\ [][DeliveryNext]_deliveryVars
=============================================================================
