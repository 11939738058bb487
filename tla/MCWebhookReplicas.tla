------------------------- MODULE MCWebhookReplicas -------------------------
(***************************************************************************)
(* Three parts of the webhook outbox in one run, each of its own size:     *)
(* concurrent enqueues without a worker, two replicas delivering what one  *)
(* caller enqueues (both of WebhookOutbox), and the row leases of two      *)
(* replicas (DeliveryLease).  A behaviour belongs to one part, chosen at   *)
(* the start.                                                              *)
(***************************************************************************)
EXTENDS MCWebhookOutbox, DeliveryLease

CONSTANTS r1, r2

TwoReplicas == {r1, r2}
ReplicasSymmetry == Symmetry \cup Permutations(Replicas)

VARIABLE part \* the part this behaviour is about

ReplicasInit == part \in {"enqueue", "delivery", "lease"} /\ Init /\ LeaseInit

\* Three events, two callers, no worker.
EnqueuePart == part = "enqueue" /\ Next /\ UNCHANGED <<worker, leaseVars>>

\* Two events, e1 the first to get a sequence, one caller at a time, three
\* sequences, one fault.
SmallDelivery ==
    /\ \A c \in Callers : caller[c].step # "idle" =>
          /\ caller[c].event = e1 \/ (caller[c].event = e2 /\ sub.next > 1)
          /\ \A d \in Callers \ {c} : caller[d].step = "idle"
    /\ sub.next <= 3
    /\ faults <= 1

DeliveryPart ==
    part = "delivery" /\ Next /\ SmallDelivery' /\ UNCHANGED <<controller, leaseVars>>

\* At most one delivered write at a time is under way on its own.
LeasePart ==
    part = "lease" /\ LeaseNext /\ Cardinality(straggler') <= 1 /\ UNCHANGED vars

ReplicasSpec ==
    /\ ReplicasInit
    /\ [][(EnqueuePart \/ DeliveryPart \/ LeasePart) /\ UNCHANGED part]_<<part, vars, leaseVars>>
=============================================================================
