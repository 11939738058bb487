-------------------------- MODULE MCDeliveryLease --------------------------
(***************************************************************************)
(* Model-checking instances of DeliveryLease: what the worker's comment    *)
(* says of two replicas, with rows that never take long and operations     *)
(* that never fail.                                                        *)
(***************************************************************************)
EXTENDS DeliveryLease, TLC

CONSTANTS
    w1, w2,
    RowTime   \* the longest time from one claim to the next

TwoReplicas == {w1, w2}

Symmetry == Permutations(Replicas)

VARIABLE rowStart \* when each worker's tick began its current row

QuickInit == LeaseInit /\ rowStart = [w \in Replicas |-> 0]

\* Every row is delivered at the first attempt, in RowTime at most.
QuickNext ==
    \/ /\ \E w \in Replicas :
            /\ StartTick(w) \/ \E r \in Rows : ClaimRow(w, r)
            /\ rowStart' = [rowStart EXCEPT ![w] = clock]
    \/ /\ \E w \in Replicas :
            \/ MarkDelivered(w)
            \/ step[w] = "follow" /\ LeaveRow(w)
            \/ Idle(w) /\ EndTick(w) /\ ~\E r \in Rows : ClaimableRow(w, r)
       /\ UNCHANGED rowStart
    \/ /\ Advance
       /\ \A w \in Replicas : Busy(w) => clock < rowStart[w] + RowTime
       /\ UNCHANGED rowStart

QuickSpec == QuickInit /\ [][QuickNext]_<<leaseVars, rowStart>>

\* webhookOutboxWorker.ts:7-10 says a row is claimed only if no other worker
\* holds a valid lease, "so two replicas racing the same row never both
\* deliver it": the same statement, for the code's own constants.
DeliveredByOneReplica ==
    \A v, w \in Replicas, r \in Rows : Delivers(v, r) /\ Delivers(w, r) => v = w
=============================================================================
