--------------------------- MODULE DeliveryLease ---------------------------
(***************************************************************************)
(* The row leases of the webhook delivery worker                           *)
(* (server/src/services/webhookOutboxWorker.ts) with the clock they are    *)
(* measured against.  The poll loop reads the clock once per tick and      *)
(* claims up to BATCH_SIZE rows with that reading, one after the other:    *)
(* every lease of a batch ends LEASE_TTL_MS after the start of the tick,   *)
(* however late in the batch its row was claimed.                          *)
(*                                                                         *)
(* A claim is a compare-and-swap, but every later write of a row goes by   *)
(* its id alone and takes whatever lease the row has away: also the lease  *)
(* of another replica, when the write is a late one.                       *)
(*                                                                         *)
(* How long a row takes is left open: DELIVERY_TIMEOUT_MS is an idle       *)
(* timeout of each hop of the request, and the database calls have none.   *)
(***************************************************************************)
EXTENDS Integers

CONSTANTS
    Rows,     \* rows of the outbox, numbered in claim order
    Replicas, \* replicas, one poll loop each
    Batch,    \* BATCH_SIZE
    TTL,      \* LEASE_TTL_MS in clock units
    MaxTime,  \* bound on the clock
    MaxDelay  \* bound on the delay of a retry

ASSUME LeaseAssumption ==
    /\ Rows \subseteq Nat
    /\ Batch \in Nat \ {0} /\ TTL \in Nat
    /\ MaxTime \in Nat /\ MaxDelay \in Nat

VARIABLES
    clock,    \* wall clock of the replicas and of MongoDB
    status,   \* status of each row
    due,      \* nextAttemptAt of each row
    expiry,   \* leaseExpiresAt of each row, -1 for null
    tick,     \* the reading of the clock each worker's tick works with
    claims,   \* rows the tick has claimed so far
    posting,  \* the row the worker is in deliverRow with
    step,     \* how far deliverRow has come, see Steps
    straggler, \* rows whose delivered write is still under way although
               \* deliverRow has gone on without it
    lost      \* replicas in step deliver whose row was written by somebody
              \* else since they claimed it

leaseVars == <<clock, status, due, expiry, tick, claims, posting, step, straggler, lost>>

NoLease == -1
NoRow == -1

\* "deliver": up to the first write of the row, the HTTP request included;
\* "follow": the row is written, the writes of the subscription are left;
\* "catch": the request or a write failed, the catch block is about to write.
Steps == {"idle", "deliver", "follow", "catch"}

LeaseTypeOK ==
    /\ clock \in Nat
    /\ status \in [Rows -> {"pending", "delivered", "dead_letter"}]
    /\ due \in [Rows -> Nat]
    /\ expiry \in [Rows -> Nat \cup {NoLease}]
    /\ tick \in [Replicas -> Nat]
    /\ claims \in [Replicas -> 0..Batch]
    /\ posting \in [Replicas -> Rows \cup {NoRow}]
    /\ step \in [Replicas -> Steps]
    /\ \A w \in Replicas : step[w] = "idle" <=> posting[w] = NoRow
    /\ straggler \in SUBSET Rows
    /\ lost \subseteq {w \in Replicas : step[w] = "deliver"}

\* A worker between two ticks has no claims left.
LeaseInit ==
    /\ clock = 0
    /\ status = [r \in Rows |-> "pending"]
    /\ due = [r \in Rows |-> 0]
    /\ expiry = [r \in Rows |-> NoLease]
    /\ tick = [w \in Replicas |-> 0]
    /\ claims = [w \in Replicas |-> Batch]
    /\ posting = [w \in Replicas |-> NoRow]
    /\ step = [w \in Replicas |-> "idle"]
    /\ straggler = {}
    /\ lost = {}

Idle(w) == step[w] = "idle"

\* Mutant: the loop of the tick counts to BATCH_SIZE inclusive.
RoomForOneMore(w) == claims[w] <= Batch

Room(w) == claims[w] < Batch

\* In the middle of a tick.
Busy(w) == ~Idle(w) \/ Room(w)

\* In deliverRow, with the row's lease as far as the replica knows.
Delivers(w, r) == posting[w] = r /\ step[w] = "deliver"

\* setInterval fires, and tickInFlight is not set.
StartTick(w) ==
    /\ ~Busy(w)
    /\ tick' = [tick EXCEPT ![w] = clock]
    /\ claims' = [claims EXCEPT ![w] = 0]
    /\ UNCHANGED <<clock, status, due, expiry, posting, step, straggler, lost>>

\* Mutant: the lease of a row is ignored.
ClaimableRowLeased(w, r) == status[r] = "pending" /\ due[r] <= tick[w]

\* Mutant: a lease no longer counts in the millisecond it ends in.
ClaimableRowEarly(w, r) ==
    /\ status[r] = "pending"
    /\ due[r] <= tick[w]
    /\ expiry[r] = NoLease \/ expiry[r] <= tick[w]

\* The filter of claimRow, with the tick's reading of the clock.
ClaimableRow(w, r) ==
    /\ status[r] = "pending"
    /\ due[r] <= tick[w]
    /\ expiry[r] = NoLease \/ expiry[r] < tick[w]

ClaimRow(w, r) ==
    /\ Idle(w) /\ Room(w)
    /\ ClaimableRow(w, r) /\ \A q \in Rows : ClaimableRow(w, q) => r <= q
    /\ expiry' = [expiry EXCEPT ![r] = tick[w] + TTL]
    /\ claims' = [claims EXCEPT ![w] = @ + 1]
    /\ posting' = [posting EXCEPT ![w] = r]
    /\ step' = [step EXCEPT ![w] = "deliver"]
    /\ UNCHANGED <<clock, status, due, tick, straggler, lost>>

-----------------------------------------------------------------------------
(* The writes of a row *)

\* A write by id, on behalf of the replicas by: the row gets the status s
\* and has no lease afterwards, whoever held one.
Write(r, s, by) ==
    /\ status' = [status EXCEPT ![r] = s]
    /\ expiry' = [expiry EXCEPT ![r] = NoLease]
    /\ lost' = (lost \cup {v \in Replicas : Delivers(v, r)}) \ by

\* deliverRow goes on to step s.
Continue(w, s) ==
    /\ step' = [step EXCEPT ![w] = s]
    /\ posting' = [posting EXCEPT ![w] = IF s = "idle" THEN NoRow ELSE @]

\* markDelivered sends the write of the row and the one of the subscription
\* together: here the row's is the first to be through ...
MarkDelivered(w) ==
    /\ step[w] = "deliver"
    /\ Write(posting[w], "delivered", {w})
    /\ Continue(w, "follow")
    /\ UNCHANGED <<clock, due, tick, claims, straggler>>

\* ... and here the subscription's has failed while the row's is under way.
DeliveredWriteLate(w) ==
    /\ step[w] = "deliver"
    /\ straggler' = straggler \cup {posting[w]}
    /\ Continue(w, "catch")
    /\ lost' = lost \ {w}
    /\ UNCHANGED <<clock, status, due, expiry, tick, claims>>

\* It arrives after all, or never.
StragglerLands(r) ==
    /\ r \in straggler
    /\ straggler' = straggler \ {r}
    /\ \/ Write(r, "delivered", {})
       \/ UNCHANGED <<status, expiry, lost>>
    /\ UNCHANGED <<clock, due, tick, claims, posting, step>>

\* markDeadLetter writes the row before the subscription, in the body of
\* deliverRow or in its catch block, which nothing catches again.
DeadLetterRow(w) ==
    /\ step[w] \in {"deliver", "catch"}
    /\ Write(posting[w], "dead_letter", {w})
    /\ Continue(w, IF step[w] = "deliver" THEN "follow" ELSE "idle")
    /\ UNCHANGED <<clock, due, tick, claims, straggler>>

\* scheduleRetry leaves the status alone; a jittered backoff may be zero.
RetryRow(w, delay) ==
    /\ step[w] \in {"deliver", "catch"}
    /\ due' = [due EXCEPT ![posting[w]] = clock + delay]
    /\ Write(posting[w], status[posting[w]], {w})
    /\ Continue(w, IF step[w] = "deliver" THEN "follow" ELSE "idle")
    /\ UNCHANGED <<clock, tick, claims, straggler>>

\* The request fails, or a write does, or the answer to a write that was
\* made: the catch block is next.
Fails(w) ==
    /\ step[w] \in {"deliver", "follow"}
    /\ Continue(w, "catch")
    /\ lost' = lost \ {w}
    /\ UNCHANGED <<clock, status, due, expiry, tick, claims, straggler>>

\* deliverRow is over, normally or by an error outside its try block, which
\* the poll loop logs before it claims the next row.  The row stays as it is.
LeaveRow(w) ==
    /\ ~Idle(w)
    /\ Continue(w, "idle")
    /\ lost' = lost \ {w}
    /\ UNCHANGED <<clock, status, due, expiry, tick, claims, straggler>>

\* replayDeadLetter, an administrator's.
Replay(r) ==
    /\ status[r] = "dead_letter"
    /\ due' = [due EXCEPT ![r] = clock]
    /\ Write(r, "pending", {})
    /\ UNCHANGED <<clock, tick, claims, posting, step, straggler>>

\* claimRow finds nothing due or fails; or the replica crashes, at any
\* point, and leaves the lease of its row behind.
EndTick(w) ==
    /\ Busy(w)
    /\ claims' = [claims EXCEPT ![w] = Batch]
    /\ Continue(w, "idle")
    /\ lost' = lost \ {w}
    /\ UNCHANGED <<clock, status, due, expiry, tick, straggler>>

Advance ==
    /\ clock < MaxTime
    /\ clock' = clock + 1
    /\ UNCHANGED <<status, due, expiry, tick, claims, posting, step, straggler, lost>>

LeaseNext ==
    \/ \E w \in Replicas : StartTick(w)
    \/ \E w \in Replicas, r \in Rows : ClaimRow(w, r)
    \/ \E w \in Replicas : MarkDelivered(w)
    \/ \E w \in Replicas : DeliveredWriteLate(w)
    \/ \E r \in Rows : StragglerLands(r)
    \/ \E w \in Replicas : DeadLetterRow(w)
    \/ \E w \in Replicas, delay \in 0..MaxDelay : RetryRow(w, delay)
    \/ \E w \in Replicas : Fails(w)
    \/ \E w \in Replicas : LeaveRow(w)
    \/ \E r \in Rows : Replay(r)
    \/ \E w \in Replicas : EndTick(w)
    \/ Advance

LeaseSpec == LeaseInit /\ [][LeaseNext]_leaseVars

-----------------------------------------------------------------------------
(* Properties *)

\* The tick of w has gone on for longer than its leases.
Overran(w) == clock > tick[w] + TTL

\* What the compare-and-swap of claimRow gives: as long as a replica's tick
\* has not outlived its leases, and nobody else wrote the row since the
\* replica claimed it, the row is pending under the lease of its claim.
LeaseHeld ==
    \A w \in Replicas, r \in Rows :
        Delivers(w, r) /\ ~Overran(w) /\ w \notin lost =>
            status[r] = "pending" /\ expiry[r] = tick[w] + TTL

\* Two replicas deliver the same row at once (webhookOutboxWorker.ts:9-10 says
\* they never do) only if one of the two has outlived its lease, or has had
\* it taken away by a write of somebody else: a late write of the catch block,
\* a late delivered write, or that of a replica past its own lease.
BothDeliverOnlyPastLease ==
    \A v, w \in Replicas, r \in Rows :
        v # w /\ Delivers(v, r) /\ Delivers(w, r) =>
            \E u \in {v, w} : Overran(u) \/ u \in lost
=============================================================================
