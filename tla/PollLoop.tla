------------------------------ MODULE PollLoop ------------------------------
(***************************************************************************)
(* The poll loops of the webhook worker                                    *)
(* (server/src/services/webhookOutboxWorker.ts) over the rows of several   *)
(* subscriptions, and what becomes of a row in the end.  A tick claims up  *)
(* to BATCH_SIZE rows that were due when it read the clock, those of the   *)
(* lowest subscription first, whatever the other subscriptions wait for.   *)
(*                                                                         *)
(* The writes of a row go by its id: also those of a loop that has         *)
(* outlived its lease.  WebhookOutbox has the order of the writes of one   *)
(* delivery, DeliveryLease the clock.  Nothing in the repository starts    *)
(* the loop yet: the module says what it does once it is started.          *)
(***************************************************************************)
EXTENDS Integers, FiniteSets

CONSTANTS
    Rows,        \* pairs of a subscription and a sequence, both numbers
    Loops,       \* replicas, one poll loop each
    BatchSize,   \* BATCH_SIZE
    MaxAttempts, \* MAX_ATTEMPTS
    MaxStops     \* bound on crashes and on failed database operations

VARIABLES
    status,       \* of each row
    attempts,     \* of each row
    ready,        \* rows whose nextAttemptAt has passed, without a valid lease
    subscription, \* whether each subscription is active, inactive or deleted
    seen,         \* rows each tick may still claim, of those that were ready
                  \* when it read the clock
    left,         \* how many more rows each tick claims
    loop,         \* the row each loop is busy with
    stops         \* crashes and failures so far

pollVars == <<status, attempts, ready, subscription, seen, left, loop, stops>>

Subscriptions == {r[1] : r \in Rows}

Asleep == [step |-> "asleep"]
Claiming == [step |-> "claim"]

PollInit ==
    /\ status = [r \in Rows |-> "absent"]
    /\ attempts = [r \in Rows |-> 0]
    /\ ready = {}
    /\ subscription = [s \in Subscriptions |-> "active"]
    /\ seen = [w \in Loops |-> {}]
    /\ left = [w \in Loops |-> 0]
    /\ loop = [w \in Loops |-> Asleep]
    /\ stops = 0

Moves(w, next) == loop' = [loop EXCEPT ![w] = next]

\* Who writes a row also moves its nextAttemptAt or its lease beyond the
\* reading of every tick under way.
OutOfSight(r) == seen' = [w \in Loops |-> seen[w] \ {r}]

\* enqueue, one row after the other.
EnqueueRow(r) ==
    /\ status[r] = "absent"
    /\ subscription[r[1]] = "active"
    /\ \A q \in Rows : q[1] = r[1] /\ q[2] < r[2] => status[q] # "absent"
    /\ status' = [status EXCEPT ![r] = "pending"]
    /\ ready' = ready \cup {r}
    /\ UNCHANGED <<attempts, subscription, seen, left, loop, stops>>

-----------------------------------------------------------------------------
(* The loop *)

\* A tick without due rows changes nothing.
BeginTick(w) ==
    /\ loop[w] = Asleep
    /\ ready # {}
    /\ seen' = [seen EXCEPT ![w] = ready]
    /\ left' = [left EXCEPT ![w] = BatchSize]
    /\ Moves(w, Claiming)
    /\ UNCHANGED <<status, attempts, ready, subscription, stops>>

\* The sort of claimRow.
Precedes(q, r) == q[1] < r[1] \/ (q[1] = r[1] /\ q[2] < r[2])

ClaimNext(w, r) ==
    /\ loop[w] = Claiming
    /\ left[w] > 0
    /\ r \in seen[w] /\ \A q \in seen[w] \ {r} : Precedes(r, q)
    /\ ready' = ready \ {r}
    /\ OutOfSight(r)
    /\ left' = [left EXCEPT ![w] = @ - 1]
    /\ Moves(w, [step |-> "load", row |-> r, attempt |-> attempts[r] + 1])
    /\ UNCHANGED <<status, attempts, subscription, stops>>


\* Row r waits for an earlier one of its subscription.
WaitsFor(q, r) ==
    q[1] = r[1] /\ q[2] < r[2] /\ status[q] \notin {"absent", "delivered"}

LoadRow(w) ==
    LET r == loop[w].row IN
    /\ loop[w].step = "load"
    /\ loop' = [loop EXCEPT ![w].step =
                  IF subscription[r[1]] = "deleted" THEN "dead"
                  ELSE IF \/ subscription[r[1]] = "inactive"
                          \/ \E q \in Rows : WaitsFor(q, r)
                  THEN "wait" ELSE "post"]
    /\ UNCHANGED <<status, attempts, ready, subscription, seen, left, stops>>

\* The attempt is free while the row waits.
RetryLater(w) ==
    LET r == loop[w].row
        n == loop[w].attempt
    IN /\ \/ loop[w].step = "wait" /\ attempts' = [attempts EXCEPT ![r] = n - 1]
          \/ /\ loop[w].step = "post" /\ n < MaxAttempts
             /\ attempts' = [attempts EXCEPT ![r] = n]
       /\ ready' = ready \ {r}
       /\ OutOfSight(r)
       /\ Moves(w, Claiming)
       /\ UNCHANGED <<status, subscription, left, stops>>

MarkDelivered(w) ==
    LET r == loop[w].row IN
    /\ loop[w].step = "post"
    /\ status' = [status EXCEPT ![r] = "delivered"]
    /\ ready' = ready \ {r}
    /\ OutOfSight(r)
    /\ Moves(w, Claiming)
    /\ UNCHANGED <<attempts, subscription, left, stops>>

\* Refused by the subscriber, or failed for the last time.  The failure may be
\* the one that disables the subscription.
MarkDeadLetter(w) ==
    LET r == loop[w].row IN
    /\ loop[w].step \in {"post", "dead"}
    /\ status' = [status EXCEPT ![r] = "dead_letter"]
    /\ ready' = ready \ {r}
    /\ OutOfSight(r)
    /\ \/ UNCHANGED subscription
       \/ /\ subscription[r[1]] = "active"
          /\ subscription' = [subscription EXCEPT ![r[1]] = "inactive"]
    /\ Moves(w, Claiming)
    /\ UNCHANGED <<attempts, left, stops>>

\* Nothing else is due, or the batch is full.
FinishTick(w) ==
    /\ loop[w] = Claiming
    /\ left[w] = 0 \/ seen[w] = {}
    /\ Moves(w, Asleep)
    /\ seen' = [seen EXCEPT ![w] = {}]
    /\ left' = [left EXCEPT ![w] = 0]
    /\ UNCHANGED <<status, attempts, ready, subscription, stops>>

LoopRuns(w) ==
    \/ BeginTick(w)
    \/ \E r \in Rows : ClaimNext(w, r)
    \/ LoadRow(w)
    \/ RetryLater(w)
    \/ MarkDelivered(w)
    \/ MarkDeadLetter(w)
    \/ FinishTick(w)

\* deliverRow throws: the loop goes on to the next row.
AbandonRow(w) ==
    /\ loop[w].step \in {"load", "wait", "post", "dead"}
    /\ stops < MaxStops /\ stops' = stops + 1
    /\ Moves(w, Claiming)
    /\ UNCHANGED <<status, attempts, ready, subscription, seen, left>>

\* claimRow throws, or the replica is restarted.
AbandonTick(w) ==
    /\ loop[w] # Asleep
    /\ stops < MaxStops /\ stops' = stops + 1
    /\ Moves(w, Asleep)
    /\ seen' = [seen EXCEPT ![w] = {}]
    /\ left' = [left EXCEPT ![w] = 0]
    /\ UNCHANGED <<status, attempts, ready, subscription>>

-----------------------------------------------------------------------------
(* Its environment *)

\* nextAttemptAt passes, or the lease runs out, be its holder done or not.
RowBecomesReady(r) ==
    /\ status[r] = "pending" /\ r \notin ready
    /\ ready' = ready \cup {r}
    /\ UNCHANGED <<status, attempts, subscription, seen, left, loop, stops>>

ReplayRow(r) ==
    /\ status[r] = "dead_letter"
    /\ status' = [status EXCEPT ![r] = "pending"]
    /\ attempts' = [attempts EXCEPT ![r] = 0]
    /\ ready' = ready \cup {r}
    /\ UNCHANGED <<subscription, seen, left, loop, stops>>

\* RegisterWebhook and DeleteWebhook.
Reactivate(s) ==
    /\ subscription[s] = "inactive"
    /\ subscription' = [subscription EXCEPT ![s] = "active"]
    /\ UNCHANGED <<status, attempts, ready, seen, left, loop, stops>>

DeleteSubscription(s) ==
    /\ subscription[s] # "deleted"
    /\ subscription' = [subscription EXCEPT ![s] = "deleted"]
    /\ UNCHANGED <<status, attempts, ready, seen, left, loop, stops>>

PollNext ==
    \/ \E r \in Rows : EnqueueRow(r) \/ RowBecomesReady(r) \/ ReplayRow(r)
    \/ \E w \in Loops : LoopRuns(w) \/ AbandonRow(w) \/ AbandonTick(w)
    \/ \E s \in Subscriptions : Reactivate(s) \/ DeleteSubscription(s)

PollSpec == PollInit /\ [][PollNext]_pollVars

\* The interval fires, the requests and database calls return, and time passes.
\* Nothing is assumed of the row a claim picks.
PollFairness ==
    /\ \A w \in Loops : WF_pollVars(LoopRuns(w))
    /\ \A r \in Rows : WF_pollVars(RowBecomesReady(r))

-----------------------------------------------------------------------------
(* Properties *)

Pending(r) == status[r] = "pending"

\* An earlier dead letter of its subscription holds the row back.
HeldBack(r) == \E q \in Rows : status[q] = "dead_letter" /\ WaitsFor(q, r)

\* Rows that come before r can fill a whole batch.
Crowded(r) ==
    Cardinality({q \in Rows : Pending(q) /\ Precedes(q, r)}) >= BatchSize

=============================================================================
