-------------------------- MODULE PurchaseDisputes --------------------------
(***************************************************************************)
(* The fulfillment record of one purchase and the disputes about it        *)
(* (server/src/services/purchaseDisputes.ts and routes/fulfillmentRoutes). *)
(* The unlock endpoint, the buyer, maintainers, the contract's indexer and *)
(* a sweep move it from status to status.  Each move is one conditional    *)
(* update; what a caller has read before it, and what it writes after it,  *)
(* are steps of their own.  Nothing relates the records of two purchases.  *)
(***************************************************************************)
EXTENDS Integers, Sequences, FiniteSets

CONSTANTS
    Callers,    \* calls in flight: requests, indexer, sweeps
    EventKeys,  \* idempotency keys of requests and events, reused by retries
    NoKey,      \* no key given
    MaxKeys,    \* MAX_EVENT_KEYS
    Timeout,    \* FULFILLMENT_TIMEOUT_MS in clock units
    MaxDate,    \* bound on the clock
    MaxLog      \* bound on the transitions of the record

ASSUME DisputeAssumption ==
    /\ MaxKeys \in Nat \ {0} /\ Timeout \in Nat
    /\ MaxDate \in Nat /\ MaxLog \in Nat

VARIABLES
    record, \* the FulfillmentRecord
    date,   \* wall clock
    call    \* what each caller is about to do

disputeVars == <<record, date, call>>

Never == -1
Idle  == [pc |-> "idle"]

Events == {"unlock_failed", "unlock_succeeded", "refund_requested",
           "retry_scheduled", "refund_approved", "refund_rejected", "resolved",
           "escalated", "refund_settled"}

Statuses == {"absent", "pending", "delivered", "failed", "retrying",
             "refund_requested", "refunded", "rejected", "resolved"}

\* Mutant: a failed unlock reopens a refunded purchase as well.
CanFailRefunded == Statuses \ {"absent", "refund_requested"}

CanFail == {"pending", "delivered", "failed", "retrying", "rejected", "resolved"}

\* DISPUTE_TRANSITIONS: the statuses an event moves a record out of, ...
From(e) ==
    CASE e = "unlock_failed" -> CanFail
      [] e \in {"unlock_succeeded", "refund_requested", "escalated"} ->
            {"pending", "failed", "retrying"}
      [] e = "retry_scheduled" -> {"failed", "refund_requested"}
      [] e \in {"refund_approved", "refund_settled"} ->
            {"failed", "retrying", "refund_requested"}
      [] e = "refund_rejected" -> {"refund_requested"}
      [] e = "resolved" -> {"failed", "retrying", "refund_requested", "rejected"}

\* ... and the status it moves it to.
To(e) ==
    CASE e = "unlock_failed" -> "failed"
      [] e = "unlock_succeeded" -> "delivered"
      [] e \in {"refund_requested", "escalated"} -> "refund_requested"
      [] e = "retry_scheduled" -> "retrying"
      [] e \in {"refund_approved", "refund_settled"} -> "refunded"
      [] e = "refund_rejected" -> "rejected"
      [] e = "resolved" -> "resolved"

Keys == EventKeys \cup {NoKey} \cup ({"stale"} \X Statuses \X Int)

LogEntry == [event : Events, key : Keys, at : Nat]

Record == [status : Statuses, since : Int, attemptedAt : Int,
           keys : Seq(Keys), log : Seq(LogEntry)]

DisputeTypeOK ==
    /\ record \in Record
    /\ date \in Nat
    /\ \A c \in Callers :
          \/ call[c] = Idle
          \/ call[c].pc \in {"insert", "refund", "deliver"} /\ call[c].key \in Keys
          \/ call[c].pc = "attempt" /\ call[c].at \in Nat
          \/ /\ call[c].pc = "escalate"
             /\ call[c].status \in Statuses /\ call[c].since \in Int
             /\ call[c].stamp \in Int

NewFulfillment(status, attempted) ==
    [status |-> status, since |-> Never, attemptedAt |-> attempted,
     keys |-> <<>>, log |-> <<>>]

\* No record yet, or a failed one from before the transitions were stamped.
DisputeInit ==
    /\ record \in {NewFulfillment("absent", Never), NewFulfillment("failed", 0)}
    /\ date = 0
    /\ call = [c \in Callers |-> Idle]

-----------------------------------------------------------------------------
(* applyDisputeTransition *)

\* Mutant: the key is not part of the filter.
AppliesAgain(e, key) == record.status \in From(e)

Applies(e, key) ==
    /\ record.status \in From(e)
    /\ \A i \in DOMAIN record.keys : record.keys[i] # key

\* $push with $slice: the newest MaxKeys keys are kept.
Pushed(key) ==
    LET all == Append(record.keys, key)
    IN IF key = NoKey THEN record.keys
       ELSE IF Len(all) <= MaxKeys THEN all ELSE Tail(all)

Moved(e, key) ==
    [record EXCEPT !.status = To(e), !.since = date, !.keys = Pushed(key),
                   !.log = Append(@, [event |-> e, key |-> key, at |-> date])]

Transition(e, key) ==
    /\ Len(record.log) < MaxLog
    /\ Applies(e, key)
    /\ record' = Moved(e, key)

Goes(c, next) == call' = [call EXCEPT ![c] = next]

\* One update and nothing else: maintainers (retry, resolve with or without a
\* refund, close), the indexer, and a successful unlock.
Act(e, key) ==
    /\ e \in Events \ {"unlock_failed", "escalated"}
    /\ Transition(e, key)
    /\ UNCHANGED <<date, call>>

\* A failed unlock moves the record, or is upserted when there is none; the
\* time of the first attempt is a second update.
UnlockFailed(c, key) ==
    /\ call[c] = Idle
    /\ \/ /\ Transition("unlock_failed", key)
          /\ Goes(c, [pc |-> "attempt", at |-> date])
       \/ /\ record.status = "absent"
          /\ Goes(c, [pc |-> "insert", key |-> key])
          /\ UNCHANGED record
    /\ UNCHANGED date

\* The insert half of the upsert.  If another caller was faster, the unique
\* index refuses it, and the failure is not applied.
InsertFailed(c) ==
    /\ call[c].pc = "insert"
    /\ IF record.status = "absent"
       THEN /\ record' = Moved("unlock_failed", call[c].key)
            /\ Goes(c, [pc |-> "attempt", at |-> date])
       ELSE /\ Goes(c, Idle)
            /\ UNCHANGED record
    /\ UNCHANGED date

StampAttempt(c) ==
    /\ call[c].pc = "attempt"
    /\ record' = [record EXCEPT !.attemptedAt =
                     IF @ = Never THEN call[c].at ELSE @]
    /\ Goes(c, Idle)
    /\ UNCHANGED date

-----------------------------------------------------------------------------
(* Routes that do more than one update *)

\* POST /: a service reports a purchase; only a missing record is written, and
\* a delivery is then applied as a transition.
ReportPurchase(c, status, key) ==
    /\ call[c] = Idle
    /\ record' = IF record.status = "absent" THEN NewFulfillment(status, Never) ELSE record
    /\ Goes(c, IF status = "delivered" THEN [pc |-> "deliver", key |-> key] ELSE Idle)
    /\ UNCHANGED date

ReportDelivered(c) ==
    /\ call[c].pc = "deliver"
    /\ \/ Transition("unlock_succeeded", call[c].key)
       \/ ~Applies("unlock_succeeded", call[c].key) /\ UNCHANGED record
    /\ Goes(c, Idle)
    /\ UNCHANGED date

\* isRefundEligible
Eligible ==
    \/ record.status = "retrying"
    \/ /\ record.status \in {"pending", "failed"}
       /\ record.attemptedAt = Never \/ date - record.attemptedAt > Timeout

RequestRefund(c, key) ==
    /\ call[c] = Idle
    /\ record.status = "refund_requested" \/ Eligible
    /\ Goes(c, [pc |-> "refund", key |-> key])
    /\ UNCHANGED <<record, date>>

SubmitRefund(c) ==
    /\ call[c].pc = "refund"
    /\ \/ Transition("refund_requested", call[c].key)
       \/ ~Applies("refund_requested", call[c].key) /\ UNCHANGED record
    /\ Goes(c, Idle)
    /\ UNCHANGED date

\* sweepStaleDisputes: the scan reads the stale record, ...
Since == IF record.since # Never THEN record.since ELSE record.attemptedAt

ScanStale(c) ==
    /\ call[c] = Idle
    /\ record.status \in From("escalated")
    /\ Since # Never /\ Since <= date - Timeout
    /\ Goes(c, [pc |-> "escalate", status |-> record.status, since |-> Since,
                stamp |-> record.since])
    /\ UNCHANGED <<record, date>>

StaleKey(c) == <<"stale", call[c].status, call[c].since>>

\* Mutant: the update does not check that the record is the one scanned.
UntouchedUnchecked(c) == TRUE

Untouched(c) == record.since = call[c].stamp

\* ... and the update escalates it unless it has changed in between.
Escalate(c) ==
    /\ call[c].pc = "escalate"
    /\ \/ Untouched(c) /\ Transition("escalated", StaleKey(c))
       \/ /\ ~(Untouched(c) /\ Applies("escalated", StaleKey(c)))
          /\ UNCHANGED record
    /\ Goes(c, Idle)
    /\ UNCHANGED date

\* A crash or a database error ends a call between its steps.
CallDies(c) ==
    /\ call[c] # Idle
    /\ Goes(c, Idle)
    /\ UNCHANGED <<record, date>>

DisputeClock ==
    /\ date < MaxDate
    /\ date' = date + 1
    /\ UNCHANGED <<record, call>>

DisputeNext ==
    \/ \E e \in Events, key \in EventKeys \cup {NoKey} : Act(e, key)
    \/ \E c \in Callers :
          \/ \E key \in EventKeys \cup {NoKey} :
                \/ UnlockFailed(c, key)
                \/ \E status \in {"pending", "delivered"} : ReportPurchase(c, status, key)
                \/ RequestRefund(c, key)
          \/ InsertFailed(c) \/ StampAttempt(c)
          \/ ReportDelivered(c) \/ SubmitRefund(c)
          \/ ScanStale(c) \/ Escalate(c)
          \/ CallDies(c)
    \/ DisputeClock

DisputeSpec == DisputeInit /\ [][DisputeNext]_disputeVars

-----------------------------------------------------------------------------
(* Properties *)

\* The case a record stands for.
Standing(status) ==
    CASE status = "absent" -> "none"
      [] status = "pending" -> "awaiting"
      [] status \in {"delivered", "rejected", "resolved"} -> "closed"
      [] status \in {"failed", "retrying", "refund_requested"} -> "open"
      [] status = "refunded" -> "refunded"

Case == INSTANCE DisputeCase WITH standing <- Standing(record.status)

\* The record implements the dispute case, whichever calls race: refunds are
\* granted for open cases only and are final, a closed case is refunded only
\* after it was opened again.
ImplementsCase == Case!CaseSpec

\* Idempotency keys (purchaseDisputes.ts:16): a redelivered event or a retried
\* request moves the record once; it could only be applied again after
\* MAX_EVENT_KEYS other keyed transitions pushed its key out.
KeyAppliedOnce ==
    \A i, j \in DOMAIN record.log :
        (i < j /\ record.log[i].key = record.log[j].key /\ record.log[i].key # NoKey) =>
            Cardinality({n \in (i + 1)..(j - 1) : record.log[n].key # NoKey}) >= MaxKeys

\* sweepStaleDisputes (purchaseDisputes.ts:260): only a record nobody has
\* touched for the whole timeout is escalated, even if someone acts on it, or
\* another sweep escalates it, between the scan and the update.
EscalatedOnlyWhenIdle ==
    \A i \in DOMAIN record.log :
        (record.log[i].event = "escalated" /\ i > 1) =>
            record.log[i].at - record.log[i - 1].at >= Timeout
=============================================================================
