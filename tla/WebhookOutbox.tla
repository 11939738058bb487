---------------------------- MODULE WebhookOutbox ----------------------------
(***************************************************************************)
(* The webhook outbox (server/src/services/webhookOutbox.ts and            *)
(* webhookOutboxWorker.ts), for the rows of one subscription.              *)
(*                                                                         *)
(* Callers of enqueue write one row per event; every replica's worker      *)
(* claims due rows and delivers them over HTTP.  MongoDB gives atomicity   *)
(* per document operation only, so each await of the code is a step        *)
(* boundary here, and the replicas interleave at those boundaries.         *)
(*                                                                         *)
(* Times are abstracted to one flag per row: ready stands for              *)
(* "nextAttemptAt has passed and no unexpired lease", i.e. for what        *)
(* claimRow's filter asks beyond the status.  Time may make a row ready    *)
(* at any moment, in particular while its last claimer is still working.   *)
(* Module DeliveryLease keeps the clock, module PollLoop the fairness of   *)
(* the loop and the other subscriptions.                                   *)
(***************************************************************************)
EXTENDS Integers, FiniteSets

CONSTANTS
    Events,       \* dedupe keys of the marketplace events
    Callers,      \* concurrent calls of enqueue
    Workers,      \* replicas running the delivery worker
    Controllers,  \* concurrent calls of the registration endpoint
    MaxAttempts,  \* MAX_ATTEMPTS
    MaxFailures,  \* MAX_FAILURES_BEFORE_DISABLE
    MaxSequence,  \* bound on the delivery sequence
    MaxFaults     \* bound on crashes and failed database operations

ASSUME OutboxAssumption ==
    /\ Events # {}
    /\ MaxAttempts \in Nat \ {0} /\ MaxFailures \in Nat \ {0}
    /\ MaxSequence \in Nat /\ MaxFaults \in Nat

VARIABLES
    sub,        \* the WebhookSubscription document
    row,        \* the WebhookOutboxEvent of each event, if any
    caller,     \* where each call of enqueue stands
    worker,     \* where each worker stands, with the row it loaded
    controller, \* registrations between findOne and save
    faults,     \* how many faults have happened
    \* History, read by the properties only:
    accepted,   \* events some delivery of which was answered with a 2xx
    enqueued,   \* events some enqueue of which returned normally
    contended,  \* two calls have enqueued the same event at the same time
    inSequence  \* every row so far was created after all lower sequences

data    == <<sub, row>>
history == <<accepted, enqueued, contended, inSequence>>
vars    == <<sub, row, caller, worker, controller, faults,
             accepted, enqueued, contended, inSequence>>

Statuses == {"absent", "pending", "delivered", "dead_letter"}

CallerSteps == {"idle", "check", "allocate", "create", "undo"}

\* "deliver": both writes of markDelivered are left; "deliverRow" and
\* "resetFailures": the other one is done.  "wait" and "retry" are the two uses
\* of scheduleRetry, with and without counting the attempt.  "dead", "count"
\* and "disable" are the three writes of markDeadLetter.
WorkerSteps == {"idle", "load", "check", "post", "deliver", "deliverRow",
                "resetFailures", "wait", "retry", "dead", "count", "disable"}

TypeOK ==
    /\ sub \in [exists : BOOLEAN, active : BOOLEAN, failures : Nat, next : Int]
    /\ row \in [Events -> [status : Statuses, seq : Int,
                           attempts : 0..(MaxAttempts - 1), ready : BOOLEAN]]
    /\ caller \in [Callers -> [step : CallerSteps, event : Events, seq : Int]]
    /\ worker \in [Workers -> [step : WorkerSteps, event : Events,
                               attempt : 1..MaxAttempts, inTry : BOOLEAN]]
    /\ controller \in [Controllers -> [step : {"idle", "save"},
                                       active : BOOLEAN, failures : Nat]]
    /\ faults \in 0..MaxFaults
    /\ accepted \subseteq Events /\ enqueued \subseteq Events
    /\ contended \in BOOLEAN /\ inSequence \in BOOLEAN

\* What is idle remembers nothing.
AnyEvent == CHOOSE e \in Events : TRUE
IdleCaller == [step |-> "idle", event |-> AnyEvent, seq |-> 0]
IdleWorker == [step |-> "idle", event |-> AnyEvent, attempt |-> 1, inTry |-> FALSE]
IdleController == [step |-> "idle", active |-> TRUE, failures |-> 0]

Init ==
    /\ sub = [exists |-> TRUE, active |-> TRUE, failures |-> 0, next |-> 1]
    /\ row = [e \in Events |-> [status |-> "absent", seq |-> 0,
                                attempts |-> 0, ready |-> FALSE]]
    /\ caller = [c \in Callers |-> IdleCaller]
    /\ worker = [w \in Workers |-> IdleWorker]
    /\ controller = [k \in Controllers |-> IdleController]
    /\ faults = 0
    /\ accepted = {} /\ enqueued = {}
    /\ contended = FALSE /\ inSequence = TRUE

Stored == {e \in Events : row[e].status # "absent"}

-----------------------------------------------------------------------------
(* enqueue *)

CallerGoes(c, step) == caller' = [caller EXCEPT ![c].step = step]
CallerEnds(c) == caller' = [caller EXCEPT ![c] = IdleCaller]

\* The call finds the active subscription, with a copy of its sequence.
Enqueue(c, e) ==
    /\ caller[c].step = "idle"
    /\ sub.exists /\ sub.active
    /\ caller' = [caller EXCEPT ![c] = [step |-> "check", event |-> e,
                                        seq |-> sub.next]]
    /\ contended' = (contended \/ \E d \in Callers :
                        caller[d].step # "idle" /\ caller[d].event = e)
    /\ UNCHANGED <<data, worker, controller, faults, accepted, enqueued, inSequence>>

CheckExisting(c) ==
    /\ caller[c].step = "check"
    /\ IF caller[c].event \in Stored
       THEN /\ CallerEnds(c)
            /\ enqueued' = enqueued \cup {caller[c].event}
       ELSE /\ CallerGoes(c, "allocate")
            /\ UNCHANGED enqueued
    /\ UNCHANGED <<data, worker, controller, faults, accepted, contended, inSequence>>

\* Mutant: the sequence comes from the copy read by find, not from the
\* document the $inc returned.
TakenSequenceStale(c) == caller[c].seq

\* The old value of the counter, or the copy's if the document is gone.
TakenSequence(c) == IF sub.exists THEN sub.next ELSE caller[c].seq

AllocateSequence(c) ==
    /\ caller[c].step = "allocate"
    /\ sub.next < MaxSequence
    /\ caller' = [caller EXCEPT ![c].step = "create", ![c].seq = TakenSequence(c)]
    /\ sub' = [sub EXCEPT !.next = IF sub.exists THEN @ + 1 ELSE @]
    /\ UNCHANGED <<row, worker, controller, faults, history>>

\* The unique indexes on (subscriptionId, dedupeKey) and (subscriptionId,
\* sequence) both answer with code 11000.
DuplicateKey(e, seq) == e \in Stored \/ \E d \in Stored : row[d].seq = seq

CreateRow(c) ==
    LET e == caller[c].event
        s == caller[c].seq IN
    /\ caller[c].step = "create"
    /\ IF DuplicateKey(e, s)
       THEN /\ CallerGoes(c, "undo")
            /\ UNCHANGED <<row, enqueued, inSequence>>
       ELSE /\ CallerEnds(c)
            /\ row' = [row EXCEPT ![e] = [status |-> "pending", seq |-> s,
                                          attempts |-> 0, ready |-> TRUE]]
            /\ enqueued' = enqueued \cup {e}
            /\ inSequence' = (inSequence /\ \A d \in Stored : row[d].seq < s)
    /\ UNCHANGED <<sub, worker, controller, faults, accepted, contended>>

\* Any 11000 is taken to mean "already enqueued": give the sequence back.
UndoSequence(c) ==
    /\ caller[c].step = "undo"
    /\ CallerEnds(c)
    /\ sub' = [sub EXCEPT !.next = IF sub.exists THEN @ - 1 ELSE @]
    /\ enqueued' = enqueued \cup {caller[c].event}
    /\ UNCHANGED <<row, worker, controller, faults, accepted, contended, inSequence>>

\* A database error other than 11000 is thrown to the caller, and a crash
\* ends the call as well: either way the call stops where it is.
EnqueueFails(c) ==
    /\ caller[c].step # "idle"
    /\ faults < MaxFaults
    /\ faults' = faults + 1
    /\ CallerEnds(c)
    /\ UNCHANGED <<data, worker, controller, history>>

-----------------------------------------------------------------------------
(* The delivery worker *)

WorkerGoes(w, step) == worker' = [worker EXCEPT ![w].step = step]
WorkerEnds(w) == worker' = [worker EXCEPT ![w] = IdleWorker]

Claimable == {e \in Events : row[e].status = "pending" /\ row[e].ready}

\* claimRow: an atomic findOneAndUpdate on the due row of lowest sequence.
Claim(w, e) ==
    /\ worker[w].step = "idle"
    /\ e \in Claimable
    /\ \A d \in Claimable : row[e].seq <= row[d].seq
    /\ row' = [row EXCEPT ![e].ready = FALSE]
    /\ worker' = [worker EXCEPT ![w] = [step |-> "load", event |-> e,
                                        attempt |-> row[e].attempts + 1,
                                        inTry |-> FALSE]]
    /\ UNCHANGED <<sub, caller, controller, faults, history>>

LoadSubscription(w) ==
    /\ worker[w].step = "load"
    /\ WorkerGoes(w, IF ~sub.exists THEN "dead"
                     ELSE IF ~sub.active THEN "wait" ELSE "check")
    /\ UNCHANGED <<data, caller, controller, faults, history>>

\* Mutant: only pending rows hold back the ones after them.
BlocksPendingOnly(d, e) == row[d].status = "pending" /\ row[d].seq < row[e].seq

\* Row d holds back row e.
Blocks(d, e) == row[d].status \notin {"absent", "delivered"} /\ row[d].seq < row[e].seq

CheckEarlier(w) ==
    /\ worker[w].step = "check"
    /\ WorkerGoes(w, IF \E d \in Events : Blocks(d, worker[w].event)
                     THEN "wait" ELSE "post")
    /\ UNCHANGED <<data, caller, controller, faults, history>>

\* Mutants: any answer below 400 counts as accepted; the limit on the attempts
\* is never reached; it is reached one attempt late.
VerdictBelow400(answer, attempt) ==
    CASE answer \in {"2xx", "3xx"} -> "deliver"
      [] answer \in {"4xx", "unsafe"} -> "dead"
      [] answer \in {"429", "5xx", "error"} ->
            IF attempt >= MaxAttempts THEN "dead" ELSE "retry"
VerdictOneMore(answer, attempt) ==
    CASE answer = "2xx" -> "deliver"
      [] answer \in {"3xx", "4xx", "unsafe"} -> "dead"
      [] answer \in {"429", "5xx", "error"} ->
            IF attempt > MaxAttempts THEN "dead" ELSE "retry"
VerdictWithoutLimit(answer, attempt) ==
    CASE answer = "2xx" -> "deliver"
      [] answer \in {"3xx", "4xx", "unsafe"} -> "dead"
      [] answer \in {"429", "5xx", "error"} -> "wait"

\* What deliverRow does with an answer; "error" is a network error or a
\* timeout, "unsafe" a target the SSRF guard refuses.
Verdict(answer, attempt) ==
    CASE answer = "2xx" -> "deliver"
      [] answer \in {"3xx", "4xx", "unsafe"} -> "dead"
      [] answer \in {"429", "5xx", "error"} ->
            IF attempt >= MaxAttempts THEN "dead" ELSE "retry"

\* The status branches write inside the try block, the catch block outside.
Post(w, answer) ==
    /\ worker[w].step = "post"
    /\ worker' = [worker EXCEPT ![w].step = Verdict(answer, worker[w].attempt),
                                ![w].inTry = answer \notin {"error", "unsafe"}]
    /\ accepted' = IF answer = "2xx" THEN accepted \cup {worker[w].event} ELSE accepted
    /\ UNCHANGED <<data, caller, controller, faults, enqueued, contended, inSequence>>

\* markDelivered: two updates in flight together, which land in either order.
MarkRowDelivered(w) ==
    LET e == worker[w].event IN
    /\ worker[w].step \in {"deliver", "deliverRow"}
    /\ row' = [row EXCEPT ![e].status = "delivered"]
    /\ IF worker[w].step = "deliver" THEN WorkerGoes(w, "resetFailures") ELSE WorkerEnds(w)
    /\ UNCHANGED <<sub, caller, controller, faults, history>>

ResetFailures(w) ==
    /\ worker[w].step \in {"deliver", "resetFailures"}
    /\ sub' = [sub EXCEPT !.failures = IF sub.exists THEN 0 ELSE @]
    /\ IF worker[w].step = "deliver" THEN WorkerGoes(w, "deliverRow") ELSE WorkerEnds(w)
    /\ UNCHANGED <<row, caller, controller, faults, history>>

\* scheduleRetry: unconditional, so it also hits a row another worker holds.
\* While it waits for the subscription or an earlier row, the attempt is free.
ScheduleRetry(w) ==
    LET e == worker[w].event IN
    /\ worker[w].step \in {"wait", "retry"}
    /\ row' = [row EXCEPT ![e].ready = FALSE,
                          ![e].attempts = IF worker[w].step = "retry"
                                          THEN worker[w].attempt
                                          ELSE worker[w].attempt - 1]
    /\ WorkerEnds(w)
    /\ UNCHANGED <<sub, caller, controller, faults, history>>

MarkDeadLetter(w) ==
    /\ worker[w].step = "dead"
    /\ row' = [row EXCEPT ![worker[w].event].status = "dead_letter"]
    /\ WorkerGoes(w, "count")
    /\ UNCHANGED <<sub, caller, controller, faults, history>>

\* The counter is only compared with the limit: it stops counting there.
CountFailure(w) ==
    /\ worker[w].step = "count"
    /\ IF sub.exists
       THEN /\ sub' = [sub EXCEPT !.failures = IF @ < MaxFailures THEN @ + 1 ELSE @]
            /\ IF sub'.failures >= MaxFailures THEN WorkerGoes(w, "disable") ELSE WorkerEnds(w)
       ELSE /\ WorkerEnds(w)
            /\ UNCHANGED sub
    /\ UNCHANGED <<row, caller, controller, faults, history>>

Disable(w) ==
    /\ worker[w].step = "disable"
    /\ sub' = [sub EXCEPT !.active = IF sub.exists THEN FALSE ELSE @]
    /\ WorkerEnds(w)
    /\ UNCHANGED <<row, caller, controller, faults, history>>

Writes == {"deliver", "deliverRow", "resetFailures", "retry", "dead", "count", "disable"}

\* A write that fails inside the try block lands in the catch block, which
\* treats it like a failed delivery, also after a 2xx.  The other update of
\* markDelivered has landed by then, or is lost with it.
WriteFails(w) ==
    /\ worker[w].step \in Writes
    /\ worker[w].inTry
    /\ faults < MaxFaults
    /\ faults' = faults + 1
    /\ worker' = [worker EXCEPT ![w].step = Verdict("error", worker[w].attempt),
                                ![w].inTry = FALSE]
    /\ UNCHANGED <<data, caller, controller, history>>

\* A crash, or an error outside the try block, leaves the lease to expire.
WorkerStops(w) ==
    /\ worker[w].step # "idle"
    /\ faults < MaxFaults
    /\ faults' = faults + 1
    /\ WorkerEnds(w)
    /\ UNCHANGED <<data, caller, controller, history>>

\* The backoff has passed, or the lease has expired.
BecomeReady(e) ==
    /\ row[e].status = "pending" /\ ~row[e].ready
    /\ row' = [row EXCEPT ![e].ready = TRUE]
    /\ UNCHANGED <<sub, caller, worker, controller, faults, history>>

-----------------------------------------------------------------------------
(* The webhook endpoints *)

ReplayDeadLetter(e) ==
    /\ row[e].status = "dead_letter"
    /\ row' = [row EXCEPT ![e] = [status |-> "pending", seq |-> row[e].seq,
                                  attempts |-> 0, ready |-> TRUE]]
    /\ UNCHANGED <<sub, caller, worker, controller, faults, history>>

\* RegisterWebhook for a wallet that has a subscription: findOne ...
RegisterFind(k) ==
    /\ controller[k].step = "idle"
    /\ sub.exists
    /\ controller' = [controller EXCEPT ![k] = [step |-> "save", active |-> sub.active,
                                                failures |-> sub.failures]]
    /\ UNCHANGED <<data, caller, worker, faults, history>>

\* ... and save, which writes the fields that differ from what was found.
RegisterSave(k) ==
    /\ controller[k].step = "save"
    /\ controller' = [controller EXCEPT ![k] = IdleController]
    /\ sub' = IF ~sub.exists THEN sub
              ELSE [sub EXCEPT
                      !.active = @ \/ ~controller[k].active,
                      !.failures = IF controller[k].failures = 0 THEN @ ELSE 0]
    /\ UNCHANGED <<row, caller, worker, faults, history>>

\* DeleteWebhook; registering again makes another subscription document, whose
\* rows are another instance of this module.
DeleteWebhook ==
    /\ sub.exists
    /\ sub' = [sub EXCEPT !.exists = FALSE]
    /\ UNCHANGED <<row, caller, worker, controller, faults, history>>

Answers == {"2xx", "3xx", "429", "4xx", "5xx", "error", "unsafe"}

CallerNext(c) ==
    \/ \E e \in Events : Enqueue(c, e)
    \/ CheckExisting(c)
    \/ AllocateSequence(c)
    \/ CreateRow(c)
    \/ UndoSequence(c)
    \/ EnqueueFails(c)

WorkerRuns(w) ==
    \/ \E e \in Events : Claim(w, e)
    \/ LoadSubscription(w)
    \/ CheckEarlier(w)
    \/ \E answer \in Answers : Post(w, answer)
    \/ MarkRowDelivered(w)
    \/ ResetFailures(w)
    \/ ScheduleRetry(w)
    \/ MarkDeadLetter(w)
    \/ CountFailure(w)
    \/ Disable(w)

Next ==
    \/ \E c \in Callers : CallerNext(c)
    \/ \E w \in Workers : WorkerRuns(w)
    \/ \E w \in Workers : WriteFails(w)
    \/ \E w \in Workers : WorkerStops(w)
    \/ \E e \in Events : BecomeReady(e)
    \/ \E e \in Events : ReplayDeadLetter(e)
    \/ \E k \in Controllers : RegisterFind(k)
    \/ \E k \in Controllers : RegisterSave(k)
    \/ DeleteWebhook

Spec == Init /\ [][Next]_vars

-----------------------------------------------------------------------------
(* Properties *)

\* As long as no event is enqueued by two calls at once and the subscription
\* is not deleted, an enqueue that returned normally has stored its row,
\* whatever other calls, crashes and failed database operations did to the
\* sequence counter in the meantime.
UncontendedEnqueueStored == ~contended /\ sub.exists => enqueued \subseteq Stored

\* A delivery that is reported as delivered was accepted by the subscriber,
\* even if several replicas worked on the row or their writes failed.
DeliveredMeansAccepted == \A e \in Events : row[e].status = "delivered" => e \in accepted

\* The subscriber accepts the events in the order of their sequences: retries,
\* dead letters, replays and overlapping workers do not let a later event
\* overtake an earlier one.  (Only as long as the rows themselves were stored
\* in that order: enqueue does not guarantee it.)
AcceptedInSequence ==
    inSequence =>
        \A d, e \in Stored :
            row[d].seq < row[e].seq /\ e \in accepted => d \in accepted
=============================================================================
