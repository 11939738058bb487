------------------------ MODULE WebhookOutbox_proofs ------------------------
(***************************************************************************)
(* What holds of the webhook outbox for any number of events, concurrent   *)
(* enqueues, workers and registrations: the attempts of a row stay below   *)
(* MAX_ATTEMPTS, and uncontended enqueues store their rows.                *)
(***************************************************************************)
EXTENDS WebhookOutbox, TLAPS

RowType == [status : Statuses, seq : Int,
            attempts : 0..(MaxAttempts - 1), ready : BOOLEAN]
SubType == [exists : BOOLEAN, active : BOOLEAN, failures : Nat, next : Int]
CallerType == [step : CallerSteps, event : Events, seq : Int]
WorkerType == [step : WorkerSteps, event : Events,
               attempt : 1..MaxAttempts, inTry : BOOLEAN]

LEMMA AnyEventType == AnyEvent \in Events
BY OutboxAssumption DEF AnyEvent

LEMMA IdleTypes ==
    /\ IdleCaller \in CallerType
    /\ IdleWorker \in WorkerType
BY AnyEventType, OutboxAssumption
   DEF IdleCaller, CallerType, CallerSteps, IdleWorker, WorkerType, WorkerSteps

(***************************************************************************)
(* A worker that schedules a retry has attempts left.                      *)
(***************************************************************************)
RetriesLeft ==
    \A w \in Workers : worker[w].step = "retry" => worker[w].attempt < MaxAttempts

TypeInv == TypeOK /\ RetriesLeft

LEMMA VerdictType ==
    ASSUME NEW answer \in Answers, NEW attempt \in 1..MaxAttempts
    PROVE  /\ Verdict(answer, attempt) \in WorkerSteps
           /\ Verdict(answer, attempt) = "retry" => attempt < MaxAttempts
<1>1. CASE answer = "2xx"
  BY <1>1 DEF Verdict, WorkerSteps
<1>2. CASE answer \in {"3xx", "4xx", "unsafe"}
  BY <1>2 DEF Verdict, WorkerSteps
<1>3. CASE answer \in {"429", "5xx", "error"} /\ attempt >= MaxAttempts
  BY <1>3 DEF Verdict, WorkerSteps
<1>4. CASE answer \in {"429", "5xx", "error"} /\ ~(attempt >= MaxAttempts)
  BY <1>4, OutboxAssumption DEF Verdict, WorkerSteps
<1>5. QED
  BY <1>1, <1>2, <1>3, <1>4 DEF Answers

\* How a worker's record changes: it ends, goes to another step, or is set.
LEMMA WorkerMoves ==
    ASSUME TypeInv, NEW w \in Workers, NEW new \in WorkerType,
           new.step = "retry" => new.attempt < MaxAttempts,
           worker' = [worker EXCEPT ![w] = new]
    PROVE  /\ worker' \in [Workers -> WorkerType]
           /\ RetriesLeft'
<1>1. worker \in [Workers -> WorkerType]
  BY DEF TypeInv, TypeOK, WorkerType
<1>2. worker' \in [Workers -> WorkerType]
  BY <1>1
<1>3. \A v \in Workers : worker'[v] = IF v = w THEN new ELSE worker[v]
  BY <1>1
<1>4. QED
  BY <1>2, <1>3 DEF TypeInv, RetriesLeft

LEMMA WorkerEndsType ==
    ASSUME TypeInv, NEW w \in Workers, WorkerEnds(w)
    PROVE  /\ worker' \in [Workers -> WorkerType]
           /\ RetriesLeft'
<1>1. IdleWorker.step # "retry"
  BY DEF IdleWorker
<1>2. QED
  BY <1>1, IdleTypes, WorkerMoves DEF WorkerEnds

LEMMA WorkerGoesType ==
    ASSUME TypeInv, NEW w \in Workers, NEW step \in WorkerSteps \ {"retry"},
           WorkerGoes(w, step)
    PROVE  /\ worker' \in [Workers -> WorkerType]
           /\ RetriesLeft'
<1> DEFINE new == [worker[w] EXCEPT !.step = step]
<1>1. worker[w] \in WorkerType
  BY DEF TypeInv, TypeOK, WorkerType
<1>2. new \in WorkerType /\ new.step = step
  BY <1>1 DEF WorkerType
<1>3. worker' = [worker EXCEPT ![w] = new]
  BY DEF WorkerGoes
<1> HIDE DEF new
<1>4. QED
  BY <1>2, <1>3, WorkerMoves

Typed ==
    /\ sub \in SubType
    /\ row \in [Events -> RowType]
    /\ caller \in [Callers -> CallerType]
    /\ worker \in [Workers -> WorkerType]
    /\ controller \in [Controllers -> [step : {"idle", "save"},
                                       active : BOOLEAN, failures : Nat]]

LEMMA TypeInvTyped == TypeInv => Typed
BY DEF TypeInv, TypeOK, Typed, SubType, RowType, CallerType, WorkerType

\* The steps of enqueue.
LEMMA CallerTypeStep ==
    ASSUME TypeInv, NEW c \in Callers, CallerNext(c)
    PROVE  TypeInv'
<1> USE TypeInvTyped
<1>1. CASE \E e \in Events : Enqueue(c, e)
  <2>1. PICK e \in Events : Enqueue(c, e)
    BY <1>1
  <2> DEFINE new == [step |-> "check", event |-> e, seq |-> sub.next]
  <2>2. new \in CallerType
    BY DEF Typed, SubType, CallerType, CallerSteps
  <2>3. caller' = [caller EXCEPT ![c] = new]
    BY <2>1 DEF Enqueue
  <2> HIDE DEF new
  <2>4. caller' \in [Callers -> CallerType]
    BY <2>2, <2>3 DEF Typed
  <2>5. contended' \in BOOLEAN
    BY <2>1, ZenonT(30) DEF Enqueue, TypeInv, TypeOK
  <2>6. UNCHANGED <<sub, row, worker, controller, faults, accepted, enqueued, inSequence>>
    BY <2>1 DEF Enqueue, data
  <2>7. QED
    BY <2>4, <2>5, <2>6 DEF TypeInv, TypeOK, RetriesLeft, CallerType
<1>2. CASE CheckExisting(c)
  <2>1. caller' \in [Callers -> CallerType]
    <3>1. caller[c].event \in Events
      BY DEF Typed, CallerType
    <3>2. CASE caller[c].event \in Stored
      BY <1>2, <3>2, IdleTypes DEF CheckExisting, CallerEnds, Typed
    <3>3. CASE caller[c].event \notin Stored
      <4> DEFINE new == [caller[c] EXCEPT !.step = "allocate"]
      <4>1. new \in CallerType
        BY DEF Typed, CallerType, CallerSteps
      <4>2. caller' = [caller EXCEPT ![c] = new]
        BY <1>2, <3>3 DEF CheckExisting, CallerGoes
      <4> HIDE DEF new
      <4>3. QED
        BY <4>1, <4>2 DEF Typed
    <3>4. QED
      BY <3>2, <3>3
  <2>2. enqueued' \subseteq Events
    BY <1>2 DEF CheckExisting, TypeInv, TypeOK
  <2>3. QED
    BY <1>2, <2>1, <2>2 DEF CheckExisting, TypeInv, TypeOK, RetriesLeft, CallerType, data
<1>3. CASE AllocateSequence(c)
  <2> DEFINE new == [caller[c] EXCEPT !.step = "create", !.seq = TakenSequence(c)]
  <2>1. TakenSequence(c) \in Int
    BY DEF TakenSequence, Typed, SubType, CallerType
  <2>2. new \in CallerType
    BY <2>1 DEF Typed, CallerType, CallerSteps
  <2>3. caller' = [caller EXCEPT ![c] = new]
    BY <1>3 DEF AllocateSequence
  <2> HIDE DEF new
  <2>4. caller' \in [Callers -> CallerType]
    BY <2>2, <2>3 DEF Typed
  <2>5. sub' \in SubType
    BY <1>3 DEF AllocateSequence, Typed, SubType
  <2>6. QED
    BY <1>3, <2>4, <2>5
       DEF AllocateSequence, TypeInv, TypeOK, RetriesLeft, CallerType, SubType, history
<1>4. CASE CreateRow(c)
  <2> DEFINE new == [status |-> "pending", seq |-> caller[c].seq,
                     attempts |-> 0, ready |-> TRUE]
  <2>1. new \in RowType
    BY OutboxAssumption DEF Typed, CallerType, RowType, Statuses
  <2>2. row' = row \/ row' = [row EXCEPT ![caller[c].event] = new]
    BY <1>4 DEF CreateRow
  <2> HIDE DEF new
  <2>3. row' \in [Events -> RowType]
    BY <2>1, <2>2 DEF Typed
  <2>4. caller' \in [Callers -> CallerType]
    <3> DEFINE undo == [caller[c] EXCEPT !.step = "undo"]
    <3>1. undo \in CallerType
      BY DEF Typed, CallerType, CallerSteps
    <3>2. caller' = [caller EXCEPT ![c] = undo] \/ caller' = [caller EXCEPT ![c] = IdleCaller]
      BY <1>4 DEF CreateRow, CallerGoes, CallerEnds
    <3> HIDE DEF undo
    <3>3. QED
      BY <3>1, <3>2, IdleTypes DEF Typed
  <2>5. caller[c].event \in Events
    BY DEF Typed, CallerType
  <2>6. enqueued' \subseteq Events
    BY <1>4, <2>5 DEF CreateRow, TypeInv, TypeOK
  <2>7. inSequence' \in BOOLEAN
    BY <1>4, ZenonT(30) DEF CreateRow, TypeInv, TypeOK
  <2>8. UNCHANGED <<sub, worker, controller, faults, accepted, contended>>
    BY <1>4 DEF CreateRow
  <2>9. QED
    BY <2>3, <2>4, <2>6, <2>7, <2>8 DEF TypeInv, TypeOK, RetriesLeft, CallerType, RowType
<1>5. CASE UndoSequence(c)
  <2>1. caller' \in [Callers -> CallerType]
    BY <1>5, IdleTypes DEF UndoSequence, CallerEnds, Typed
  <2>2. sub' \in SubType
    BY <1>5 DEF UndoSequence, Typed, SubType
  <2>3. enqueued' \subseteq Events
    BY <1>5 DEF UndoSequence, Typed, CallerType, TypeInv, TypeOK
  <2>4. QED
    BY <1>5, <2>1, <2>2, <2>3
       DEF UndoSequence, TypeInv, TypeOK, RetriesLeft, CallerType, SubType
<1>6. CASE EnqueueFails(c)
  <2>1. caller' \in [Callers -> CallerType]
    BY <1>6, IdleTypes DEF EnqueueFails, CallerEnds, Typed
  <2>2. faults' \in 0..MaxFaults
    BY <1>6, OutboxAssumption DEF EnqueueFails, TypeInv, TypeOK
  <2>3. QED
    BY <1>6, <2>1, <2>2
       DEF EnqueueFails, TypeInv, TypeOK, RetriesLeft, CallerType, data, history
<1>7. QED
  BY <1>1, <1>2, <1>3, <1>4, <1>5, <1>6 DEF CallerNext

\* Closing a worker's step: the worker and one of the documents have changed.
LEMMA WorkerStepCloses ==
    ASSUME TypeInv, worker' \in [Workers -> WorkerType], RetriesLeft',
           sub' \in SubType, row' \in [Events -> RowType],
           accepted' \subseteq Events, faults' \in 0..MaxFaults,
           UNCHANGED <<caller, controller, enqueued, contended, inSequence>>
    PROVE  TypeInv'
BY DEF TypeInv, TypeOK, WorkerType, SubType, RowType

\* A row keeps its type when its readiness or its status changes.
LEMMA RowStepType ==
    ASSUME TypeInv, NEW e \in Events, NEW new \in RowType,
           row' = [row EXCEPT ![e] = new]
    PROVE  row' \in [Events -> RowType]
BY TypeInvTyped DEF Typed

LEMMA WorkerTypeStep ==
    ASSUME TypeInv, NEW w \in Workers, WorkerRuns(w)
    PROVE  TypeInv'
<1> USE TypeInvTyped
<1>0. /\ sub \in SubType /\ row \in [Events -> RowType]
      /\ worker[w] \in WorkerType /\ worker[w].event \in Events
      /\ worker[w].attempt \in 1..MaxAttempts
      /\ accepted \subseteq Events /\ faults \in 0..MaxFaults
      /\ row[worker[w].event] \in RowType
  BY DEF Typed, WorkerType, TypeInv, TypeOK
<1>1. CASE \E e \in Events : Claim(w, e)
  <2>1. PICK e \in Events : Claim(w, e)
    BY <1>1
  <2> DEFINE job == [step |-> "load", event |-> e,
                     attempt |-> row[e].attempts + 1, inTry |-> FALSE]
             new == [row[e] EXCEPT !.ready = FALSE]
  <2>2. row[e] \in RowType /\ row[e].attempts \in 0..(MaxAttempts - 1)
    BY <1>0 DEF RowType
  <2>3. row[e].attempts + 1 \in 1..MaxAttempts
    BY <2>2, OutboxAssumption
  <2>4. job \in WorkerType /\ job.step # "retry"
    BY <2>3 DEF WorkerType, WorkerSteps
  <2>5. new \in RowType
    BY <2>2 DEF RowType
  <2>6. worker' = [worker EXCEPT ![w] = job] /\ row' = [row EXCEPT ![e] = new]
    BY <2>1 DEF Claim
  <2> HIDE DEF job, new
  <2>7. worker' \in [Workers -> WorkerType] /\ RetriesLeft'
    BY <2>4, <2>6, WorkerMoves
  <2>8. row' \in [Events -> RowType]
    BY <2>5, <2>6, RowStepType
  <2>9. UNCHANGED <<sub, caller, controller, faults, accepted, enqueued, contended, inSequence>>
    BY <2>1 DEF Claim, history
  <2>10. QED
    BY <2>7, <2>8, <2>9, <1>0, WorkerStepCloses
<1>2. CASE LoadSubscription(w)
  <2>1. worker' \in [Workers -> WorkerType] /\ RetriesLeft'
    <3>1. PICK step \in {"dead", "wait", "check"} : WorkerGoes(w, step)
      BY <1>2 DEF LoadSubscription
    <3>2. step \in WorkerSteps \ {"retry"}
      BY DEF WorkerSteps
    <3>3. QED
      BY <3>1, <3>2, WorkerGoesType
  <2>2. UNCHANGED <<sub, row, caller, controller, faults, accepted, enqueued, contended, inSequence>>
    BY <1>2 DEF LoadSubscription, data, history
  <2>3. QED
    BY <2>1, <2>2, <1>0, WorkerStepCloses
<1>3. CASE CheckEarlier(w)
  <2>1. worker' \in [Workers -> WorkerType] /\ RetriesLeft'
    <3>1. PICK step \in {"wait", "post"} : WorkerGoes(w, step)
      BY <1>3 DEF CheckEarlier
    <3>2. step \in WorkerSteps \ {"retry"}
      BY DEF WorkerSteps
    <3>3. QED
      BY <3>1, <3>2, WorkerGoesType
  <2>2. UNCHANGED <<sub, row, caller, controller, faults, accepted, enqueued, contended, inSequence>>
    BY <1>3 DEF CheckEarlier, data, history
  <2>3. QED
    BY <2>1, <2>2, <1>0, WorkerStepCloses
<1>4. CASE \E answer \in Answers : Post(w, answer)
  <2>1. PICK answer \in Answers : Post(w, answer)
    BY <1>4
  <2> DEFINE verdict == Verdict(answer, worker[w].attempt)
             new == [worker[w] EXCEPT !.step = verdict,
                                      !.inTry = answer \notin {"error", "unsafe"}]
  <2>2. verdict \in WorkerSteps /\ (verdict = "retry" => worker[w].attempt < MaxAttempts)
    BY <1>0, VerdictType
  <2>3. worker' = [worker EXCEPT ![w] = new]
    BY <2>1 DEF Post
  <2> HIDE DEF verdict
  <2>4. /\ new \in WorkerType
        /\ new.step = verdict
        /\ new.attempt = worker[w].attempt
    BY <1>0, <2>2 DEF WorkerType
  <2> HIDE DEF new
  <2>5. worker' \in [Workers -> WorkerType] /\ RetriesLeft'
    BY <2>2, <2>3, <2>4, WorkerMoves
  <2>6. accepted' \subseteq Events
    BY <2>1, <1>0 DEF Post
  <2>7. UNCHANGED <<sub, row, caller, controller, faults, enqueued, contended, inSequence>>
    BY <2>1 DEF Post, data
  <2>8. QED
    BY <2>5, <2>6, <2>7, <1>0, WorkerStepCloses
<1>5. CASE MarkRowDelivered(w)
  <2> DEFINE new == [row[worker[w].event] EXCEPT !.status = "delivered"]
  <2>1. new \in RowType
    BY <1>0 DEF RowType, Statuses
  <2>2. row' = [row EXCEPT ![worker[w].event] = new]
    BY <1>5 DEF MarkRowDelivered
  <2> HIDE DEF new
  <2>3. row' \in [Events -> RowType]
    BY <2>1, <2>2, <1>0, RowStepType
  <2>4. WorkerGoes(w, "resetFailures") \/ WorkerEnds(w)
    BY <1>5 DEF MarkRowDelivered
  <2>5. "resetFailures" \in WorkerSteps \ {"retry"}
    BY DEF WorkerSteps
  <2>6. worker' \in [Workers -> WorkerType] /\ RetriesLeft'
    BY <2>4, <2>5, WorkerGoesType, WorkerEndsType
  <2>7. UNCHANGED <<sub, caller, controller, faults, accepted, enqueued, contended, inSequence>>
    BY <1>5 DEF MarkRowDelivered, history
  <2>8. QED
    BY <2>3, <2>6, <2>7, <1>0, WorkerStepCloses
<1>6. CASE ResetFailures(w)
  <2>1. sub' \in SubType
    BY <1>6, <1>0 DEF ResetFailures, SubType
  <2>2. WorkerGoes(w, "deliverRow") \/ WorkerEnds(w)
    BY <1>6 DEF ResetFailures
  <2>3. "deliverRow" \in WorkerSteps \ {"retry"}
    BY DEF WorkerSteps
  <2>4. worker' \in [Workers -> WorkerType] /\ RetriesLeft'
    BY <2>2, <2>3, WorkerGoesType, WorkerEndsType
  <2>5. UNCHANGED <<row, caller, controller, faults, accepted, enqueued, contended, inSequence>>
    BY <1>6 DEF ResetFailures, history
  <2>6. QED
    BY <2>1, <2>4, <2>5, <1>0, WorkerStepCloses
<1>7. CASE ScheduleRetry(w)
  <2> DEFINE left == IF worker[w].step = "retry" THEN worker[w].attempt
                                                 ELSE worker[w].attempt - 1
             new == [row[worker[w].event] EXCEPT !.ready = FALSE, !.attempts = left]
  <2>1. worker[w].step = "retry" => worker[w].attempt < MaxAttempts
    BY DEF TypeInv, RetriesLeft
  <2>2. left \in 0..(MaxAttempts - 1)
    BY <1>0, <2>1, OutboxAssumption
  <2>3. row' = [row EXCEPT ![worker[w].event] = new]
    BY <1>7 DEF ScheduleRetry
  <2> HIDE DEF left
  <2>4. new \in RowType
    BY <1>0, <2>2 DEF RowType
  <2> HIDE DEF new
  <2>5. row' \in [Events -> RowType]
    BY <2>3, <2>4, <1>0, RowStepType
  <2>6. worker' \in [Workers -> WorkerType] /\ RetriesLeft'
    BY <1>7, WorkerEndsType DEF ScheduleRetry
  <2>7. UNCHANGED <<sub, caller, controller, faults, accepted, enqueued, contended, inSequence>>
    BY <1>7 DEF ScheduleRetry, history
  <2>8. QED
    BY <2>5, <2>6, <2>7, <1>0, WorkerStepCloses
<1>8. CASE MarkDeadLetter(w)
  <2> DEFINE new == [row[worker[w].event] EXCEPT !.status = "dead_letter"]
  <2>1. new \in RowType
    BY <1>0 DEF RowType, Statuses
  <2>2. row' = [row EXCEPT ![worker[w].event] = new]
    BY <1>8 DEF MarkDeadLetter
  <2> HIDE DEF new
  <2>3. row' \in [Events -> RowType]
    BY <2>1, <2>2, <1>0, RowStepType
  <2>4. "count" \in WorkerSteps \ {"retry"}
    BY DEF WorkerSteps
  <2>5. worker' \in [Workers -> WorkerType] /\ RetriesLeft'
    BY <1>8, <2>4, WorkerGoesType DEF MarkDeadLetter
  <2>6. UNCHANGED <<sub, caller, controller, faults, accepted, enqueued, contended, inSequence>>
    BY <1>8 DEF MarkDeadLetter, history
  <2>7. QED
    BY <2>3, <2>5, <2>6, <1>0, WorkerStepCloses
<1>9. CASE CountFailure(w)
  <2>1. sub' \in SubType
    BY <1>9, <1>0 DEF CountFailure, SubType
  <2>2. WorkerGoes(w, "disable") \/ WorkerEnds(w)
    BY <1>9 DEF CountFailure
  <2>3. "disable" \in WorkerSteps \ {"retry"}
    BY DEF WorkerSteps
  <2>4. worker' \in [Workers -> WorkerType] /\ RetriesLeft'
    BY <2>2, <2>3, WorkerGoesType, WorkerEndsType
  <2>5. UNCHANGED <<row, caller, controller, faults, accepted, enqueued, contended, inSequence>>
    BY <1>9 DEF CountFailure, history
  <2>6. QED
    BY <2>1, <2>4, <2>5, <1>0, WorkerStepCloses
<1>10. CASE Disable(w)
  <2>1. sub' \in SubType
    BY <1>10, <1>0 DEF Disable, SubType
  <2>2. worker' \in [Workers -> WorkerType] /\ RetriesLeft'
    BY <1>10, WorkerEndsType DEF Disable
  <2>3. UNCHANGED <<row, caller, controller, faults, accepted, enqueued, contended, inSequence>>
    BY <1>10 DEF Disable, history
  <2>4. QED
    BY <2>1, <2>2, <2>3, <1>0, WorkerStepCloses
<1>11. QED
  BY <1>1, <1>2, <1>3, <1>4, <1>5, <1>6, <1>7, <1>8, <1>9, <1>10 DEF WorkerRuns

LEMMA TypeInvStep == TypeInv /\ [Next]_vars => TypeInv'
<1> SUFFICES ASSUME TypeInv, [Next]_vars
             PROVE  TypeInv'
  OBVIOUS
<1> USE TypeInvTyped
<1>1. CASE \E c \in Callers : CallerNext(c)
  BY <1>1, CallerTypeStep
<1>2. CASE \E w \in Workers : WorkerRuns(w)
  BY <1>2, WorkerTypeStep
<1>3. ASSUME NEW w \in Workers, WriteFails(w)
      PROVE  TypeInv'
  <2> DEFINE verdict == Verdict("error", worker[w].attempt)
             new == [worker[w] EXCEPT !.step = verdict, !.inTry = FALSE]
  <2>1. worker[w] \in WorkerType /\ worker[w].attempt \in 1..MaxAttempts
    BY DEF Typed, WorkerType
  <2>2. verdict \in WorkerSteps /\ (verdict = "retry" => worker[w].attempt < MaxAttempts)
    BY <2>1, VerdictType DEF Answers
  <2>3. worker' = [worker EXCEPT ![w] = new]
    BY <1>3 DEF WriteFails
  <2> HIDE DEF verdict
  <2>4. /\ new \in WorkerType
        /\ new.step = verdict
        /\ new.attempt = worker[w].attempt
    BY <2>1, <2>2 DEF WorkerType
  <2> HIDE DEF new
  <2>5. worker' \in [Workers -> WorkerType] /\ RetriesLeft'
    BY <2>2, <2>3, <2>4, WorkerMoves
  <2>6. faults' \in 0..MaxFaults
    BY <1>3, OutboxAssumption DEF WriteFails, TypeInv, TypeOK
  <2>7. UNCHANGED <<sub, row, caller, controller, accepted, enqueued, contended, inSequence>>
    BY <1>3 DEF WriteFails, data, history
  <2>8. QED
    BY <2>5, <2>6, <2>7, WorkerStepCloses DEF Typed, TypeInv, TypeOK
<1>4. ASSUME NEW w \in Workers, WorkerStops(w)
      PROVE  TypeInv'
  <2>1. worker' \in [Workers -> WorkerType] /\ RetriesLeft'
    BY <1>4, WorkerEndsType DEF WorkerStops
  <2>2. faults' \in 0..MaxFaults
    BY <1>4, OutboxAssumption DEF WorkerStops, TypeInv, TypeOK
  <2>3. UNCHANGED <<sub, row, caller, controller, accepted, enqueued, contended, inSequence>>
    BY <1>4 DEF WorkerStops, data, history
  <2>4. QED
    BY <2>1, <2>2, <2>3, WorkerStepCloses DEF Typed, TypeInv, TypeOK
<1>5. ASSUME NEW e \in Events, BecomeReady(e)
      PROVE  TypeInv'
  <2> DEFINE new == [row[e] EXCEPT !.ready = TRUE]
  <2>1. new \in RowType
    BY DEF Typed, RowType
  <2>2. row' = [row EXCEPT ![e] = new]
    BY <1>5 DEF BecomeReady
  <2> HIDE DEF new
  <2>3. row' \in [Events -> RowType]
    BY <2>1, <2>2, RowStepType
  <2>4. UNCHANGED <<sub, caller, worker, controller, faults, accepted, enqueued, contended, inSequence>>
    BY <1>5 DEF BecomeReady, history
  <2>5. QED
    BY <2>3, <2>4 DEF TypeInv, TypeOK, RetriesLeft, RowType
<1>6. ASSUME NEW e \in Events, ReplayDeadLetter(e)
      PROVE  TypeInv'
  <2> DEFINE new == [status |-> "pending", seq |-> row[e].seq,
                     attempts |-> 0, ready |-> TRUE]
  <2>1. new \in RowType
    BY OutboxAssumption DEF Typed, RowType, Statuses
  <2>2. row' = [row EXCEPT ![e] = new]
    BY <1>6 DEF ReplayDeadLetter
  <2> HIDE DEF new
  <2>3. row' \in [Events -> RowType]
    BY <2>1, <2>2, RowStepType
  <2>4. UNCHANGED <<sub, caller, worker, controller, faults, accepted, enqueued, contended, inSequence>>
    BY <1>6 DEF ReplayDeadLetter, history
  <2>5. QED
    BY <2>3, <2>4 DEF TypeInv, TypeOK, RetriesLeft, RowType
<1>7. ASSUME NEW k \in Controllers, RegisterFind(k)
      PROVE  TypeInv'
  <2>1. controller' \in [Controllers -> [step : {"idle", "save"},
                                         active : BOOLEAN, failures : Nat]]
    BY <1>7 DEF RegisterFind, Typed, SubType
  <2>2. UNCHANGED <<sub, row, caller, worker, faults, accepted, enqueued, contended, inSequence>>
    BY <1>7 DEF RegisterFind, data, history
  <2>3. QED
    BY <2>1, <2>2 DEF TypeInv, TypeOK, RetriesLeft
<1>8. ASSUME NEW k \in Controllers, RegisterSave(k)
      PROVE  TypeInv'
  <2>1. controller' \in [Controllers -> [step : {"idle", "save"},
                                         active : BOOLEAN, failures : Nat]]
    BY <1>8 DEF RegisterSave, Typed, IdleController
  <2>2. sub' \in SubType
    BY <1>8 DEF RegisterSave, Typed, SubType
  <2>3. UNCHANGED <<row, caller, worker, faults, accepted, enqueued, contended, inSequence>>
    BY <1>8 DEF RegisterSave, history
  <2>4. QED
    BY <2>1, <2>2, <2>3 DEF TypeInv, TypeOK, RetriesLeft, SubType
<1>9. CASE DeleteWebhook
  <2>1. sub' \in SubType
    BY <1>9 DEF DeleteWebhook, Typed, SubType
  <2>2. UNCHANGED <<row, caller, worker, controller, faults, accepted, enqueued, contended, inSequence>>
    BY <1>9 DEF DeleteWebhook, history
  <2>3. QED
    BY <2>1, <2>2 DEF TypeInv, TypeOK, RetriesLeft, SubType
<1>10. CASE UNCHANGED vars
  BY <1>10 DEF vars, TypeInv, TypeOK, RetriesLeft
<1>11. QED
  BY <1>1, <1>2, <1>3, <1>4, <1>5, <1>6, <1>7, <1>8, <1>9, <1>10 DEF Next

LEMMA TypeInvInit == Init => TypeInv
<1> SUFFICES ASSUME Init
             PROVE  TypeInv
  OBVIOUS
<1>1. sub \in SubType /\ row \in [Events -> RowType]
  BY OutboxAssumption DEF Init, SubType, RowType, Statuses
<1>2. caller \in [Callers -> CallerType] /\ worker \in [Workers -> WorkerType]
  BY IdleTypes DEF Init
<1>3. controller \in [Controllers -> [step : {"idle", "save"},
                                      active : BOOLEAN, failures : Nat]]
  BY DEF Init, IdleController
<1>4. RetriesLeft
  BY DEF Init, RetriesLeft, IdleWorker
<1>5. faults \in 0..MaxFaults
  BY OutboxAssumption DEF Init
<1>6. /\ accepted \subseteq Events /\ enqueued \subseteq Events
      /\ contended \in BOOLEAN /\ inSequence \in BOOLEAN
  BY DEF Init
<1>7. QED
  BY <1>1, <1>2, <1>3, <1>4, <1>5, <1>6
     DEF TypeInv, TypeOK, SubType, RowType, CallerType, WorkerType

\* Every document and every process of the outbox keeps its type; the part
\* that can go wrong is attempts, which deliverRow has to stop in time: no
\* interleaving of workers, lost leases, failed writes and replays takes a row
\* to MAX_ATTEMPTS scheduled retries.
THEOREM TypeCorrect == Spec => []TypeOK
<1>1. TypeInv => TypeOK
  BY DEF TypeInv
<1>2. QED
  BY <1>1, TypeInvInit, TypeInvStep, PTL DEF Spec

-----------------------------------------------------------------------------
(***************************************************************************)
(* Uncontended enqueues.  As long as no event is enqueued twice at once, a *)
(* call that is past its check is the only one with its event, and the     *)
(* sequence it has taken is below the counter and nobody else's: creating  *)
(* the row cannot fail with a duplicate key, so no sequence is given back. *)
(***************************************************************************)
Exclusive ==
    \A c, d \in Callers :
        /\ caller[c].step # "idle" /\ caller[d].step # "idle"
        /\ caller[c].event = caller[d].event
        => c = d

Fresh(c) ==
    /\ caller[c].step # "undo"
    /\ caller[c].step \in {"allocate", "create"} => caller[c].event \notin Stored
    /\ caller[c].step = "create" =>
          /\ caller[c].seq < sub.next
          /\ \A e \in Stored : row[e].seq # caller[c].seq
          /\ \A d \in Callers : caller[d].step = "create" /\ caller[d].seq = caller[c].seq => c = d

SequencesTaken == \A e \in Stored : row[e].seq < sub.next

EnqueueFacts ==
    /\ enqueued \subseteq Stored
    /\ Exclusive
    /\ \A c \in Callers : Fresh(c)
    /\ SequencesTaken

EnqueueInv == ~contended /\ sub.exists => EnqueueFacts

\* A step that leaves alone what enqueue works with.
LEMMA EnqueueFrame ==
    ASSUME TypeInv, EnqueueInv,
           sub'.exists => sub.exists, sub'.next = sub.next,
           \A e \in Events : /\ row'[e].status = "absent" <=> row[e].status = "absent"
                             /\ row'[e].seq = row[e].seq,
           UNCHANGED <<caller, enqueued, contended>>
    PROVE  EnqueueInv'
<1>1. Stored' = Stored
  BY DEF Stored
<1>2. \A e \in Stored : e \in Events
  BY DEF Stored
<1>3. QED
  BY <1>1, <1>2 DEF EnqueueInv, EnqueueFacts, Exclusive, Fresh, SequencesTaken

LEMMA EnqueueCallerStep ==
    ASSUME TypeInv, EnqueueInv, NEW c \in Callers, CallerNext(c)
    PROVE  EnqueueInv'
<1> SUFFICES ASSUME ~contended', sub'.exists
             PROVE  EnqueueFacts'
  BY DEF EnqueueInv
<1>0. /\ sub \in SubType /\ row \in [Events -> RowType]
      /\ caller \in [Callers -> CallerType]
      /\ caller[c].event \in Events /\ caller[c].seq \in Int
      /\ sub.next \in Int
  BY TypeInvTyped DEF Typed, CallerType, SubType
<1>a. \A x \in Callers : caller[x] \in CallerType /\ caller[x].seq \in Int
  BY <1>0 DEF CallerType
<1>b. \A e \in Events : row[e].seq \in Int
  BY <1>0 DEF RowType
<1>c. IdleCaller.step = "idle"
  BY DEF IdleCaller
<1>1. CASE \E e \in Events : Enqueue(c, e)
  <2>1. PICK e \in Events : Enqueue(c, e)
    BY <1>1
  <2>2. /\ ~contended /\ sub.exists
        /\ \A d \in Callers : caller[d].step # "idle" => caller[d].event # e
        /\ UNCHANGED <<sub, row, enqueued>>
    BY <2>1 DEF Enqueue, data
  <2>3. EnqueueFacts
    BY <2>2 DEF EnqueueInv
  <2>4. \A x \in Callers :
           caller'[x] = IF x = c THEN [step |-> "check", event |-> e, seq |-> sub.next]
                                 ELSE caller[x]
    BY <2>1, <1>0 DEF Enqueue
  <2>5. Stored' = Stored
    BY <2>2 DEF Stored
  <2>6. Exclusive'
    BY <2>2, <2>3, <2>4 DEF EnqueueFacts, Exclusive
  <2>7. ASSUME NEW x \in Callers PROVE Fresh(x)'
    BY <2>2, <2>3, <2>4, <2>5 DEF EnqueueFacts, Fresh
  <2>8. QED
    BY <2>2, <2>3, <2>5, <2>6, <2>7 DEF EnqueueFacts, SequencesTaken
<1>2. CASE CheckExisting(c)
  <2>1. /\ ~contended /\ sub.exists
        /\ UNCHANGED <<sub, row>>
        /\ caller[c].step = "check"
    BY <1>2 DEF CheckExisting, data
  <2>2. EnqueueFacts
    BY <2>1 DEF EnqueueInv
  <2>3. Stored' = Stored
    BY <2>1 DEF Stored
  <2>4. CASE caller[c].event \in Stored
    <3>1. /\ enqueued' = enqueued \cup {caller[c].event}
          /\ \A x \in Callers : caller'[x] = IF x = c THEN IdleCaller ELSE caller[x]
      BY <1>2, <2>4, <1>0 DEF CheckExisting, CallerEnds
    <3>2. Exclusive'
      BY <3>1, <2>2, <1>c DEF EnqueueFacts, Exclusive
    <3>3. ASSUME NEW x \in Callers PROVE Fresh(x)'
      BY <2>1, <2>2, <2>3, <3>1, <1>c DEF EnqueueFacts, Fresh
    <3>4. QED
      BY <2>1, <2>2, <2>3, <2>4, <3>1, <3>2, <3>3 DEF EnqueueFacts, SequencesTaken
  <2>5. CASE caller[c].event \notin Stored
    <3>1. caller' = [caller EXCEPT ![c] = [caller[c] EXCEPT !.step = "allocate"]]
      BY <1>2, <2>5 DEF CheckExisting, CallerGoes
    <3>2. /\ enqueued' = enqueued
          /\ \A x \in Callers : x # c => caller'[x] = caller[x]
          /\ caller'[c].step = "allocate" /\ caller'[c].event = caller[c].event
      BY <1>2, <2>5, <3>1, <1>0, <1>a DEF CheckExisting, CallerType
    <3>3. Exclusive'
      BY <2>1, <3>2, <2>2 DEF EnqueueFacts, Exclusive
    <3>4. ASSUME NEW x \in Callers PROVE Fresh(x)'
      BY <2>1, <2>2, <2>3, <2>5, <3>2 DEF EnqueueFacts, Fresh
    <3>5. QED
      BY <2>1, <2>2, <2>3, <3>2, <3>3, <3>4 DEF EnqueueFacts, SequencesTaken
  <2>6. QED
    BY <2>4, <2>5
<1>3. CASE AllocateSequence(c)
  <2>1. /\ ~contended /\ sub'.exists = sub.exists
        /\ UNCHANGED <<row, enqueued>>
        /\ caller[c].step = "allocate"
    BY <1>3, <1>0 DEF AllocateSequence, history, SubType
  <2>2. EnqueueFacts
    BY <2>1 DEF EnqueueInv
  <2>3. Stored' = Stored
    BY <2>1 DEF Stored
  <2>4. sub'.next = sub.next + 1 /\ TakenSequence(c) = sub.next
    BY <1>3, <1>0, <2>1 DEF AllocateSequence, SubType, TakenSequence
  <2>5. caller' = [caller EXCEPT ![c] = [caller[c] EXCEPT !.step = "create",
                                                          !.seq = TakenSequence(c)]]
    BY <1>3 DEF AllocateSequence
  <2>6. /\ \A x \in Callers : x # c => caller'[x] = caller[x]
        /\ caller'[c].step = "create" /\ caller'[c].event = caller[c].event
        /\ caller'[c].seq = sub.next
    BY <2>4, <2>5, <1>0, <1>a DEF CallerType
  <2>7. Exclusive'
    BY <2>1, <2>6, <2>2 DEF EnqueueFacts, Exclusive
  <2>8. SequencesTaken'
    BY <2>1, <2>2, <2>3, <2>4, <1>0, <1>b DEF EnqueueFacts, SequencesTaken, Stored
  <2>9. \A e \in Stored : row[e].seq # sub.next
    BY <2>2, <1>0, <1>b DEF EnqueueFacts, SequencesTaken, Stored
  <2>10. \A x \in Callers : caller[x].step = "create" => caller[x].seq # sub.next
    BY <2>2, <1>0, <1>a DEF EnqueueFacts, Fresh
  <2>11. Fresh(c)'
    BY <2>1, <2>2, <2>3, <2>4, <2>6, <2>9, <2>10, <1>0 DEF EnqueueFacts, Fresh
  <2>12. ASSUME NEW x \in Callers, x # c PROVE Fresh(x)'
    BY <2>1, <2>2, <2>3, <2>4, <2>6, <2>10, <2>12, <1>0, <1>a DEF EnqueueFacts, Fresh
  <2>13. QED
    BY <2>1, <2>2, <2>3, <2>7, <2>8, <2>11, <2>12 DEF EnqueueFacts
<1>4. CASE CreateRow(c)
  <2>1. /\ ~contended /\ sub.exists
        /\ UNCHANGED sub
        /\ caller[c].step = "create"
    BY <1>4 DEF CreateRow
  <2>2. EnqueueFacts
    BY <2>1 DEF EnqueueInv
  <2>3. /\ caller[c].event \notin Stored
        /\ \A e \in Stored : row[e].seq # caller[c].seq
        /\ caller[c].seq < sub.next
    BY <2>1, <2>2 DEF EnqueueFacts, Fresh
  <2>4. ~DuplicateKey(caller[c].event, caller[c].seq)
    BY <2>3 DEF DuplicateKey
  <2> DEFINE new == [status |-> "pending", seq |-> caller[c].seq,
                     attempts |-> 0, ready |-> TRUE]
  <2>5. /\ row' = [row EXCEPT ![caller[c].event] = new]
        /\ enqueued' = enqueued \cup {caller[c].event}
        /\ caller' = [caller EXCEPT ![c] = IdleCaller]
    BY <1>4, <2>4 DEF CreateRow, CallerEnds
  <2>6. /\ \A x \in Callers : caller'[x] = IF x = c THEN IdleCaller ELSE caller[x]
        /\ \A e \in Events : row'[e] = IF e = caller[c].event THEN new ELSE row[e]
    BY <2>5, <1>0
  <2>7. new.status # "absent" /\ new.seq = caller[c].seq
    OBVIOUS
  <2> HIDE DEF new
  <2>8. Stored' = Stored \cup {caller[c].event}
    BY <2>6, <2>7, <1>0 DEF Stored
  <2>9. Exclusive'
    BY <2>6, <2>2, <1>c DEF EnqueueFacts, Exclusive
  <2>10. SequencesTaken'
    BY <2>1, <2>2, <2>3, <2>6, <2>7, <2>8 DEF EnqueueFacts, SequencesTaken, Stored
  <2>11. ASSUME NEW x \in Callers, x # c PROVE Fresh(x)'
    <3>1. Fresh(x) /\ Fresh(c)
      BY <2>2 DEF EnqueueFacts
    <3>2. caller'[x] = caller[x] /\ caller'[c].step = "idle"
      BY <2>6, <2>11, <1>c
    <3>3. caller[x].step \in {"allocate", "create"} => caller[x].event \notin Stored'
      BY <3>1, <2>1, <2>2, <2>8, <2>11 DEF Fresh, EnqueueFacts, Exclusive
    <3>4. caller[x].step = "create" => caller[x].seq # caller[c].seq
      BY <3>1, <2>1, <2>11 DEF Fresh
    <3>5. caller[x].step = "create" => \A e \in Stored' : row'[e].seq # caller[x].seq
      BY <3>1, <3>4, <2>6, <2>7, <2>8, <1>0 DEF Fresh, Stored
    <3>6. QED
      BY <3>1, <3>2, <3>3, <3>5, <2>1, <2>6, <1>c DEF Fresh
  <2>12. Fresh(c)'
    BY <2>6, <1>c DEF Fresh
  <2>13. QED
    BY <2>2, <2>5, <2>8, <2>9, <2>10, <2>11, <2>12 DEF EnqueueFacts
<1>5. CASE UndoSequence(c)
  <2>1. ~contended /\ sub.exists /\ caller[c].step = "undo"
    BY <1>5, <1>0 DEF UndoSequence, SubType
  <2>2. QED
    BY <2>1 DEF EnqueueInv, EnqueueFacts, Fresh
<1>6. CASE EnqueueFails(c)
  <2>1. /\ ~contended /\ sub.exists
        /\ UNCHANGED <<sub, row, enqueued>>
    BY <1>6 DEF EnqueueFails, data, history
  <2>2. EnqueueFacts
    BY <2>1 DEF EnqueueInv
  <2>3. Stored' = Stored
    BY <2>1 DEF Stored
  <2>4. \A x \in Callers : caller'[x] = IF x = c THEN IdleCaller ELSE caller[x]
    BY <1>6, <1>0 DEF EnqueueFails, CallerEnds
  <2>5. Exclusive'
    BY <2>2, <2>4, <1>c DEF EnqueueFacts, Exclusive
  <2>6. ASSUME NEW x \in Callers PROVE Fresh(x)'
    BY <2>1, <2>2, <2>3, <2>4, <1>c DEF EnqueueFacts, Fresh
  <2>7. QED
    BY <2>1, <2>2, <2>3, <2>5, <2>6 DEF EnqueueFacts, SequencesTaken
<1>7. QED
  BY <1>1, <1>2, <1>3, <1>4, <1>5, <1>6 DEF CallerNext

-----------------------------------------------------------------------------
(* What the other processes leave alone. *)

\* The row a worker works on is stored.
WorksOnStored ==
    \A w \in Workers : worker[w].step # "idle" => worker[w].event \in Stored

RowsKept ==
    \A e \in Events : /\ row'[e].status = "absent" <=> row[e].status = "absent"
                      /\ row'[e].seq = row[e].seq

CounterKept == (sub'.exists => sub.exists) /\ sub'.next = sub.next

LEMMA RowsKeptBy ==
    ASSUME TypeInv, NEW e \in Events, NEW new,
           row' = [row EXCEPT ![e] = new], new.seq = row[e].seq,
           row[e].status = "absent" <=> new.status = "absent"
    PROVE  RowsKept
BY TypeInvTyped DEF Typed, RowsKept

\* A worker's writes concern its own, stored row.
LEMMA WorkerKeeps ==
    ASSUME TypeInv, WorksOnStored, NEW w \in Workers, WorkerRuns(w)
    PROVE  RowsKept /\ CounterKept /\ UNCHANGED <<caller, enqueued, contended>>
<1>0. /\ sub \in SubType /\ row \in [Events -> RowType]
      /\ worker[w].event \in Events
      /\ row[worker[w].event] \in RowType
      /\ worker[w].step # "idle" => row[worker[w].event].status # "absent"
  BY TypeInvTyped DEF Typed, WorkerType, WorksOnStored, Stored
<1>1. CASE \E e \in Events : Claim(w, e)
  <2>1. PICK e \in Events : Claim(w, e)
    BY <1>1
  <2> DEFINE new == [row[e] EXCEPT !.ready = FALSE]
  <2>2. new.seq = row[e].seq /\ new.status = row[e].status
    BY <1>0 DEF RowType
  <2>3. row' = [row EXCEPT ![e] = new]
    BY <2>1 DEF Claim
  <2> HIDE DEF new
  <2>4. RowsKept
    BY <2>2, <2>3, RowsKeptBy
  <2>5. QED
    BY <2>1, <2>4 DEF Claim, CounterKept, history
<1>2. CASE LoadSubscription(w)
  BY <1>2 DEF LoadSubscription, RowsKept, CounterKept, data, history
<1>3. CASE CheckEarlier(w)
  BY <1>3 DEF CheckEarlier, RowsKept, CounterKept, data, history
<1>4. CASE \E answer \in Answers : Post(w, answer)
  BY <1>4 DEF Post, RowsKept, CounterKept, data
<1>5. CASE MarkRowDelivered(w)
  <2> DEFINE new == [row[worker[w].event] EXCEPT !.status = "delivered"]
  <2>1. new.seq = row[worker[w].event].seq /\ new.status = "delivered"
    BY <1>0 DEF RowType
  <2>2. row' = [row EXCEPT ![worker[w].event] = new] /\ worker[w].step # "idle"
    BY <1>5 DEF MarkRowDelivered
  <2> HIDE DEF new
  <2>3. RowsKept
    BY <1>0, <2>1, <2>2, RowsKeptBy
  <2>4. QED
    BY <1>5, <2>3 DEF MarkRowDelivered, CounterKept, history
<1>6. CASE ResetFailures(w)
  BY <1>6, <1>0 DEF ResetFailures, RowsKept, CounterKept, SubType, history
<1>7. CASE ScheduleRetry(w)
  <2> DEFINE left == IF worker[w].step = "retry" THEN worker[w].attempt
                                                 ELSE worker[w].attempt - 1
             new == [row[worker[w].event] EXCEPT !.ready = FALSE, !.attempts = left]
  <2>1. row' = [row EXCEPT ![worker[w].event] = new] /\ worker[w].step # "idle"
    BY <1>7 DEF ScheduleRetry
  <2> HIDE DEF left
  <2>2. /\ new.seq = row[worker[w].event].seq
        /\ new.status = row[worker[w].event].status
    BY <1>0 DEF RowType
  <2> HIDE DEF new
  <2>3. RowsKept
    BY <1>0, <2>1, <2>2, RowsKeptBy
  <2>4. QED
    BY <1>7, <2>3 DEF ScheduleRetry, CounterKept, history
<1>8. CASE MarkDeadLetter(w)
  <2> DEFINE new == [row[worker[w].event] EXCEPT !.status = "dead_letter"]
  <2>1. new.seq = row[worker[w].event].seq /\ new.status = "dead_letter"
    BY <1>0 DEF RowType
  <2>2. row' = [row EXCEPT ![worker[w].event] = new] /\ worker[w].step # "idle"
    BY <1>8 DEF MarkDeadLetter
  <2> HIDE DEF new
  <2>3. RowsKept
    BY <1>0, <2>1, <2>2, RowsKeptBy
  <2>4. QED
    BY <1>8, <2>3 DEF MarkDeadLetter, CounterKept, history
<1>9. CASE CountFailure(w)
  BY <1>9, <1>0 DEF CountFailure, RowsKept, CounterKept, SubType, history
<1>10. CASE Disable(w)
  BY <1>10, <1>0 DEF Disable, RowsKept, CounterKept, SubType, history
<1>11. QED
  BY <1>1, <1>2, <1>3, <1>4, <1>5, <1>6, <1>7, <1>8, <1>9, <1>10 DEF WorkerRuns

\* Every step but the callers' keeps the rows, the counter and the callers.
LEMMA OthersKeep ==
    ASSUME TypeInv, WorksOnStored, [Next]_vars, ~ \E c \in Callers : CallerNext(c)
    PROVE  RowsKept /\ CounterKept /\ UNCHANGED <<caller, enqueued, contended>>
<1>0. sub \in SubType /\ row \in [Events -> RowType]
  BY TypeInvTyped DEF Typed
<1>1. CASE \E w \in Workers : WorkerRuns(w)
  BY <1>1, WorkerKeeps
<1>2. CASE \E w \in Workers : WriteFails(w)
  BY <1>2 DEF WriteFails, RowsKept, CounterKept, data, history
<1>3. CASE \E w \in Workers : WorkerStops(w)
  BY <1>3 DEF WorkerStops, RowsKept, CounterKept, data, history
<1>4. ASSUME NEW e \in Events, BecomeReady(e)
      PROVE  RowsKept /\ CounterKept /\ UNCHANGED <<caller, enqueued, contended>>
  <2> DEFINE new == [row[e] EXCEPT !.ready = TRUE]
  <2>1. new.seq = row[e].seq /\ new.status = row[e].status
    BY <1>0 DEF RowType
  <2>2. row' = [row EXCEPT ![e] = new]
    BY <1>4 DEF BecomeReady
  <2> HIDE DEF new
  <2>3. RowsKept
    BY <2>1, <2>2, RowsKeptBy
  <2>4. QED
    BY <1>4, <2>3 DEF BecomeReady, CounterKept, history
<1>5. ASSUME NEW e \in Events, ReplayDeadLetter(e)
      PROVE  RowsKept /\ CounterKept /\ UNCHANGED <<caller, enqueued, contended>>
  <2> DEFINE new == [status |-> "pending", seq |-> row[e].seq,
                     attempts |-> 0, ready |-> TRUE]
  <2>1. new.seq = row[e].seq /\ new.status = "pending" /\ row[e].status = "dead_letter"
    BY <1>5 DEF ReplayDeadLetter
  <2>2. row' = [row EXCEPT ![e] = new]
    BY <1>5 DEF ReplayDeadLetter
  <2> HIDE DEF new
  <2>3. RowsKept
    BY <2>1, <2>2, RowsKeptBy
  <2>4. QED
    BY <1>5, <2>3 DEF ReplayDeadLetter, CounterKept, history
<1>6. CASE \E k \in Controllers : RegisterFind(k)
  BY <1>6 DEF RegisterFind, RowsKept, CounterKept, data, history
<1>7. CASE \E k \in Controllers : RegisterSave(k)
  BY <1>7, <1>0 DEF RegisterSave, RowsKept, CounterKept, SubType, history
<1>8. CASE DeleteWebhook
  BY <1>8, <1>0 DEF DeleteWebhook, RowsKept, CounterKept, SubType, history
<1>9. CASE UNCHANGED vars
  BY <1>9 DEF vars, RowsKept, CounterKept
<1>10. QED
  BY <1>1, <1>2, <1>3, <1>4, <1>5, <1>6, <1>7, <1>8, <1>9 DEF Next

\* Rows are never removed.
LEMMA StoredGrows ==
    TypeInv /\ WorksOnStored /\ [Next]_vars => Stored \subseteq Stored'
<1> SUFFICES ASSUME TypeInv, WorksOnStored, [Next]_vars
             PROVE  Stored \subseteq Stored'
  OBVIOUS
<1>1. CASE \E c \in Callers : CallerNext(c)
  <2>1. PICK c \in Callers : CallerNext(c)
    BY <1>1
  <2>2. row \in [Events -> RowType]
    BY TypeInvTyped DEF Typed
  <2>3. CASE CreateRow(c)
    BY <2>2, <2>3 DEF CreateRow, Stored
  <2>4. CASE UNCHANGED row
    BY <2>4 DEF Stored
  <2>5. QED
    BY <2>1, <2>3, <2>4
       DEF CallerNext, Enqueue, CheckExisting, AllocateSequence, UndoSequence,
           EnqueueFails, data
<1>2. CASE ~ \E c \in Callers : CallerNext(c)
  BY <1>2, OthersKeep DEF RowsKept, Stored
<1>3. QED
  BY <1>1, <1>2

\* A worker that is busy after a step works on the row it had, or on one that
\* it has just claimed.
SameJobOrStored ==
    \A v \in Workers : worker'[v].step # "idle" =>
        \/ worker[v].step # "idle" /\ worker'[v].event = worker[v].event
        \/ worker'[v].event \in Stored

LEMMA JobAfterGoes ==
    ASSUME TypeInv, NEW w \in Workers, NEW step, WorkerGoes(w, step),
           worker[w].step # "idle"
    PROVE  SameJobOrStored
<1>1. worker \in [Workers -> WorkerType]
  BY TypeInvTyped DEF Typed
<1>2. \A v \in Workers : v # w => worker'[v] = worker[v]
  BY <1>1 DEF WorkerGoes
<1>3. worker'[w].event = worker[w].event
  BY <1>1 DEF WorkerGoes, WorkerType
<1>4. QED
  BY <1>2, <1>3 DEF SameJobOrStored

LEMMA JobAfterEnds ==
    ASSUME TypeInv, NEW w \in Workers, WorkerEnds(w)
    PROVE  SameJobOrStored
<1>1. worker \in [Workers -> WorkerType]
  BY TypeInvTyped DEF Typed
<1>2. \A v \in Workers : worker'[v] = IF v = w THEN IdleWorker ELSE worker[v]
  BY <1>1 DEF WorkerEnds
<1>3. QED
  BY <1>2 DEF SameJobOrStored, IdleWorker

LEMMA JobAfterStep ==
    ASSUME TypeInv, NEW w \in Workers,
           WorkerRuns(w) \/ WriteFails(w) \/ WorkerStops(w)
    PROVE  SameJobOrStored
<1>0. worker \in [Workers -> WorkerType]
  BY TypeInvTyped DEF Typed
<1>1. CASE \E e \in Events : Claim(w, e)
  <2>1. PICK e \in Events : Claim(w, e)
    BY <1>1
  <2>2. e \in Stored
    BY <2>1 DEF Claim, Claimable, Stored
  <2>3. /\ \A v \in Workers : v # w => worker'[v] = worker[v]
        /\ worker'[w].event = e
    BY <2>1, <1>0 DEF Claim
  <2>4. QED
    BY <2>2, <2>3 DEF SameJobOrStored
<1>2. CASE \E answer \in Answers : Post(w, answer)
  <2>1. PICK answer \in Answers : Post(w, answer)
    BY <1>2
  <2>2. /\ \A v \in Workers : v # w => worker'[v] = worker[v]
        /\ worker'[w].event = worker[w].event /\ worker[w].step # "idle"
    BY <2>1, <1>0 DEF Post, WorkerType
  <2>3. QED
    BY <2>2 DEF SameJobOrStored
<1>3. CASE WriteFails(w)
  <2>1. /\ \A v \in Workers : v # w => worker'[v] = worker[v]
        /\ worker'[w].event = worker[w].event /\ worker[w].step # "idle"
    BY <1>3, <1>0 DEF WriteFails, WorkerType, Writes
  <2>2. QED
    BY <2>1 DEF SameJobOrStored
<1>4. CASE LoadSubscription(w) \/ CheckEarlier(w)
  BY <1>4, JobAfterGoes DEF LoadSubscription, CheckEarlier
<1>5. CASE MarkRowDelivered(w) \/ ResetFailures(w)
  BY <1>5, JobAfterGoes, JobAfterEnds DEF MarkRowDelivered, ResetFailures
<1>6. CASE ScheduleRetry(w) \/ Disable(w) \/ WorkerStops(w)
  BY <1>6, JobAfterEnds DEF ScheduleRetry, Disable, WorkerStops
<1>7. CASE MarkDeadLetter(w) \/ CountFailure(w)
  BY <1>7, JobAfterGoes, JobAfterEnds DEF MarkDeadLetter, CountFailure
<1>8. QED
  BY <1>1, <1>2, <1>3, <1>4, <1>5, <1>6, <1>7 DEF WorkerRuns

LEMMA WorksOnStoredStep ==
    TypeInv /\ WorksOnStored /\ [Next]_vars => WorksOnStored'
<1> SUFFICES ASSUME TypeInv, WorksOnStored, [Next]_vars
             PROVE  WorksOnStored'
  OBVIOUS
<1>1. SameJobOrStored
  <2>1. CASE \E w \in Workers : WorkerRuns(w) \/ WriteFails(w) \/ WorkerStops(w)
    BY <2>1, JobAfterStep
  <2>2. CASE UNCHANGED worker
    BY <2>2 DEF SameJobOrStored
  <2>3. QED
    BY <2>1, <2>2
       DEF Next, CallerNext, Enqueue, CheckExisting, AllocateSequence, CreateRow,
           UndoSequence, EnqueueFails, BecomeReady, ReplayDeadLetter, RegisterFind,
           RegisterSave, DeleteWebhook, data, history, vars
<1>2. QED
  BY <1>1, StoredGrows DEF SameJobOrStored, WorksOnStored

Inv == TypeInv /\ WorksOnStored /\ EnqueueInv

\* Uncontended enqueues are durable: the call that returned has stored its
\* row, however it interleaves with enqueues of other events, and whatever
\* crashes and failed writes leave holes in the sequence.
THEOREM UncontendedEnqueuesStored == Spec => []UncontendedEnqueueStored
<1>1. Init => Inv
  <2> SUFFICES ASSUME Init
               PROVE  WorksOnStored /\ EnqueueInv
    BY TypeInvInit DEF Inv
  <2>1. WorksOnStored
    BY DEF Init, WorksOnStored, IdleWorker
  <2>2. Stored = {}
    BY DEF Init, Stored
  <2>3. \A c \in Callers : caller[c].step = "idle"
    BY DEF Init, IdleCaller
  <2>4. Exclusive /\ SequencesTaken /\ \A c \in Callers : Fresh(c)
    BY <2>2, <2>3 DEF Exclusive, SequencesTaken, Fresh
  <2>5. QED
    BY <2>1, <2>4 DEF EnqueueInv, EnqueueFacts, Init
<1>2. Inv /\ [Next]_vars => Inv'
  <2> SUFFICES ASSUME Inv, [Next]_vars
               PROVE  Inv'
    OBVIOUS
  <2>1. TypeInv' /\ WorksOnStored'
    BY TypeInvStep, WorksOnStoredStep DEF Inv
  <2>2. EnqueueInv'
    <3>1. CASE \E c \in Callers : CallerNext(c)
      BY <3>1, EnqueueCallerStep DEF Inv
    <3>2. CASE ~ \E c \in Callers : CallerNext(c)
      BY <3>2, OthersKeep, EnqueueFrame DEF Inv, RowsKept, CounterKept
    <3>3. QED
      BY <3>1, <3>2
  <2>3. QED
    BY <2>1, <2>2 DEF Inv
<1>3. Inv => UncontendedEnqueueStored
  BY DEF Inv, EnqueueInv, EnqueueFacts, UncontendedEnqueueStored
<1>4. QED
  BY <1>1, <1>2, <1>3, PTL DEF Spec

-----------------------------------------------------------------------------
(***************************************************************************)
(* Deliveries.  Only a 2xx leads to the writes of markDelivered, and the   *)
(* fact is never forgotten.                                                *)
(***************************************************************************)
DeliverSteps == {"deliver", "deliverRow", "resetFailures"}

DeliverInv ==
    /\ DeliveredMeansAccepted
    /\ \A w \in Workers : worker[w].step \in DeliverSteps => worker[w].event \in accepted

LEMMA VerdictDeliver ==
    ASSUME NEW answer \in Answers, NEW attempt,
           Verdict(answer, attempt) \in DeliverSteps
    PROVE  answer = "2xx"
<1>1. CASE answer \in {"3xx", "4xx", "unsafe"}
  BY <1>1 DEF Verdict, DeliverSteps
<1>2. CASE answer \in {"429", "5xx", "error"} /\ attempt >= MaxAttempts
  BY <1>2 DEF Verdict, DeliverSteps
<1>3. CASE answer \in {"429", "5xx", "error"} /\ ~(attempt >= MaxAttempts)
  BY <1>3 DEF Verdict, DeliverSteps
<1>4. QED
  BY <1>1, <1>2, <1>3 DEF Answers

\* A worker that goes on with the row it has.
LEMMA WorkerDelivers ==
    ASSUME TypeInv, DeliverInv, NEW w \in Workers, NEW step,
           WorkerGoes(w, step) \/ WorkerEnds(w),
           step \in DeliverSteps => worker[w].step \in DeliverSteps
    PROVE  \A v \in Workers :
              worker'[v].step \in DeliverSteps => worker'[v].event \in accepted
<1>1. worker \in [Workers -> WorkerType]
  BY TypeInvTyped DEF Typed
<1>2. CASE WorkerGoes(w, step)
  <2>1. \A v \in Workers : v # w => worker'[v] = worker[v]
    BY <1>1, <1>2 DEF WorkerGoes
  <2>2. worker'[w].event = worker[w].event /\ worker'[w].step = step
    BY <1>1, <1>2 DEF WorkerGoes, WorkerType
  <2>3. QED
    BY <2>1, <2>2 DEF DeliverInv
<1>3. CASE WorkerEnds(w)
  <2>1. \A v \in Workers : worker'[v] = IF v = w THEN IdleWorker ELSE worker[v]
    BY <1>1, <1>3 DEF WorkerEnds
  <2>2. IdleWorker.step \notin DeliverSteps
    BY DEF IdleWorker, DeliverSteps
  <2>3. QED
    BY <2>1, <2>2 DEF DeliverInv
<1>4. QED
  BY <1>2, <1>3

\* A row that is rewritten without becoming delivered, or by a worker that
\* holds a 2xx.
LEMMA RowDelivers ==
    ASSUME TypeInv, DeliverInv, NEW e \in Events, NEW new,
           row' = [row EXCEPT ![e] = new],
           new.status = "delivered" => row[e].status = "delivered" \/ e \in accepted
    PROVE  \A d \in Events : row'[d].status = "delivered" => d \in accepted
<1>1. row \in [Events -> RowType]
  BY TypeInvTyped DEF Typed
<1>2. \A d \in Events : row'[d] = IF d = e THEN new ELSE row[d]
  BY <1>1
<1>3. QED
  BY <1>2 DEF DeliverInv, DeliveredMeansAccepted

LEMMA DeliverStep == TypeInv /\ DeliverInv /\ [Next]_vars => DeliverInv'
<1> SUFFICES ASSUME TypeInv, DeliverInv, [Next]_vars
             PROVE  DeliverInv'
  OBVIOUS
<1> DEFINE RowsOK == \A d \in Events : row'[d].status = "delivered" => d \in accepted
           WorkersOK == \A v \in Workers :
               worker'[v].step \in DeliverSteps => worker'[v].event \in accepted
<1>0. /\ row \in [Events -> RowType] /\ worker \in [Workers -> WorkerType]
      /\ \A w \in Workers : worker[w].event \in Events
      /\ \A e \in Events : row[e] \in RowType
  BY TypeInvTyped DEF Typed, WorkerType
<1>a. UNCHANGED row => RowsOK
  BY DEF DeliverInv, DeliveredMeansAccepted
<1>b. UNCHANGED worker => WorkersOK
  BY DEF DeliverInv
<1>c. RowsOK /\ WorkersOK /\ accepted \subseteq accepted' => DeliverInv'
  BY DEF DeliverInv, DeliveredMeansAccepted
<1> HIDE DEF RowsOK, WorkersOK
<1>1. ASSUME NEW c \in Callers, CallerNext(c)
      PROVE  DeliverInv'
  <2>1. worker' = worker /\ accepted' = accepted
    BY <1>1 DEF CallerNext, Enqueue, CheckExisting, AllocateSequence, CreateRow,
                UndoSequence, EnqueueFails, data, history
  <2>2. RowsOK
    <3>1. CASE UNCHANGED row
      BY <3>1, <1>a
    <3>2. CASE CreateRow(c)
      <4> DEFINE new == [status |-> "pending", seq |-> caller[c].seq,
                         attempts |-> 0, ready |-> TRUE]
      <4>1. UNCHANGED row \/ row' = [row EXCEPT ![caller[c].event] = new]
        BY <3>2 DEF CreateRow
      <4>2. new.status # "delivered"
        OBVIOUS
      <4>3. caller[c].event \in Events
        BY TypeInvTyped DEF Typed, CallerType
      <4> HIDE DEF new
      <4>4. QED
        BY <4>1, <4>2, <4>3, <1>a, RowDelivers DEF RowsOK
    <3>3. QED
      BY <1>1, <3>1, <3>2 DEF CallerNext, Enqueue, CheckExisting, AllocateSequence,
                              UndoSequence, EnqueueFails, data
  <2>3. QED
    BY <2>1, <2>2, <1>b, <1>c
<1>2. ASSUME NEW w \in Workers, NEW e \in Events, Claim(w, e)
      PROVE  DeliverInv'
  <2> DEFINE new == [row[e] EXCEPT !.ready = FALSE]
  <2>1. new.status = row[e].status
    BY <1>0 DEF RowType
  <2>2. row' = [row EXCEPT ![e] = new]
    BY <1>2 DEF Claim
  <2> HIDE DEF new
  <2>3. RowsOK
    BY <2>1, <2>2, RowDelivers DEF RowsOK
  <2>4. /\ \A v \in Workers : v # w => worker'[v] = worker[v]
        /\ worker'[w].step = "load"
    BY <1>2, <1>0 DEF Claim
  <2>5. WorkersOK
    BY <2>4 DEF WorkersOK, DeliverInv, DeliverSteps
  <2>6. QED
    BY <1>2, <2>3, <2>5, <1>c DEF Claim, history
<1>3. ASSUME NEW w \in Workers, NEW answer \in Answers, Post(w, answer)
      PROVE  DeliverInv'
  <2>1. /\ \A v \in Workers : v # w => worker'[v] = worker[v]
        /\ worker'[w].step = Verdict(answer, worker[w].attempt)
        /\ worker'[w].event = worker[w].event
    BY <1>3, <1>0 DEF Post, WorkerType
  <2>2. accepted \subseteq accepted' /\ (answer = "2xx" => worker[w].event \in accepted')
    BY <1>3 DEF Post
  <2>3. row' = row
    BY <1>3 DEF Post, data
  <2>4. QED
    BY <2>1, <2>2, <2>3, VerdictDeliver DEF DeliverInv, DeliveredMeansAccepted
<1>4. ASSUME NEW w \in Workers, MarkRowDelivered(w)
      PROVE  DeliverInv'
  <2> DEFINE new == [row[worker[w].event] EXCEPT !.status = "delivered"]
  <2>1. row' = [row EXCEPT ![worker[w].event] = new]
    BY <1>4 DEF MarkRowDelivered
  <2>2. worker[w].step \in DeliverSteps /\ worker[w].event \in accepted
    BY <1>4 DEF MarkRowDelivered, DeliverSteps, DeliverInv
  <2> HIDE DEF new
  <2>3. RowsOK
    BY <2>1, <2>2, <1>0, RowDelivers DEF RowsOK
  <2>4. WorkerGoes(w, "resetFailures") \/ WorkerEnds(w)
    BY <1>4 DEF MarkRowDelivered
  <2>5. WorkersOK
    BY <2>2, <2>4, WorkerDelivers DEF WorkersOK
  <2>6. QED
    BY <1>4, <2>3, <2>5, <1>c DEF MarkRowDelivered, history
<1>5. ASSUME NEW w \in Workers, ResetFailures(w)
      PROVE  DeliverInv'
  <2>1. worker[w].step \in DeliverSteps
    BY <1>5 DEF ResetFailures, DeliverSteps
  <2>2. WorkerGoes(w, "deliverRow") \/ WorkerEnds(w)
    BY <1>5 DEF ResetFailures
  <2>3. WorkersOK
    BY <2>1, <2>2, WorkerDelivers DEF WorkersOK
  <2>4. QED
    BY <1>5, <2>3, <1>a, <1>c DEF ResetFailures, history
<1>6. ASSUME NEW w \in Workers, ScheduleRetry(w)
      PROVE  DeliverInv'
  <2> DEFINE left == IF worker[w].step = "retry" THEN worker[w].attempt
                                                 ELSE worker[w].attempt - 1
             new == [row[worker[w].event] EXCEPT !.ready = FALSE, !.attempts = left]
  <2>1. row' = [row EXCEPT ![worker[w].event] = new]
    BY <1>6 DEF ScheduleRetry
  <2> HIDE DEF left
  <2>2. new.status = row[worker[w].event].status
    BY <1>0 DEF RowType
  <2> HIDE DEF new
  <2>3. RowsOK
    BY <2>1, <2>2, <1>0, RowDelivers DEF RowsOK
  <2>4. WorkersOK
    BY <1>6, WorkerDelivers DEF ScheduleRetry, WorkersOK
  <2>5. QED
    BY <1>6, <2>3, <2>4, <1>c DEF ScheduleRetry, history
<1>7. ASSUME NEW w \in Workers, MarkDeadLetter(w)
      PROVE  DeliverInv'
  <2> DEFINE new == [row[worker[w].event] EXCEPT !.status = "dead_letter"]
  <2>1. row' = [row EXCEPT ![worker[w].event] = new]
    BY <1>7 DEF MarkDeadLetter
  <2>2. new.status = "dead_letter"
    BY <1>0 DEF RowType
  <2> HIDE DEF new
  <2>3. RowsOK
    BY <2>1, <2>2, <1>0, RowDelivers DEF RowsOK
  <2>4. "count" \notin DeliverSteps
    BY DEF DeliverSteps
  <2>5. WorkersOK
    BY <1>7, <2>4, WorkerDelivers DEF MarkDeadLetter, WorkersOK
  <2>6. QED
    BY <1>7, <2>3, <2>5, <1>c DEF MarkDeadLetter, history
<1>8. ASSUME NEW w \in Workers, LoadSubscription(w) \/ CheckEarlier(w) \/ CountFailure(w)
                                  \/ Disable(w) \/ WorkerStops(w)
      PROVE  DeliverInv'
  <2>1. /\ UNCHANGED <<row, accepted>>
        /\ \/ \E step \in {"dead", "wait", "check", "post", "disable"} : WorkerGoes(w, step)
           \/ WorkerEnds(w)
    BY <1>8 DEF LoadSubscription, CheckEarlier, CountFailure, Disable, WorkerStops,
                data, history
  <2>2. \A step \in {"dead", "wait", "check", "post", "disable"} : step \notin DeliverSteps
    BY DEF DeliverSteps
  <2>3. WorkersOK
    BY <2>1, <2>2, WorkerDelivers DEF WorkersOK
  <2>4. QED
    BY <2>1, <2>3, <1>a, <1>c
<1>9. ASSUME NEW w \in Workers, WriteFails(w)
      PROVE  DeliverInv'
  <2>1. /\ \A v \in Workers : v # w => worker'[v] = worker[v]
        /\ worker'[w].step = Verdict("error", worker[w].attempt)
    BY <1>9, <1>0 DEF WriteFails, WorkerType
  <2>2. worker'[w].step \notin DeliverSteps
    BY <2>1, VerdictDeliver DEF Answers
  <2>3. WorkersOK
    BY <2>1, <2>2 DEF WorkersOK, DeliverInv
  <2>4. QED
    BY <1>9, <2>3, <1>a, <1>c DEF WriteFails, data, history
<1>10. ASSUME NEW e \in Events, BecomeReady(e)
       PROVE  DeliverInv'
  <2> DEFINE new == [row[e] EXCEPT !.ready = TRUE]
  <2>1. new.status = row[e].status
    BY <1>0 DEF RowType
  <2>2. row' = [row EXCEPT ![e] = new]
    BY <1>10 DEF BecomeReady
  <2> HIDE DEF new
  <2>3. RowsOK
    BY <2>1, <2>2, RowDelivers DEF RowsOK
  <2>4. QED
    BY <1>10, <2>3, <1>b, <1>c DEF BecomeReady, history
<1>11. ASSUME NEW e \in Events, ReplayDeadLetter(e)
       PROVE  DeliverInv'
  <2> DEFINE new == [status |-> "pending", seq |-> row[e].seq,
                     attempts |-> 0, ready |-> TRUE]
  <2>1. new.status # "delivered"
    OBVIOUS
  <2>2. row' = [row EXCEPT ![e] = new]
    BY <1>11 DEF ReplayDeadLetter
  <2> HIDE DEF new
  <2>3. RowsOK
    BY <2>1, <2>2, RowDelivers DEF RowsOK
  <2>4. QED
    BY <1>11, <2>3, <1>b, <1>c DEF ReplayDeadLetter, history
<1>12. CASE \/ \E k \in Controllers : RegisterFind(k) \/ RegisterSave(k)
            \/ DeleteWebhook \/ UNCHANGED vars
  <2>1. UNCHANGED <<row, worker, accepted>>
    BY <1>12 DEF RegisterFind, RegisterSave, DeleteWebhook, data, history, vars
  <2>2. QED
    BY <2>1, <1>a, <1>b, <1>c
<1>13. QED
  BY <1>1, <1>2, <1>3, <1>4, <1>5, <1>6, <1>7, <1>8, <1>9, <1>10, <1>11, <1>12
     DEF Next, WorkerRuns

\* A row marked delivered was accepted by the subscriber, however many workers
\* held it, whichever of their writes failed and wherever they stopped.
THEOREM DeliveriesWereAccepted == Spec => []DeliveredMeansAccepted
<1>1. Init => DeliverInv
  BY DEF Init, DeliverInv, DeliveredMeansAccepted, DeliverSteps, IdleWorker
<1>2. TypeInv /\ DeliverInv /\ [Next]_vars => (TypeInv /\ DeliverInv)'
  BY TypeInvStep, DeliverStep
<1>3. DeliverInv => DeliveredMeansAccepted
  BY DEF DeliverInv
<1>4. QED
  BY <1>1, <1>2, <1>3, TypeInvInit, PTL DEF Spec

-----------------------------------------------------------------------------
(***************************************************************************)
(* The order of deliveries.  A worker that posts a row has found nothing   *)
(* before it that was not delivered, hence accepted; acceptance is never   *)
(* taken back, and rows that are stored later have later sequences, as     *)
(* long as they are stored in sequence.                                    *)
(***************************************************************************)
EarlierAccepted(e) == \A d \in Stored : row[d].seq < row[e].seq => d \in accepted

OrderInv ==
    /\ accepted \subseteq Stored
    /\ inSequence =>
          /\ \A e \in accepted : EarlierAccepted(e)
          /\ \A w \in Workers : worker[w].step = "post" => EarlierAccepted(worker[w].event)

\* Whoever is about to post after a step was about to post the same row before.
PostsKept ==
    \A v \in Workers : worker'[v].step = "post" =>
        worker[v].step = "post" /\ worker'[v].event = worker[v].event

LEMMA WorkerPosts ==
    ASSUME TypeInv, NEW w \in Workers, NEW step, step # "post",
           WorkerGoes(w, step) \/ WorkerEnds(w)
    PROVE  PostsKept
<1>1. worker \in [Workers -> WorkerType]
  BY TypeInvTyped DEF Typed
<1>2. CASE WorkerGoes(w, step)
  BY <1>1, <1>2 DEF WorkerGoes, WorkerType, PostsKept
<1>3. CASE WorkerEnds(w)
  BY <1>1, <1>3 DEF WorkerEnds, IdleWorker, PostsKept
<1>4. QED
  BY <1>2, <1>3

LEMMA VerdictPost ==
    ASSUME NEW answer \in Answers, NEW attempt
    PROVE  Verdict(answer, attempt) # "post"
BY DEF Verdict, Answers

\* Only the check for earlier rows leads to a post.
LEMMA PostsStep ==
    ASSUME TypeInv, [Next]_vars, ~ \E w \in Workers : CheckEarlier(w)
    PROVE  PostsKept
<1>0. worker \in [Workers -> WorkerType]
  BY TypeInvTyped DEF Typed
<1>1. CASE UNCHANGED worker
  BY <1>1 DEF PostsKept
<1>2. ASSUME NEW w \in Workers, NEW e \in Events, Claim(w, e)
      PROVE  PostsKept
  BY <1>2, <1>0 DEF Claim, PostsKept
<1>3. ASSUME NEW w \in Workers, NEW answer \in Answers, Post(w, answer)
      PROVE  PostsKept
  <2>1. /\ \A v \in Workers : v # w => worker'[v] = worker[v]
        /\ worker'[w].step = Verdict(answer, worker[w].attempt)
    BY <1>3, <1>0 DEF Post, WorkerType
  <2>2. QED
    BY <2>1, VerdictPost DEF PostsKept
<1>4. ASSUME NEW w \in Workers, WriteFails(w)
      PROVE  PostsKept
  <2>1. /\ \A v \in Workers : v # w => worker'[v] = worker[v]
        /\ worker'[w].step = Verdict("error", worker[w].attempt)
    BY <1>4, <1>0 DEF WriteFails, WorkerType
  <2>2. QED
    BY <2>1, VerdictPost DEF PostsKept, Answers
<1>5. ASSUME NEW w \in Workers,
             \/ LoadSubscription(w) \/ MarkRowDelivered(w) \/ ResetFailures(w)
             \/ ScheduleRetry(w) \/ MarkDeadLetter(w) \/ CountFailure(w)
             \/ Disable(w) \/ WorkerStops(w)
      PROVE  PostsKept
  <2>1. \/ \E step \in {"dead", "wait", "check", "resetFailures", "deliverRow",
                        "count", "disable"} : WorkerGoes(w, step)
        \/ WorkerEnds(w)
    BY <1>5 DEF LoadSubscription, MarkRowDelivered, ResetFailures, ScheduleRetry,
                MarkDeadLetter, CountFailure, Disable, WorkerStops
  <2>2. QED
    BY <2>1, WorkerPosts
<1>6. QED
  BY <1>1, <1>2, <1>3, <1>4, <1>5
     DEF Next, WorkerRuns, CallerNext, Enqueue, CheckExisting, AllocateSequence,
         CreateRow, UndoSequence, EnqueueFails, BecomeReady, ReplayDeadLetter,
         RegisterFind, RegisterSave, DeleteWebhook, data, history, vars

\* A step that stores no row and accepts nothing.
LEMMA OrderFrame ==
    ASSUME OrderInv, WorksOnStored, RowsKept, PostsKept,
           UNCHANGED <<accepted, inSequence>>
    PROVE  OrderInv'
<1>1. Stored' = Stored /\ \A d \in Stored : d \in Events /\ row'[d].seq = row[d].seq
  BY DEF RowsKept, Stored
<1>2. ASSUME NEW e \in Stored, EarlierAccepted(e)
      PROVE  \A d \in Stored' : row'[d].seq < row'[e].seq => d \in accepted'
  BY <1>1, <1>2 DEF EarlierAccepted
<1>3. ASSUME inSequence'
      PROVE  \A e \in accepted' : EarlierAccepted(e)'
  BY <1>1, <1>2, <1>3 DEF OrderInv, EarlierAccepted
<1>4. ASSUME inSequence', NEW w \in Workers, worker'[w].step = "post"
      PROVE  EarlierAccepted(worker[w].event)'
  <2>1. /\ worker[w].step = "post" /\ worker'[w].event = worker[w].event
        /\ worker[w].event \in Stored
    BY <1>4 DEF PostsKept, WorksOnStored
  <2>2. EarlierAccepted(worker[w].event)
    BY <1>4, <2>1 DEF OrderInv
  <2>3. QED
    BY <1>2, <2>1, <2>2 DEF EarlierAccepted
<1>5. QED
  BY <1>1, <1>3, <1>4 DEF OrderInv

LEMMA CallerOrder ==
    ASSUME TypeInv, WorksOnStored, OrderInv, NEW c \in Callers, CallerNext(c)
    PROVE  OrderInv'
<1>1. UNCHANGED <<worker, accepted>>
  BY DEF CallerNext, Enqueue, CheckExisting, AllocateSequence, CreateRow,
         UndoSequence, EnqueueFails, data, history
<1>2. CASE UNCHANGED <<row, inSequence>>
  BY <1>1, <1>2, OrderFrame DEF RowsKept, PostsKept
<1>3. CASE CreateRow(c) /\ ~DuplicateKey(caller[c].event, caller[c].seq)
  <2> DEFINE e == caller[c].event
             s == caller[c].seq
  <2>1. /\ row \in [Events -> RowType] /\ e \in Events /\ s \in Int
        /\ \A d \in Events : row[d].seq \in Int
    BY TypeInvTyped DEF Typed, CallerType, RowType
  <2>2. /\ e \notin Stored
        /\ row' = [row EXCEPT ![e] = [status |-> "pending", seq |-> s,
                                      attempts |-> 0, ready |-> TRUE]]
        /\ inSequence' = (inSequence /\ \A d \in Stored : row[d].seq < s)
    BY <1>3 DEF CreateRow, DuplicateKey
  <2>3. /\ Stored' = Stored \cup {e}
        /\ row'[e].seq = s
        /\ \A d \in Stored : d \in Events /\ row'[d].seq = row[d].seq
    BY <2>1, <2>2 DEF Stored
  <2>4. ASSUME inSequence', NEW f \in Stored, EarlierAccepted(f)
        PROVE  EarlierAccepted(f)'
    <3>1. row[f].seq < s /\ row[f].seq \in Int
      BY <2>1, <2>2, <2>3, <2>4
    <3>2. QED
      BY <1>1, <2>1, <2>3, <2>4, <3>1 DEF EarlierAccepted
  <2>5. \A w \in Workers : worker[w].step = "post" => worker[w].event \in Stored
    BY DEF WorksOnStored
  <2>6. accepted' \subseteq Stored'
    BY <1>1, <2>3 DEF OrderInv
  <2>7. ASSUME inSequence'
        PROVE  /\ \A f \in accepted' : EarlierAccepted(f)'
               /\ \A w \in Workers : worker'[w].step = "post" =>
                     EarlierAccepted(worker[w].event)'
    <3>1. \A f \in accepted : f \in Stored /\ EarlierAccepted(f)
      BY <2>2, <2>7 DEF OrderInv
    <3>2. \A f \in accepted' : EarlierAccepted(f)'
      BY <1>1, <2>4, <2>7, <3>1
    <3>3. ASSUME NEW w \in Workers, worker'[w].step = "post"
          PROVE  EarlierAccepted(worker[w].event)'
      <4>1. worker[w].event \in Stored /\ EarlierAccepted(worker[w].event)
        BY <1>1, <2>2, <2>5, <2>7, <3>3 DEF OrderInv
      <4>2. PICK f \in Stored : f = worker[w].event
        BY <4>1
      <4>3. EarlierAccepted(f)'
        BY <2>4, <2>7, <4>1, <4>2
      <4>4. QED
        BY <1>1, <4>2, <4>3 DEF EarlierAccepted
    <3>4. QED
      BY <3>2, <3>3
  <2>8. QED
    BY <2>6, <2>7 DEF OrderInv
<1>4. QED
  BY <1>2, <1>3
     DEF CallerNext, Enqueue, CheckExisting, AllocateSequence, CreateRow,
         UndoSequence, EnqueueFails, data, history

LEMMA CheckOrder ==
    ASSUME TypeInv, WorksOnStored, DeliverInv, OrderInv,
           NEW w \in Workers, CheckEarlier(w)
    PROVE  OrderInv'
<1>1. /\ worker \in [Workers -> WorkerType] /\ worker[w].event \in Events
      /\ UNCHANGED <<row, accepted, inSequence>>
  BY TypeInvTyped DEF CheckEarlier, data, history, Typed, WorkerType
<1>2. CASE \E e \in Events : Blocks(e, worker[w].event)
  <2>1. PostsKept
    BY <1>2, WorkerPosts DEF CheckEarlier
  <2>2. QED
    BY <1>1, <2>1, OrderFrame DEF RowsKept
<1>3. CASE ~ \E e \in Events : Blocks(e, worker[w].event)
  <2>1. EarlierAccepted(worker[w].event)
    BY <1>3 DEF Blocks, EarlierAccepted, Stored, DeliverInv, DeliveredMeansAccepted
  <2>2. /\ \A v \in Workers : v # w => worker'[v] = worker[v]
        /\ worker'[w].event = worker[w].event
    BY <1>1 DEF CheckEarlier, WorkerGoes, WorkerType
  <2>3. Stored' = Stored
    BY <1>1 DEF Stored
  <2>4. QED
    BY <1>1, <2>1, <2>2, <2>3 DEF OrderInv, EarlierAccepted
<1>4. QED
  BY <1>2, <1>3

LEMMA PostOrder ==
    ASSUME TypeInv, WorksOnStored, OrderInv, NEW w \in Workers,
           NEW answer \in Answers, Post(w, answer)
    PROVE  OrderInv'
<1>1. /\ UNCHANGED <<row, inSequence>> /\ Stored' = Stored
      /\ worker[w].step = "post" /\ worker[w].event \in Stored
  BY DEF Post, data, WorksOnStored, Stored
<1>2. accepted \subseteq accepted' /\ accepted' \subseteq accepted \cup {worker[w].event}
  BY DEF Post
<1>3. \A v \in Workers : worker'[v].step = "post" => worker'[v] = worker[v]
  <2>1. /\ worker \in [Workers -> WorkerType]
        /\ \A v \in Workers : v # w => worker'[v] = worker[v]
        /\ worker'[w].step = Verdict(answer, worker[w].attempt)
    BY TypeInvTyped DEF Typed, Post, WorkerType
  <2>2. QED
    BY <2>1, VerdictPost
<1>4. QED
  BY <1>1, <1>2, <1>3 DEF OrderInv, EarlierAccepted

LEMMA OrderStep ==
    TypeInv /\ WorksOnStored /\ DeliverInv /\ OrderInv /\ [Next]_vars => OrderInv'
<1> SUFFICES ASSUME TypeInv, WorksOnStored, DeliverInv, OrderInv, [Next]_vars
             PROVE  OrderInv'
  OBVIOUS
<1>1. CASE \E c \in Callers : CallerNext(c)
  BY <1>1, CallerOrder
<1>2. CASE \E w \in Workers : CheckEarlier(w)
  BY <1>2, CheckOrder
<1>3. CASE \E w \in Workers, answer \in Answers : Post(w, answer)
  BY <1>3, PostOrder
<1>4. CASE /\ ~ \E c \in Callers : CallerNext(c)
           /\ ~ \E w \in Workers : CheckEarlier(w)
           /\ ~ \E w \in Workers, answer \in Answers : Post(w, answer)
  <2>1. RowsKept /\ PostsKept
    BY <1>4, OthersKeep, PostsStep
  <2>2. UNCHANGED <<accepted, inSequence>>
    BY <1>4
       DEF Next, WorkerRuns, Claim, LoadSubscription, MarkRowDelivered, ResetFailures,
           ScheduleRetry, MarkDeadLetter, CountFailure, Disable, WriteFails,
           WorkerStops, BecomeReady, ReplayDeadLetter, RegisterFind, RegisterSave,
           DeleteWebhook, data, history, vars
  <2>3. QED
    BY <2>1, <2>2, OrderFrame
<1>5. QED
  BY <1>1, <1>2, <1>3, <1>4

\* The subscriber accepts the events in the order of their sequences, however
\* workers overlap, crash and retry and whatever dead letters are replayed, as
\* long as the rows were stored in that order.
THEOREM EventsAcceptedInSequence == Spec => []AcceptedInSequence
<1> DEFINE All == TypeInv /\ WorksOnStored /\ DeliverInv /\ OrderInv
<1>1. Init => All
  <2> SUFFICES ASSUME Init
               PROVE  WorksOnStored /\ DeliverInv /\ OrderInv
    BY TypeInvInit
  <2>1. QED
    BY DEF Init, WorksOnStored, IdleWorker, DeliverInv, DeliveredMeansAccepted,
           DeliverSteps, OrderInv
<1>2. All /\ [Next]_vars => All'
  BY TypeInvStep, WorksOnStoredStep, DeliverStep, OrderStep
<1>3. All => AcceptedInSequence
  BY DEF OrderInv, EarlierAccepted, AcceptedInSequence
<1>4. QED
  BY <1>1, <1>2, <1>3, PTL DEF Spec
=============================================================================
