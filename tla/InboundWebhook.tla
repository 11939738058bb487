--------------------------- MODULE InboundWebhook ---------------------------
(***************************************************************************)
(* Intake of one inbound webhook event                                     *)
(* (server/src/services/inboundWebhookProcessor.ts and its controller).    *)
(* The sender delivers the event until it is acknowledged; each delivery   *)
(* persists the event under its unique idempotency key or finds it, and    *)
(* the first one verifies and dispatches it.  An administrator may reset a *)
(* failed event.  The table of business handlers is empty at this commit,  *)
(* so that every verified event ends as skipped.                           *)
(***************************************************************************)
EXTENDS Integers

CONSTANTS
    Deliveries,   \* requests in flight that carry the event
    MaxBreakdowns \* bound on crashes and failed writes

VARIABLES
    event,      \* the InboundWebhookEvent
    delivery,   \* what each delivery is doing
    acknowledged,   \* the sender has got a 2xx
    breakdowns  \* crashes and failed writes so far

inboundVars == <<event, delivery, acknowledged, breakdowns>>

NoEvent == [status |-> "absent", verified |-> "pending", attempts |-> 0]

InboundInit ==
    /\ event = NoEvent
    /\ delivery = [d \in Deliveries |-> "idle"]
    /\ acknowledged = FALSE
    /\ breakdowns = 0

Proceeds(d, step) == delivery' = [delivery EXCEPT ![d] = step]

\* Mutant: only events that are done are answered as duplicates.
KnownWhenDone == event.status \in {"processed", "skipped"}

\* The unique index on the key knows the event.
Known == event.status # "absent"

\* persistInboundEvent.  A duplicate is acknowledged whatever its status.
Receive(d) ==
    /\ delivery[d] = "idle" /\ ~acknowledged
    /\ IF Known
       THEN acknowledged' = TRUE /\ UNCHANGED <<event, delivery>>
       ELSE /\ event' = [event EXCEPT !.status = "pending"]
            /\ Proceeds(d, "verify")
            /\ UNCHANGED acknowledged
    /\ UNCHANGED breakdowns

Verify(d) ==
    /\ delivery[d] = "verify"
    /\ event' = [status |-> "processing", verified |-> "verified",
                 attempts |-> event.attempts + 1]
    /\ Proceeds(d, "dispatch")
    /\ UNCHANGED <<acknowledged, breakdowns>>

\* Mutant: the refusal is not written to the event.
RejectUnrecorded(d) ==
    /\ delivery[d] = "verify"
    /\ Proceeds(d, "idle")
    /\ UNCHANGED <<event, acknowledged, breakdowns>>

\* A signature that does not match, for one made with an old secret: 401.
Reject(d) ==
    /\ delivery[d] = "verify"
    /\ event' = [event EXCEPT !.status = "skipped", !.verified = "verification_failed"]
    /\ Proceeds(d, "idle")
    /\ UNCHANGED <<acknowledged, breakdowns>>

\* No handler: the event is skipped.
Dispatch(d) ==
    /\ delivery[d] = "dispatch"
    /\ event' = [event EXCEPT !.status = "skipped"]
    /\ acknowledged' = TRUE
    /\ Proceeds(d, "idle")
    /\ UNCHANGED breakdowns

\* The write of the final status throws, and is caught as a failed dispatch.
DispatchFails(d) ==
    /\ delivery[d] = "dispatch"
    /\ breakdowns < MaxBreakdowns
    /\ breakdowns' = breakdowns + 1
    /\ Proceeds(d, "fail")
    /\ UNCHANGED <<event, acknowledged>>

\* The failure is acknowledged with 200.
MarkInboundFailed(d) ==
    /\ delivery[d] = "fail"
    /\ event' = [event EXCEPT !.status = "failed"]
    /\ acknowledged' = TRUE
    /\ Proceeds(d, "idle")
    /\ UNCHANGED breakdowns

\* A crash, or a failed write outside the try block: the sender gets no 2xx.
DeliveryBreaksDown(d) ==
    /\ delivery[d] # "idle"
    /\ breakdowns < MaxBreakdowns
    /\ breakdowns' = breakdowns + 1
    /\ Proceeds(d, "idle")
    /\ UNCHANGED <<event, acknowledged>>

\* retryFailedEvent
RetryFailedEvent ==
    /\ event.status = "failed"
    /\ event' = [event EXCEPT !.status = "pending"]
    /\ UNCHANGED <<delivery, acknowledged, breakdowns>>

DeliveryStep(d) ==
    Receive(d) \/ Verify(d) \/ Reject(d) \/ Dispatch(d) \/ MarkInboundFailed(d)

InboundNext ==
    \/ \E d \in Deliveries : DeliveryStep(d) \/ DispatchFails(d) \/ DeliveryBreaksDown(d)
    \/ RetryFailedEvent

InboundSpec == InboundInit /\ [][InboundNext]_inboundVars

\* Requests are served to their end, the sender repeats a delivery that was not
\* acknowledged, and the administrator works off the failed events.
InboundFairness ==
    /\ \A d \in Deliveries : WF_inboundVars(DeliveryStep(d))
    /\ WF_inboundVars(RetryFailedEvent)

-----------------------------------------------------------------------------
\* The idempotency gate (inboundWebhookProcessor.ts:31): an event is dispatched
\* at most once, however often it is delivered and whatever breaks down.
DispatchedOnce == event.attempts <= 1

\* An event that is received is settled, or one of its deliveries broke down:
\* without a breakdown no order of deliveries leaves it pending.
SettledUnlessBrokenDown ==
    event.status = "pending" ~> (event.status = "skipped" \/ breakdowns > 0)

\* inboundWebhookProcessor.ts:4-6 "atomically records the raw event with its
\* idempotency key before any processing begins, so a crash mid-processing
\* leaves a retryable record rather than losing the event": what is pending is
\* eventually settled.
RetryableAfterCrash == event.status = "pending" ~> event.status = "skipped"
=============================================================================
