------------------------- MODULE IdempotentRequest -------------------------
(***************************************************************************)
(* The idempotency gate in front of the mutating routes                    *)
(* (server/src/middleware/idempotency.ts, services/idempotencyService.ts)  *)
(* for one (scope, key): a unique insert lets one request run, its outcome *)
(* is stored when the response has been sent, and later requests get what  *)
(* is stored.  Clients repeat requests that they hear nothing of.          *)
(***************************************************************************)
EXTENDS Integers, Sequences

CONSTANTS
    Clients,   \* requests in flight with the key, retries included
    Payloads,  \* request fingerprints
    Outcomes,  \* what the route may answer: status code and body
    NoOutcome,
    Retention, \* IDEMPOTENCY_RETENTION_MS in clock units
    MaxHour,   \* bound on the clock
    MaxAnswers \* bound on the answers recorded

VARIABLES
    gate,    \* the IdempotencyRecord of the key
    hour,    \* wall clock
    request, \* what each request is doing
    ran,     \* payloads the route has run with, in order
    sent     \* answers of the route and replays, in order

gateVars == <<gate, hour, request, ran, sent>>

NoGate  == [payload |-> "none"]
Waiting == [pc |-> "waiting"]

GateInit ==
    /\ gate = NoGate
    /\ hour = 0
    /\ request = [c \in Clients |-> Waiting]
    /\ ran = <<>>
    /\ sent = <<>>

\* Mutant: the key is looked up, and no index stands behind it.
KeyTakenUnlessDone == gate # NoGate /\ gate.status = "done"

KeyTaken == gate # NoGate

\* beginIdempotentRequest creates the record, or runs into the unique index.
Reserve(c, payload) ==
    /\ request[c] = Waiting
    /\ IF KeyTaken
       THEN /\ request' = [request EXCEPT ![c] =
                             [pc |-> "lookup", payload |-> payload, at |-> hour]]
            /\ UNCHANGED gate
       ELSE /\ gate' = [payload |-> payload, status |-> "processing",
                        outcome |-> NoOutcome, expires |-> hour + Retention]
            /\ request' = [request EXCEPT ![c] = [pc |-> "run", payload |-> payload]]
    /\ UNCHANGED <<hour, ran, sent>>

\* Mutant: a record that is still processing is replayed as well.
ReplayableEarly(r) ==
    /\ gate.payload = r.payload
    /\ gate.expires > r.at

\* A stored outcome of the same payload, not expired when the request came in.
Replayable(r) ==
    /\ gate.payload = r.payload
    /\ gate.expires > r.at
    /\ gate.status = "done"

\* The middleware stores what res.send was given: res.json calls it with the
\* body already serialised.  A replay passes that string to res.json again.
Serialised(outcome) ==
    [code |-> outcome.code, body |-> <<"string", outcome.body>>]

\* Replay, or a conflict, an expired key or a request in progress: 409.
AnswerDuplicate(c) ==
    /\ request[c].pc = "lookup"
    /\ Len(sent) < MaxAnswers
    /\ sent' = IF Replayable(request[c])
               THEN Append(sent, [replay |-> TRUE, payload |-> request[c].payload,
                                  outcome |-> gate.outcome])
               ELSE sent
    /\ request' = [request EXCEPT ![c] = Waiting]
    /\ UNCHANGED <<gate, hour, ran>>

\* The route runs and sends its response.
RunRoute(c, outcome) ==
    /\ request[c].pc = "run"
    /\ Len(sent) < MaxAnswers
    /\ ran' = Append(ran, request[c].payload)
    /\ sent' = Append(sent, [replay |-> FALSE, payload |-> request[c].payload,
                             outcome |-> outcome])
    /\ request' = [request EXCEPT ![c] = [pc |-> "finish", outcome |-> outcome]]
    /\ UNCHANGED <<gate, hour>>

\* "finish": completeIdempotentRequest.
StoreOutcome(c) ==
    /\ request[c].pc = "finish"
    /\ gate' = [gate EXCEPT !.status = "done", !.outcome = Serialised(request[c].outcome)]
    /\ request' = [request EXCEPT ![c] = Waiting]
    /\ UNCHANGED <<hour, ran, sent>>

\* A crash, or a failed write of the outcome, which nobody waits for.
RequestDies(c) ==
    /\ request[c] # Waiting
    /\ request' = [request EXCEPT ![c] = Waiting]
    /\ UNCHANGED <<gate, hour, ran, sent>>

HourPasses ==
    /\ hour < MaxHour
    /\ hour' = hour + 1
    /\ UNCHANGED <<gate, request, ran, sent>>

GateNext ==
    \/ \E c \in Clients :
          \/ \E payload \in Payloads : Reserve(c, payload)
          \/ AnswerDuplicate(c)
          \/ \E outcome \in Outcomes : RunRoute(c, outcome)
          \/ StoreOutcome(c)
          \/ RequestDies(c)
    \/ HourPasses

GateSpec == GateInit /\ [][GateNext]_gateVars

-----------------------------------------------------------------------------
\* "The first request reserves the key" (docs/idempotency.md:40): whatever
\* crashes, expires or is repeated, the route runs at most once under a key.
RunsOnce == Len(ran) <= 1

\* A request that is answered with a replay gets the serialised outcome of the
\* one run, which had its payload: never that of another payload, of a run still
\* going on, or of none.  It is not the answer itself, which is what
\* docs/idempotency.md:41-42 promises: a JSON body arrives encoded twice, as a
\* string.
ReplaysSerialisedRun ==
    \A i \in DOMAIN sent : sent[i].replay =>
        \E j \in 1..(i - 1) :
            /\ ~sent[j].replay
            /\ sent[j].payload = sent[i].payload
            /\ sent[i].outcome = Serialised(sent[j].outcome)
=============================================================================
