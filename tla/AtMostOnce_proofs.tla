-------------------------- MODULE AtMostOnce_proofs --------------------------
(***************************************************************************)
(* Proofs about the gates that let one of many identical requests through: *)
(* the idempotency keys (IdempotentRequest), the intake of inbound         *)
(* webhooks (InboundWebhook) and the unlock endpoint (UnlockRequest), for  *)
(* any number of requests.  The first two rest on a unique index: once the *)
(* record is there, nobody else gets to run, so whoever runs is alone and  *)
(* the first.  The third rests on times: the record of a signature         *)
(* outlives every request that found the challenge valid.                  *)
(***************************************************************************)
EXTENDS IdempotentRequest, InboundWebhook, UnlockRequest, TLAPS

(* Idempotency keys *)

\* A record of the key, as opposed to none.
IsGate(g) == {"payload", "status", "outcome", "expires"} \subseteq DOMAIN g

RunInv ==
    /\ DOMAIN request = Clients
    /\ ran \in Seq(Payloads) /\ Len(ran) <= 1
    /\ gate = NoGate \/ IsGate(gate)
    /\ gate = NoGate =>
          ran = <<>> /\ \A c \in Clients : request[c].pc \notin {"run", "finish"}
    /\ \A c \in Clients : request[c].pc = "run" =>
          ran = <<>> /\ request[c].payload \in Payloads
    /\ \A c, d \in Clients : request[c].pc = "run" /\ request[d].pc = "run" => c = d

LEMMA GateTaken == ASSUME NEW g, IsGate(g) PROVE g # NoGate
BY DEF IsGate, NoGate

LEMMA RunInvStep == RunInv /\ [GateNext]_gateVars => RunInv'
<1> SUFFICES ASSUME RunInv, [GateNext]_gateVars PROVE RunInv'
    OBVIOUS
<1> USE DEF RunInv
<1>1. ASSUME NEW c \in Clients, NEW payload \in Payloads, Reserve(c, payload)
      PROVE  RunInv'
  <2>1. CASE KeyTaken
    BY <1>1, <2>1 DEF Reserve, KeyTaken
  <2>2. CASE ~KeyTaken
    <3>1. /\ gate = NoGate /\ ran' = ran
          /\ gate' = [payload |-> payload, status |-> "processing",
                      outcome |-> NoOutcome, expires |-> hour + Retention]
          /\ request' = [request EXCEPT ![c] = [pc |-> "run", payload |-> payload]]
      BY <1>1, <2>2 DEF Reserve, KeyTaken
    <3>2. IsGate(gate')
      BY <3>1 DEF IsGate
    <3>3. gate' # NoGate
      BY <3>2, GateTaken
    <3> QED
      BY <3>1, <3>2, <3>3
  <2> QED
    BY <2>1, <2>2
<1>2. ASSUME NEW c \in Clients, AnswerDuplicate(c) PROVE RunInv'
    BY <1>2 DEF AnswerDuplicate, Waiting
<1>3. ASSUME NEW c \in Clients, NEW outcome \in Outcomes, RunRoute(c, outcome)
      PROVE  RunInv'
  <2>1. ran = <<>> /\ request[c].payload \in Payloads /\ gate # NoGate
    BY <1>3 DEF RunRoute
  <2>2. ran' = Append(ran, request[c].payload)
    BY <1>3 DEF RunRoute
  <2>3. ran' \in Seq(Payloads) /\ Len(ran') = 1
    BY <2>1, <2>2
  <2> QED
    BY <1>3, <2>1, <2>3 DEF RunRoute
<1>4. ASSUME NEW c \in Clients, StoreOutcome(c) PROVE RunInv'
  <2>1. gate # NoGate /\ IsGate(gate)
    BY <1>4 DEF StoreOutcome
  <2>2. IsGate(gate')
    BY <1>4, <2>1 DEF StoreOutcome, IsGate
  <2>3. gate' # NoGate
    BY <2>2, GateTaken
  <2> QED
    BY <1>4, <2>2, <2>3 DEF StoreOutcome, Waiting
<1>5. ASSUME NEW c \in Clients, RequestDies(c) PROVE RunInv'
    BY <1>5 DEF RequestDies, Waiting
<1>6. CASE HourPasses
    BY <1>6 DEF HourPasses
<1>7. CASE UNCHANGED gateVars
    BY <1>7 DEF gateVars
<1> QED
    BY <1>1, <1>2, <1>3, <1>4, <1>5, <1>6, <1>7 DEF GateNext

LEMMA RunInvInit == GateInit => RunInv
BY DEF GateInit, RunInv, Waiting

\* Under one key the route runs at most once, whatever crashes, expires or is
\* repeated.
THEOREM RouteRunsOnce == GateSpec => []RunsOnce
<1>1. RunInv => RunsOnce
    BY DEF RunInv, RunsOnce
<1> QED
    BY <1>1, RunInvInit, RunInvStep, PTL DEF GateSpec

\* The route has answered the payload with the outcome.
Answered(payload, outcome) ==
    \E j \in DOMAIN sent :
        ~sent[j].replay /\ sent[j].payload = payload /\ sent[j].outcome = outcome

\* What waits to be stored, and what is stored, is an answer of the route.
ReplayInv ==
    /\ RunInv
    /\ \E S : sent \in Seq(S)
    /\ \A c \in Clients : request[c].pc = "lookup" => gate # NoGate
    /\ \A c \in Clients : request[c].pc = "run" => request[c].payload = gate.payload
    /\ \A c \in Clients : request[c].pc = "finish" =>
          Answered(gate.payload, request[c].outcome)
    /\ gate # NoGate => gate.status \in {"processing", "done"}
    /\ gate # NoGate /\ gate.status = "done" =>
          \E outcome : gate.outcome = Serialised(outcome)
                       /\ Answered(gate.payload, outcome)
    /\ ReplaysSerialisedRun

LEMMA AppendFields ==
    ASSUME \E S : sent \in Seq(S), NEW r, sent' = Append(sent, r)
    PROVE  /\ \E S : sent' \in Seq(S)
           /\ Len(sent) \in Nat
           /\ DOMAIN sent = 1..Len(sent) /\ DOMAIN sent' = 1..(Len(sent) + 1)
           /\ \A i \in 1..Len(sent) : sent'[i] = sent[i]
           /\ sent'[Len(sent) + 1] = r
<1>1. PICK S : sent \in Seq(S)
    OBVIOUS
<1>2. sent \in Seq(S \cup {r})
    BY <1>1
<1>3. sent' \in Seq(S \cup {r})
    BY <1>2
<1> QED
    BY <1>2, <1>3

\* Answers are never taken back.
LEMMA AnsweredKept ==
    ASSUME \E S : sent \in Seq(S), NEW r, sent' = Append(sent, r),
           NEW payload, NEW outcome, Answered(payload, outcome)
    PROVE  Answered(payload, outcome)'
BY AppendFields DEF Answered

LEMMA ReplayInvStep == ReplayInv /\ [GateNext]_gateVars => ReplayInv'
<1> SUFFICES ASSUME ReplayInv, [GateNext]_gateVars PROVE ReplayInv'
    OBVIOUS
<1>0. RunInv /\ RunInv' /\ DOMAIN request = Clients
    BY RunInvStep DEF ReplayInv, RunInv
<1> USE DEF ReplayInv
<1>1. ASSUME NEW c \in Clients, NEW payload \in Payloads, Reserve(c, payload)
      PROVE  ReplayInv'
  <2>1. UNCHANGED <<hour, ran, sent>>
    BY <1>1 DEF Reserve
  <2>2. CASE KeyTaken
    <3>1. /\ gate # NoGate /\ gate' = gate
          /\ request' = [request EXCEPT ![c] =
                [pc |-> "lookup", payload |-> payload, at |-> hour]]
      BY <1>1, <2>2 DEF Reserve, KeyTaken
    <3> QED
      BY <1>0, <2>1, <3>1 DEF Answered, ReplaysSerialisedRun
  <2>3. CASE ~KeyTaken
    <3>1. /\ gate = NoGate
          /\ gate' = [payload |-> payload, status |-> "processing",
                      outcome |-> NoOutcome, expires |-> hour + Retention]
          /\ request' = [request EXCEPT ![c] = [pc |-> "run", payload |-> payload]]
      BY <1>1, <2>3 DEF Reserve, KeyTaken
    <3>2. /\ gate'.payload = payload /\ gate'.status = "processing"
          /\ \A d \in Clients \ {c} :
                request'[d] = request[d]
                /\ request[d].pc \notin {"run", "finish", "lookup"}
          /\ request'[c].pc = "run" /\ request'[c].payload = payload
      BY <1>0, <3>1 DEF RunInv
    <3> QED
      BY <1>0, <2>1, <3>2 DEF ReplaysSerialisedRun
  <2> QED
    BY <2>2, <2>3
<1>2. ASSUME NEW c \in Clients, AnswerDuplicate(c) PROVE ReplayInv'
  <2>1. /\ UNCHANGED gate /\ request' = [request EXCEPT ![c] = Waiting]
        /\ request[c].pc = "lookup" /\ gate # NoGate
    BY <1>2 DEF AnswerDuplicate
  <2>2. CASE ~Replayable(request[c])
    <3>1. sent' = sent
      BY <1>2, <2>2 DEF AnswerDuplicate
    <3> QED
      BY <1>0, <2>1, <3>1 DEF Waiting, Answered, ReplaysSerialisedRun
  <2>3. CASE Replayable(request[c])
    <3> DEFINE r == [replay |-> TRUE, payload |-> request[c].payload,
                     outcome |-> gate.outcome]
    <3>1. sent' = Append(sent, r)
      BY <1>2, <2>3 DEF AnswerDuplicate
    <3>2. gate.payload = request[c].payload /\ gate.status = "done"
      BY <2>3 DEF Replayable
    <3>3. PICK outcome : gate.outcome = Serialised(outcome)
                         /\ Answered(gate.payload, outcome)
      BY <2>1, <3>2
    <3>4. r.replay /\ r.payload = gate.payload /\ r.outcome = Serialised(outcome)
      BY <3>2, <3>3
    <3> HIDE DEF r
    <3>5. ReplaysSerialisedRun'
      <4>1. PICK k \in 1..Len(sent) : /\ ~sent[k].replay /\ sent[k].payload = r.payload
                                      /\ r.outcome = Serialised(sent[k].outcome)
        BY <3>1, <3>3, <3>4, AppendFields DEF Answered
      <4>2. /\ DOMAIN sent' = 1..(Len(sent) + 1) /\ DOMAIN sent = 1..Len(sent)
            /\ Len(sent) \in Nat /\ sent'[Len(sent) + 1] = r
            /\ \A i \in 1..Len(sent) : sent'[i] = sent[i]
        BY <3>1, AppendFields
      <4>3. ASSUME NEW i \in 1..Len(sent), sent'[i].replay
            PROVE  \E j \in 1..(i - 1) : /\ ~sent'[j].replay
                                         /\ sent'[j].payload = sent'[i].payload
                                         /\ sent'[i].outcome = Serialised(sent'[j].outcome)
        BY <4>2, <4>3 DEF ReplaysSerialisedRun
      <4>4. /\ k \in 1..((Len(sent) + 1) - 1) /\ sent'[k] = sent[k]
            /\ sent'[Len(sent) + 1] = r
        BY <4>1, <4>2
      <4>5. ASSUME NEW i \in 1..(Len(sent) + 1), sent'[i].replay
            PROVE  \E j \in 1..(i - 1) : /\ ~sent'[j].replay
                                         /\ sent'[j].payload = sent'[i].payload
                                         /\ sent'[i].outcome = Serialised(sent'[j].outcome)
        <5>1. CASE i \in 1..Len(sent)
          BY <4>3, <4>5, <5>1
        <5>2. CASE i = Len(sent) + 1
          <6>1. /\ ~sent'[k].replay
                /\ sent'[k].payload = sent'[i].payload
                /\ sent'[i].outcome = Serialised(sent'[k].outcome)
            BY <4>1, <4>4, <5>2
          <6> QED
            BY <4>4, <5>2, <6>1
        <5> QED
          BY <4>2, <5>1, <5>2
      <4> QED
        BY <4>2, <4>5 DEF ReplaysSerialisedRun
    <3>6. (\E S : sent \in Seq(S))' /\ \A p, o : Answered(p, o) => Answered(p, o)'
      BY <3>1, AppendFields, AnsweredKept
    <3> QED
      BY <1>0, <2>1, <3>5, <3>6 DEF Waiting
  <2> QED
    BY <2>2, <2>3
<1>3. ASSUME NEW c \in Clients, NEW outcome \in Outcomes, RunRoute(c, outcome)
      PROVE  ReplayInv'
  <2> DEFINE r == [replay |-> FALSE, payload |-> request[c].payload,
                   outcome |-> outcome]
  <2>1. /\ request[c].pc = "run" /\ UNCHANGED gate
        /\ sent' = Append(sent, r)
        /\ request' = [request EXCEPT ![c] = [pc |-> "finish", outcome |-> outcome]]
    BY <1>3 DEF RunRoute
  <2>2. ~r.replay /\ r.payload = gate.payload /\ r.outcome = outcome
    BY <2>1
  <2> HIDE DEF r
  <2>3. (\E S : sent \in Seq(S))' /\ \A p, o : Answered(p, o) => Answered(p, o)'
    BY <2>1, AppendFields, AnsweredKept
  <2>4. Answered(gate.payload, outcome)'
    BY <2>1, <2>2, AppendFields DEF Answered
  <2>5. ReplaysSerialisedRun'
    BY <2>1, <2>2, AppendFields DEF ReplaysSerialisedRun
  <2>6. \A d \in Clients : IF d = c
           THEN request'[d].pc = "finish" /\ request'[d].outcome = outcome
           ELSE request'[d] = request[d]
    BY <1>0, <2>1
  <2> QED
    BY <1>0, <2>1, <2>3, <2>4, <2>5, <2>6
<1>4. ASSUME NEW c \in Clients, StoreOutcome(c) PROVE ReplayInv'
  <2>1. /\ request[c].pc = "finish" /\ UNCHANGED sent
        /\ gate' = [gate EXCEPT !.status = "done",
                                !.outcome = Serialised(request[c].outcome)]
        /\ request' = [request EXCEPT ![c] = Waiting]
        /\ gate # NoGate /\ IsGate(gate)
    BY <1>0, <1>4 DEF StoreOutcome, RunInv
  <2>2. /\ gate'.payload = gate.payload /\ gate'.status = "done"
        /\ gate'.outcome = Serialised(request[c].outcome)
        /\ gate' # NoGate
    BY <2>1, GateTaken DEF IsGate
  <2>3. \E outcome : gate'.outcome = Serialised(outcome)
                      /\ Answered(gate.payload, outcome)'
    <3>1. PICK outcome : outcome = request[c].outcome
      OBVIOUS
    <3>2. Answered(gate.payload, outcome)
      BY <2>1, <3>1
    <3>3. Answered(gate.payload, outcome)'
      BY <2>1, <2>2, <3>2 DEF Answered
    <3>4. gate'.outcome = Serialised(outcome)
      BY <2>2, <3>1
    <3> QED
      BY <3>3, <3>4
  <2>4. \A d \in Clients : IF d = c THEN request'[d].pc = "waiting"
                                    ELSE request'[d] = request[d]
    BY <1>0, <2>1 DEF Waiting
  <2>5. ASSUME NEW d \in Clients, request'[d].pc = "finish"
        PROVE  Answered(gate.payload, request[d].outcome)'
    BY <1>0, <2>1, <2>2, <2>4, <2>5 DEF Answered
  <2>6. ReplaysSerialisedRun'
    BY <2>1 DEF ReplaysSerialisedRun
  <2> QED
    BY <1>0, <2>1, <2>2, <2>3, <2>4, <2>5, <2>6
<1>5. ASSUME NEW c \in Clients, RequestDies(c) PROVE ReplayInv'
    BY <1>0, <1>5 DEF RequestDies, Waiting, Answered, ReplaysSerialisedRun
<1>6. CASE HourPasses
    BY <1>0, <1>6 DEF HourPasses, Answered, ReplaysSerialisedRun
<1>7. CASE UNCHANGED gateVars
    BY <1>0, <1>7 DEF gateVars, Answered, ReplaysSerialisedRun
<1> QED
    BY <1>1, <1>2, <1>3, <1>4, <1>5, <1>6, <1>7 DEF GateNext

\* Whoever is answered with a replay has sent the payload of the one run, and
\* gets its outcome serialised, a JSON body encoded twice: not the answer itself
\* (the run idempotency_replay), but no other outcome either.
THEOREM RepliesReplaySerialisedRun == GateSpec => []ReplaysSerialisedRun
<1>1. GateInit => ReplayInv
    BY RunInvInit DEF GateInit, ReplayInv, Waiting, ReplaysSerialisedRun
<1>2. ReplayInv => ReplaysSerialisedRun
    BY DEF ReplayInv
<1> QED
    BY <1>1, <1>2, ReplayInvStep, PTL DEF GateSpec

-----------------------------------------------------------------------------
(* Inbound webhooks *)

\* At most one delivery is at work, from the first one that found no event.
IntakeInv ==
    /\ DOMAIN delivery = Deliveries
    /\ event \in [status : {"absent", "pending", "processing", "skipped", "failed"},
                  verified : {"pending", "verified", "verification_failed"},
                  attempts : Nat]
    /\ event.attempts <= 1
    /\ event.status = "absent" =>
          event.attempts = 0 /\ \A d \in Deliveries : delivery[d] = "idle"
    /\ \A d \in Deliveries : delivery[d] = "verify" => event.attempts = 0
    /\ \A c, d \in Deliveries : delivery[c] # "idle" /\ delivery[d] # "idle" => c = d

LEMMA IntakeInvStep == IntakeInv /\ [InboundNext]_inboundVars => IntakeInv'
<1> SUFFICES ASSUME IntakeInv, [InboundNext]_inboundVars PROVE IntakeInv'
    OBVIOUS
<1> USE DEF IntakeInv, Proceeds
<1>1. ASSUME NEW d \in Deliveries, Receive(d) PROVE IntakeInv'
    BY <1>1 DEF Receive, Known
<1>2. ASSUME NEW d \in Deliveries, Verify(d) PROVE IntakeInv'
    BY <1>2 DEF Verify
<1>3. ASSUME NEW d \in Deliveries, Reject(d) PROVE IntakeInv'
    BY <1>3 DEF Reject
<1>4. ASSUME NEW d \in Deliveries, Dispatch(d) PROVE IntakeInv'
    BY <1>4 DEF Dispatch
<1>5. ASSUME NEW d \in Deliveries, DispatchFails(d) PROVE IntakeInv'
    BY <1>5 DEF DispatchFails
<1>6. ASSUME NEW d \in Deliveries, MarkInboundFailed(d) PROVE IntakeInv'
    BY <1>6 DEF MarkInboundFailed
<1>7. ASSUME NEW d \in Deliveries, DeliveryBreaksDown(d) PROVE IntakeInv'
    BY <1>7 DEF DeliveryBreaksDown
<1>8. CASE RetryFailedEvent
    BY <1>8 DEF RetryFailedEvent
<1>9. CASE UNCHANGED inboundVars
    BY <1>9 DEF inboundVars
<1> QED
    BY <1>1, <1>2, <1>3, <1>4, <1>5, <1>6, <1>7, <1>8, <1>9
    DEF InboundNext, DeliveryStep

\* An inbound event is dispatched at most once, however often it is delivered,
\* whatever breaks down and whoever resets it.
THEOREM EventsDispatchedOnce == InboundSpec => []DispatchedOnce
<1>1. InboundInit => IntakeInv
    BY DEF InboundInit, NoEvent, IntakeInv
<1>2. IntakeInv => DispatchedOnce
    BY DEF IntakeInv, DispatchedOnce
<1> QED
    BY <1>1, <1>2, IntakeInvStep, PTL DEF InboundSpec

-----------------------------------------------------------------------------
(* The unlock endpoint *)

\* Past the consumption of the nonce of challenge c.
Holding(r, c) == unlock[r].pc \in {"replay", "open"} /\ unlock[r].challenge = c

Consumed(c) ==
    \/ \E r \in Requests : Holding(r, c)
    \/ \E s \in Spellings : opened[<<c, s>>] > 0

\* Past the replay protection with the spelling p of a challenge.
Opening(r, p) == unlock[r].pc = "open" /\ Signed(r) = p

Passed(p) == opened[p] > 0 \/ \E r \in Requests : Opening(r, p)

Underway(r) == unlock[r].pc \notin {"free", "store"}

Verified(r) == unlock[r].pc \in {"nonce", "replay", "open"}

UnlockTypeOK ==
    /\ second \in Nat
    /\ expiresAt \in [Challenges -> Nat \cup {NotIssued}]
    /\ nonceUntil \in [Challenges -> Nat]
    /\ replayUntil \in [Signatures -> Nat]
    /\ opened \in [Signatures -> Nat]
    /\ DOMAIN unlock = Requests
    /\ \A r \in Requests : Underway(r) =>
          /\ {"pc", "challenge", "spelling", "keyed", "at"} \subseteq DOMAIN unlock[r]
          /\ unlock[r].challenge \in Challenges /\ unlock[r].spelling \in Spellings
          /\ unlock[r].at \in Nat

\* Who is served holds a challenge that was issued, and was valid when verified.
ServedInv ==
    /\ UnlockTypeOK
    /\ \A c \in Challenges : expiresAt[c] # NotIssued => expiresAt[c] <= second + TokenLife
    /\ \A r \in Requests : Underway(r) => expiresAt[unlock[r].challenge] # NotIssued
    /\ \A r \in Requests : Verified(r) => unlock[r].at <= expiresAt[unlock[r].challenge]
    /\ \A p \in Signatures : opened[p] > 0 => expiresAt[p[1]] # NotIssued

\* Unless its nonce was consumed after it had expired, the nonce of a challenge
\* that somebody holds is kept for as long as it is valid, and nobody else does.
NonceInv ==
    \A c \in Challenges \ late :
        /\ Consumed(c) => expiresAt[c] <= nonceUntil[c]
        /\ \A q, r \in Requests : Holding(q, c) /\ Holding(r, c) => q = r
        /\ \A s \in Spellings : opened[<<c, s>>] > 0 => \A r \in Requests : ~Holding(r, c)
        /\ \A s, t \in Spellings :
              /\ opened[<<c, s>>] <= 1
              /\ opened[<<c, s>>] > 0 /\ opened[<<c, t>>] > 0 => s = t

\* Unless a request stood too long, a spelling is kept as long as any request
\* that found its challenge valid may take.
SignatureInv ==
    \A p \in Signatures \ stalled :
        /\ Passed(p) => expiresAt[p[1]] + ReplayLife <= replayUntil[p] + TokenLife
        /\ \A q, r \in Requests : Opening(q, p) /\ Opening(r, p) => q = r
        /\ opened[p] > 0 => \A r \in Requests : ~Opening(r, p)
        /\ opened[p] <= 1

LEMMA UnlockInvInit == UnlockInit => ServedInv /\ NonceInv /\ SignatureInv
<1> SUFFICES ASSUME UnlockInit PROVE ServedInv /\ NonceInv /\ SignatureInv
    OBVIOUS
<1>1. /\ \A r \in Requests : unlock[r].pc = "free"
      /\ \A p \in Signatures : opened[p] = 0
      /\ \A c \in Challenges, s \in Spellings : <<c, s>> \in Signatures
    BY DEF UnlockInit, NotServed, Signatures
<1>2. ServedInv
    BY <1>1, UnlockAssumption DEF UnlockInit, ServedInv, UnlockTypeOK, Underway, Verified, NotIssued
<1>3. NonceInv
  <2>1. ASSUME NEW c \in Challenges, NEW s \in Spellings
        PROVE  ~(opened[<<c, s>>] > 0) /\ opened[<<c, s>>] <= 1
    <3>1. opened[<<c, s>>] = 0
      BY <1>1
    <3> QED
      BY <3>1
  <2>2. \A c : \A r \in Requests : ~Holding(r, c)
    BY <1>1 DEF Holding
  <2>3. \A c \in Challenges : ~Consumed(c)
    BY <2>1, <2>2 DEF Consumed
  <2> QED
    BY <2>1, <2>2, <2>3 DEF NonceInv
<1>4. SignatureInv
    BY <1>1 DEF SignatureInv, Passed, Opening
<1> QED
    BY <1>2, <1>3, <1>4

\* What happens to a request: the others stay, and its record is one of a
\* request that is served, or none.
Moves(r) ==
    /\ DOMAIN unlock' = Requests
    /\ \A q \in Requests \ {r} : unlock'[q] = unlock[q]

LEMMA MovesOthers ==
    ASSUME NEW r \in Requests, Moves(r), NEW q \in Requests, q # r
    PROVE  /\ Underway(q)' <=> Underway(q)
           /\ Verified(q)' <=> Verified(q)
           /\ Signed(q)' = Signed(q)
           /\ \A c : Holding(q, c)' <=> Holding(q, c)
           /\ \A p : Opening(q, p)' <=> Opening(q, p)
BY DEF Moves, Underway, Verified, Signed, Holding, Opening

\* A step of request r that leaves the challenges and the clock alone.
LEMMA ServedMoves ==
    ASSUME ServedInv, NEW r \in Requests, Moves(r),
           UNCHANGED <<second, expiresAt>>,
           nonceUntil' \in [Challenges -> Nat], replayUntil' \in [Signatures -> Nat],
           opened' \in [Signatures -> Nat],
           \A p \in Signatures : opened'[p] > 0 => expiresAt[p[1]] # NotIssued,
           Underway(r)' =>
              /\ {"pc", "challenge", "spelling", "keyed", "at"} \subseteq DOMAIN unlock'[r]
              /\ unlock'[r].challenge \in Challenges /\ unlock'[r].spelling \in Spellings
              /\ unlock'[r].at \in Nat
              /\ expiresAt[unlock'[r].challenge] # NotIssued,
           Verified(r)' => unlock'[r].at <= expiresAt[unlock'[r].challenge]
    PROVE  ServedInv'
<1>1. \A q \in Requests \ {r} :
         /\ unlock'[q] = unlock[q]
         /\ Underway(q)' <=> Underway(q)
         /\ Verified(q)' <=> Verified(q)
    BY MovesOthers DEF Moves
<1>2. UnlockTypeOK'
    BY <1>1 DEF ServedInv, UnlockTypeOK, Moves
<1> QED
    BY <1>1, <1>2 DEF ServedInv, UnlockTypeOK

\* Nobody gets past the nonce, and nothing is opened.
LEMMA NonceStays ==
    ASSUME ServedInv, NonceInv, UNCHANGED <<opened, late>>,
           \A c \in Challenges : expiresAt[c] # NotIssued => expiresAt'[c] = expiresAt[c],
           UNCHANGED nonceUntil,
           \A r \in Requests, c \in Challenges : Holding(r, c)' => Holding(r, c)
    PROVE  NonceInv'
<1> SUFFICES ASSUME NEW c \in Challenges \ late
             PROVE  /\ Consumed(c)' => expiresAt'[c] <= nonceUntil[c]
                    /\ \A q, r \in Requests : Holding(q, c)' /\ Holding(r, c)' => q = r
                    /\ \A s \in Spellings : opened[<<c, s>>] > 0 =>
                          \A r \in Requests : ~Holding(r, c)'
                    /\ \A s, t \in Spellings :
                          /\ opened[<<c, s>>] <= 1
                          /\ opened[<<c, s>>] > 0 /\ opened[<<c, t>>] > 0 => s = t
    BY DEF NonceInv
<1>1. Consumed(c)' => Consumed(c)
    BY DEF Consumed
<1>2. Consumed(c) => expiresAt[c] # NotIssued
  <2>1. \A s \in Spellings : <<c, s>> \in Signatures /\ <<c, s>>[1] = c
    BY DEF Signatures
  <2>2. \A r \in Requests : Holding(r, c) => Underway(r) /\ unlock[r].challenge = c
    BY DEF Holding, Underway
  <2> QED
    BY <2>1, <2>2 DEF Consumed, ServedInv
<1> QED
    BY <1>1, <1>2 DEF NonceInv

LEMMA SignatureStays ==
    ASSUME ServedInv, SignatureInv, UNCHANGED <<opened, stalled, replayUntil>>,
           \A c \in Challenges : expiresAt[c] # NotIssued => expiresAt'[c] = expiresAt[c],
           \A r \in Requests, p \in Signatures : Opening(r, p)' => Opening(r, p)
    PROVE  SignatureInv'
<1> SUFFICES ASSUME NEW p \in Signatures \ stalled
             PROVE  /\ Passed(p)' => expiresAt'[p[1]] + ReplayLife <= replayUntil[p] + TokenLife
                    /\ \A q, r \in Requests : Opening(q, p)' /\ Opening(r, p)' => q = r
                    /\ opened[p] > 0 => \A r \in Requests : ~Opening(r, p)'
                    /\ opened[p] <= 1
    BY DEF SignatureInv
<1>1. Passed(p)' => Passed(p)
    BY DEF Passed
<1>2. Passed(p) => expiresAt[p[1]] # NotIssued
  <2>1. \A r \in Requests : Opening(r, p) => Underway(r) /\ unlock[r].challenge = p[1]
    BY DEF Opening, Underway, Signed
  <2> QED
    BY <2>1 DEF Passed, ServedInv
<1>3. p[1] \in Challenges
    BY DEF Signatures
<1> QED
    BY <1>1, <1>2, <1>3 DEF SignatureInv

UnlockInv == ServedInv /\ NonceInv /\ SignatureInv

\* A step of request r that gets past neither check and opens nothing.
LEMMA RequestMoves ==
    ASSUME UnlockInv, NEW r \in Requests, Moves(r),
           UNCHANGED <<second, expiresAt, nonceUntil, replayUntil, opened, late, stalled>>,
           unlock'[r].pc \notin {"replay", "open"},
           Underway(r)' =>
              /\ {"pc", "challenge", "spelling", "keyed", "at"} \subseteq DOMAIN unlock'[r]
              /\ unlock'[r].challenge \in Challenges /\ unlock'[r].spelling \in Spellings
              /\ unlock'[r].at \in Nat
              /\ expiresAt[unlock'[r].challenge] # NotIssued,
           Verified(r)' => unlock'[r].at <= expiresAt[unlock'[r].challenge]
    PROVE  UnlockInv'
<1>1. ServedInv'
    BY ServedMoves DEF UnlockInv, ServedInv, UnlockTypeOK
<1>2. \A q \in Requests :
         /\ \A c : Holding(q, c)' => Holding(q, c)
         /\ \A p : Opening(q, p)' => Opening(q, p)
    BY MovesOthers DEF Holding, Opening
<1>3. NonceInv'
    BY <1>2, NonceStays DEF UnlockInv
<1>4. SignatureInv'
    BY <1>2, SignatureStays DEF UnlockInv
<1> QED
    BY <1>1, <1>3, <1>4 DEF UnlockInv

\* The request r is let past the nonce.
LEMMA NonceConsumed ==
    ASSUME UnlockInv, NEW r \in Requests, ConsumeNonce(r),
           ~(second < nonceUntil[unlock[r].challenge])
    PROVE  UnlockInv'
<1> USE DEF UnlockInv
<1>1. PICK c : c = unlock[r].challenge
    OBVIOUS
<1>2. /\ unlock[r].pc = "nonce" /\ Underway(r) /\ Verified(r)
      /\ c \in Challenges /\ unlock[r].spelling \in Spellings /\ unlock[r].at \in Nat
      /\ {"pc", "challenge", "spelling", "keyed", "at"} \subseteq DOMAIN unlock[r]
      /\ expiresAt[c] \in Nat /\ second \in Nat /\ nonceUntil[c] \in Nat
      /\ expiresAt[c] # NotIssued /\ unlock[r].at <= expiresAt[c]
    BY <1>1 DEF ConsumeNonce, Underway, Verified, ServedInv, UnlockTypeOK
<1>3. PICK until : until = second + NonceLife(c)
    OBVIOUS
<1>4. until \in Nat /\ expiresAt[c] <= until
    BY <1>2, <1>3, UnlockAssumption DEF NonceLife
<1>5. /\ nonceUntil' = [nonceUntil EXCEPT ![c] = until]
      /\ late' = IF expiresAt[c] <= second THEN late \cup {c} ELSE late
      /\ unlock' = [unlock EXCEPT ![r].pc = "replay"]
      /\ UNCHANGED <<second, expiresAt, replayUntil, opened, stalled>>
      /\ ~(second < nonceUntil[c])
    BY <1>1, <1>3 DEF ConsumeNonce, GoTo
<1>6. /\ Moves(r) /\ unlock'[r].pc = "replay" /\ DOMAIN unlock'[r] = DOMAIN unlock[r]
      /\ unlock'[r].challenge = c /\ unlock'[r].spelling = unlock[r].spelling
      /\ unlock'[r].at = unlock[r].at
    BY <1>1, <1>2, <1>5 DEF Moves, ServedInv, UnlockTypeOK
<1>7. /\ nonceUntil' \in [Challenges -> Nat] /\ nonceUntil'[c] = until
      /\ \A d \in Challenges \ {c} : nonceUntil'[d] = nonceUntil[d]
    BY <1>2, <1>4, <1>5 DEF ServedInv, UnlockTypeOK
<1>8. ServedInv'
    BY <1>2, <1>5, <1>6, <1>7, ServedMoves DEF ServedInv, UnlockTypeOK
<1>9. \A q \in Requests, d \in Challenges :
         Holding(q, d)' <=> Holding(q, d) \/ (q = r /\ d = c)
  <2>1. \A d : Holding(r, d)' <=> d = c
    BY <1>6 DEF Holding
  <2>2. \A d : ~Holding(r, d)
    BY <1>2 DEF Holding
  <2> QED
    BY <1>6, <2>1, <2>2, MovesOthers
<1>10. \A q \in Requests, p \in Signatures : Opening(q, p)' => Opening(q, p)
    BY <1>6, MovesOthers DEF Opening
<1>11. SignatureInv'
    BY <1>5, <1>10, SignatureStays
<1>12. ASSUME c \notin late'
       PROVE  c \notin late /\ ~Consumed(c)
    BY <1>2, <1>5, <1>12 DEF NonceInv
<1>13. ASSUME NEW d \in Challenges \ late'
       PROVE  /\ Consumed(d)' => expiresAt'[d] <= nonceUntil'[d]
              /\ \A q, o \in Requests : Holding(q, d)' /\ Holding(o, d)' => q = o
              /\ \A s \in Spellings : opened'[<<d, s>>] > 0 =>
                    \A q \in Requests : ~Holding(q, d)'
              /\ \A s, t \in Spellings :
                    /\ opened'[<<d, s>>] <= 1
                    /\ opened'[<<d, s>>] > 0 /\ opened'[<<d, t>>] > 0 => s = t
  <2>1. d \notin late
    BY <1>5, <1>13
  <2>2. CASE d = c
    <3>1. ~Consumed(c)
      BY <1>12, <1>13, <2>2
    <3>2. \A q \in Requests : ~Holding(q, c)
      BY <3>1 DEF Consumed
    <3>3. \A s \in Spellings : ~(opened[<<c, s>>] > 0)
      BY <3>1 DEF Consumed
    <3>4. expiresAt'[c] <= nonceUntil'[c]
      BY <1>4, <1>5, <1>7
    <3> QED
      BY <1>5, <1>9, <2>1, <2>2, <3>2, <3>3, <3>4 DEF NonceInv
  <2>3. CASE d # c
    <3>1. \A q \in Requests : Holding(q, d)' <=> Holding(q, d)
      BY <1>9, <2>3
    <3>2. Consumed(d)' <=> Consumed(d)
      BY <1>5, <3>1 DEF Consumed
    <3> QED
      BY <1>5, <1>7, <2>1, <2>3, <3>1, <3>2 DEF NonceInv
  <2> QED
    BY <2>2, <2>3
<1>14. NonceInv'
    BY <1>13 DEF NonceInv
<1> QED
    BY <1>8, <1>11, <1>14

\* The request r is let past the replay protection.
LEMMA SignatureConsumed ==
    ASSUME UnlockInv, NEW r \in Requests, ConsumeSignature(r),
           ~(second < replayUntil[Signed(r)])
    PROVE  UnlockInv'
<1> USE DEF UnlockInv
<1>1. PICK p : p = Signed(r)
    OBVIOUS
<1>2. /\ unlock[r].pc = "replay" /\ Underway(r) /\ Verified(r)
      /\ unlock[r].challenge \in Challenges /\ unlock[r].spelling \in Spellings
      /\ unlock[r].at \in Nat
      /\ {"pc", "challenge", "spelling", "keyed", "at"} \subseteq DOMAIN unlock[r]
      /\ expiresAt[unlock[r].challenge] # NotIssued
      /\ unlock[r].at <= expiresAt[unlock[r].challenge]
    BY DEF ConsumeSignature, Underway, Verified, ServedInv, UnlockTypeOK
<1>3. p \in Signatures /\ p[1] = unlock[r].challenge
    BY <1>1, <1>2 DEF Signed, Signatures
<1>4. /\ expiresAt[p[1]] \in Nat /\ second \in Nat /\ replayUntil[p] \in Nat
      /\ expiresAt[p[1]] <= second + TokenLife
    BY <1>2, <1>3 DEF ServedInv, UnlockTypeOK
<1>5. /\ replayUntil' = [replayUntil EXCEPT ![p] = second + ReplayLife]
      /\ stalled' = IF second - unlock[r].at >= ReplayLife - TokenLife
                    THEN stalled \cup {p} ELSE stalled
      /\ unlock' = [unlock EXCEPT ![r].pc = "open"]
      /\ UNCHANGED <<second, expiresAt, nonceUntil, opened, late>>
      /\ ~(second < replayUntil[p])
    BY <1>1 DEF ConsumeSignature, GoTo, KeptUntil
<1>6. /\ Moves(r) /\ unlock'[r].pc = "open" /\ DOMAIN unlock'[r] = DOMAIN unlock[r]
      /\ unlock'[r].challenge = unlock[r].challenge
      /\ unlock'[r].spelling = unlock[r].spelling
      /\ unlock'[r].at = unlock[r].at
    BY <1>2, <1>5 DEF Moves, ServedInv, UnlockTypeOK
<1>7. /\ replayUntil' \in [Signatures -> Nat] /\ replayUntil'[p] = second + ReplayLife
      /\ \A o \in Signatures \ {p} : replayUntil'[o] = replayUntil[o]
    BY <1>3, <1>4, <1>5, UnlockAssumption DEF ServedInv, UnlockTypeOK
<1>8. ServedInv'
    BY <1>2, <1>5, <1>6, <1>7, ServedMoves DEF ServedInv, UnlockTypeOK
<1>9. \A q \in Requests, o \in Signatures :
         Opening(q, o)' <=> Opening(q, o) \/ (q = r /\ o = p)
  <2>1. Signed(r)' = p
    BY <1>1, <1>6 DEF Signed
  <2>2. \A o : Opening(r, o)' <=> o = p
    BY <1>6, <2>1 DEF Opening
  <2>3. \A o : ~Opening(r, o)
    BY <1>2 DEF Opening
  <2> QED
    BY <1>6, <2>2, <2>3, MovesOthers
<1>10. \A q \in Requests, c \in Challenges : Holding(q, c)' => Holding(q, c)
  <2>1. \A c : Holding(r, c)' => Holding(r, c)
    BY <1>2, <1>6 DEF Holding
  <2> QED
    BY <1>6, <2>1, MovesOthers
<1>11. NonceInv'
    BY <1>5, <1>10, NonceStays
<1>12. ASSUME p \notin stalled'
       PROVE  p \notin stalled /\ ~Passed(p)
  <2>1. p \notin stalled /\ second - unlock[r].at < ReplayLife - TokenLife
    BY <1>2, <1>4, <1>5, <1>12, UnlockAssumption
  <2>2. ~(expiresAt[p[1]] + ReplayLife <= replayUntil[p] + TokenLife)
    BY <1>2, <1>3, <1>4, <1>5, <2>1, UnlockAssumption
  <2> QED
    BY <1>3, <2>1, <2>2 DEF SignatureInv
<1>13. ASSUME NEW o \in Signatures \ stalled'
       PROVE  /\ Passed(o)' => expiresAt'[o[1]] + ReplayLife <= replayUntil'[o] + TokenLife
              /\ \A q, t \in Requests : Opening(q, o)' /\ Opening(t, o)' => q = t
              /\ opened'[o] > 0 => \A q \in Requests : ~Opening(q, o)'
              /\ opened'[o] <= 1
  <2>1. o \notin stalled
    BY <1>5, <1>13
  <2>2. CASE o = p
    <3>1. ~Passed(p)
      BY <1>12, <1>13, <2>2
    <3>2. (\A q \in Requests : ~Opening(q, p)) /\ ~(opened[p] > 0)
      BY <3>1 DEF Passed
    <3>3. expiresAt'[p[1]] + ReplayLife <= replayUntil'[p] + TokenLife
      BY <1>4, <1>5, <1>7, UnlockAssumption
    <3> QED
      BY <1>5, <1>9, <2>1, <2>2, <3>2, <3>3 DEF SignatureInv
  <2>3. CASE o # p
    <3>1. \A q \in Requests : Opening(q, o)' <=> Opening(q, o)
      BY <1>9, <2>3
    <3>2. Passed(o)' <=> Passed(o)
      BY <1>5, <3>1 DEF Passed
    <3> QED
      BY <1>5, <1>7, <2>1, <2>3, <3>1, <3>2 DEF SignatureInv
  <2> QED
    BY <2>2, <2>3
<1>14. SignatureInv'
    BY <1>13 DEF SignatureInv
<1> QED
    BY <1>8, <1>11, <1>14

\* The request r is answered with the plaintext.
LEMMA PromptOpened ==
    ASSUME UnlockInv, NEW r \in Requests, OpenPrompt(r),
           opened' = [opened EXCEPT ![Signed(r)] = @ + 1], Answer(r, "plaintext")
    PROVE  UnlockInv'
<1> USE DEF UnlockInv
<1>1. PICK p : p = Signed(r)
    OBVIOUS
<1>2. PICK c : c = unlock[r].challenge
    OBVIOUS
<1>3. /\ unlock[r].pc = "open" /\ Underway(r)
      /\ c \in Challenges /\ p \in Signatures /\ p[1] = c
      /\ expiresAt[c] # NotIssued /\ opened[p] \in Nat
      /\ Opening(r, p) /\ Holding(r, c)
    BY <1>1, <1>2
    DEF OpenPrompt, Underway, ServedInv, UnlockTypeOK, Opening, Holding, Signed, Signatures
<1>4. /\ Moves(r) /\ unlock'[r].pc \in {"store", "free"}
      /\ UNCHANGED <<second, expiresAt, nonceUntil, replayUntil, late, stalled>>
    BY DEF OpenPrompt, Answer, NotServed, Moves, ServedInv, UnlockTypeOK
<1>5. /\ opened' \in [Signatures -> Nat] /\ opened'[p] = opened[p] + 1
      /\ \A o \in Signatures \ {p} : opened'[o] = opened[o]
    BY <1>1, <1>3 DEF ServedInv, UnlockTypeOK
<1>6. ~Underway(r)' /\ ~Verified(r)'
      /\ (\A d : ~Holding(r, d)') /\ \A o : ~Opening(r, o)'
    BY <1>4 DEF Underway, Verified, Holding, Opening
<1>7. ServedInv'
  <2>1. \A o \in Signatures : opened'[o] > 0 => expiresAt[o[1]] # NotIssued
    BY <1>3, <1>5 DEF ServedInv
  <2> QED
    BY <1>4, <1>5, <1>6, <2>1, ServedMoves DEF ServedInv, UnlockTypeOK
<1>8. \A q \in Requests :
         /\ \A d : Holding(q, d)' <=> Holding(q, d) /\ q # r
         /\ \A o : Opening(q, o)' <=> Opening(q, o) /\ q # r
    BY <1>4, <1>6, MovesOthers
<1>9. NonceInv'
  <2> SUFFICES ASSUME NEW d \in Challenges \ late
               PROVE  /\ Consumed(d)' => expiresAt[d] <= nonceUntil[d]
                      /\ \A q, o \in Requests : Holding(q, d)' /\ Holding(o, d)' => q = o
                      /\ \A s \in Spellings : opened'[<<d, s>>] > 0 =>
                            \A q \in Requests : ~Holding(q, d)'
                      /\ \A s, t \in Spellings :
                            /\ opened'[<<d, s>>] <= 1
                            /\ opened'[<<d, s>>] > 0 /\ opened'[<<d, t>>] > 0 => s = t
    BY <1>4 DEF NonceInv
  <2>1. CASE d = c
    <3>1. Consumed(c) /\ \A q \in Requests : ~Holding(q, c)'
      BY <1>3, <1>8, <2>1 DEF Consumed, NonceInv
    <3>2. \A s \in Spellings : <<c, s>> \in Signatures /\ opened[<<c, s>>] = 0
      BY <1>3, <2>1 DEF NonceInv, Signatures, ServedInv, UnlockTypeOK
    <3>3. \A s \in Spellings : opened'[<<c, s>>] = IF <<c, s>> = p THEN 1 ELSE 0
      BY <1>5, <3>2
    <3>4. \A s, t \in Spellings : <<c, s>> = p /\ <<c, t>> = p => s = t
      OBVIOUS
    <3> QED
      BY <2>1, <3>1, <3>3, <3>4 DEF NonceInv
  <2>2. CASE d # c
    <3>1. \A s \in Spellings : <<d, s>> \in Signatures /\ <<d, s>> # p
      BY <1>3, <2>2 DEF Signatures
    <3>2. \A s \in Spellings : opened'[<<d, s>>] = opened[<<d, s>>]
      BY <1>5, <3>1
    <3>3. \A q \in Requests : Holding(q, d)' => Holding(q, d)
      BY <1>8
    <3>4. Consumed(d)' => Consumed(d)
      BY <3>2, <3>3 DEF Consumed
    <3> QED
      BY <3>2, <3>3, <3>4 DEF NonceInv
  <2> QED
    BY <2>1, <2>2
<1>10. SignatureInv'
  <2> SUFFICES ASSUME NEW o \in Signatures \ stalled
               PROVE  /\ Passed(o)' => expiresAt[o[1]] + ReplayLife <= replayUntil[o] + TokenLife
                      /\ \A q, t \in Requests : Opening(q, o)' /\ Opening(t, o)' => q = t
                      /\ opened'[o] > 0 => \A q \in Requests : ~Opening(q, o)'
                      /\ opened'[o] <= 1
    BY <1>4 DEF SignatureInv
  <2>1. CASE o = p
    <3>1. Passed(p) /\ (\A q \in Requests : ~Opening(q, p)') /\ opened[p] = 0
      BY <1>3, <1>8, <2>1 DEF Passed, SignatureInv
    <3> QED
      BY <1>5, <2>1, <3>1 DEF SignatureInv
  <2>2. CASE o # p
    <3>1. opened'[o] = opened[o]
      BY <1>5, <2>2
    <3>2. \A q \in Requests : Opening(q, o)' => Opening(q, o)
      BY <1>8
    <3>3. Passed(o)' => Passed(o)
      BY <3>1, <3>2 DEF Passed
    <3> QED
      BY <3>1, <3>2, <3>3 DEF SignatureInv
  <2> QED
    BY <2>1, <2>2
<1> QED
    BY <1>7, <1>9, <1>10

LEMMA UnlockInvStep == UnlockInv /\ [UnlockNext]_unlockVars => UnlockInv'
<1> SUFFICES ASSUME UnlockInv, [UnlockNext]_unlockVars PROVE UnlockInv'
    OBVIOUS
<1> USE DEF UnlockInv
<1>1. ASSUME NEW c \in Challenges, IssueChallenge(c) PROVE UnlockInv'
  <2>1. /\ expiresAt[c] = NotIssued
        /\ expiresAt' = [expiresAt EXCEPT ![c] = second + TokenLife]
        /\ UNCHANGED <<second, nonceUntil, replayUntil, unlock, opened, late, stalled>>
    BY <1>1 DEF IssueChallenge
  <2>2. second \in Nat /\ second + TokenLife \in Nat
    BY UnlockAssumption DEF ServedInv, UnlockTypeOK
  <2>3. /\ expiresAt' \in [Challenges -> Nat \cup {NotIssued}]
        /\ expiresAt'[c] = second + TokenLife /\ expiresAt'[c] # NotIssued
        /\ \A d \in Challenges : d # c => expiresAt'[d] = expiresAt[d]
    BY <2>1, <2>2 DEF ServedInv, UnlockTypeOK, NotIssued
  <2>4. \A d \in Challenges : expiresAt[d] # NotIssued => expiresAt'[d] = expiresAt[d]
    BY <2>1, <2>3
  <2>5. \A q \in Requests :
           /\ Underway(q)' <=> Underway(q)
           /\ Verified(q)' <=> Verified(q)
           /\ Verified(q) => Underway(q)
           /\ \A d : Holding(q, d)' <=> Holding(q, d)
           /\ \A p : Opening(q, p)' <=> Opening(q, p)
    BY <2>1 DEF Underway, Verified, Holding, Opening, Signed
  <2>6. UnlockTypeOK'
    BY <2>1, <2>3, <2>5 DEF ServedInv, UnlockTypeOK
  <2>7. \A q \in Requests : Underway(q) =>
           /\ unlock[q].challenge \in Challenges /\ expiresAt[unlock[q].challenge] # NotIssued
    BY DEF ServedInv, UnlockTypeOK
  <2>8. \A p \in Signatures : p[1] \in Challenges
    BY DEF Signatures
  <2>9. ServedInv'
    BY <2>1, <2>2, <2>3, <2>4, <2>5, <2>6, <2>7, <2>8 DEF ServedInv
  <2> QED
    BY <2>1, <2>4, <2>5, <2>9, NonceStays, SignatureStays
<1>2. ASSUME NEW r \in Requests, NEW c \in Challenges, NEW s \in Spellings,
             NEW keyed \in BOOLEAN, StartUnlock(r, c, s, keyed)
      PROVE  UnlockInv'
  <2>1. PICK run : run = [pc |-> IF keyed THEN "lookup" ELSE "verify", challenge |-> c,
                          spelling |-> s, keyed |-> keyed, at |-> 0]
    OBVIOUS
  <2>2. /\ run.pc \in {"lookup", "verify"} /\ run.challenge = c /\ run.spelling = s
        /\ run.at = 0
        /\ {"pc", "challenge", "spelling", "keyed", "at"} \subseteq DOMAIN run
    BY <2>1
  <2>3. /\ unlock' = [unlock EXCEPT ![r] = run] /\ expiresAt[c] # NotIssued
        /\ UNCHANGED <<second, expiresAt, nonceUntil, replayUntil, opened, late, stalled>>
    BY <1>2, <2>1 DEF StartUnlock
  <2>4. Moves(r) /\ unlock'[r] = run
    BY <2>3 DEF Moves, ServedInv, UnlockTypeOK
  <2> QED
    BY <2>2, <2>3, <2>4, RequestMoves DEF Verified
<1>3. ASSUME NEW r \in Requests, Refuse(r),
             UNCHANGED <<second, expiresAt, nonceUntil, replayUntil, opened, late, stalled>>
      PROVE  UnlockInv'
  <2>1. Moves(r) /\ unlock'[r].pc = "free"
    BY <1>3 DEF Refuse, NotServed, Moves, ServedInv, UnlockTypeOK
  <2> QED
    BY <1>3, <2>1, RequestMoves DEF Underway, Verified
<1>4. ASSUME NEW r \in Requests, NEW code, Answer(r, code),
             UNCHANGED <<second, expiresAt, nonceUntil, replayUntil, opened, late, stalled>>
      PROVE  UnlockInv'
  <2>1. Moves(r) /\ unlock'[r].pc \in {"store", "free"}
    BY <1>4 DEF Answer, NotServed, Moves, ServedInv, UnlockTypeOK
  <2> QED
    BY <1>4, <2>1, RequestMoves DEF Underway, Verified
<1>5. ASSUME NEW r \in Requests, LookUpAnswer(r) PROVE UnlockInv'
  <2>1. CASE second < answer.until
    BY <1>3, <1>5, <2>1 DEF LookUpAnswer
  <2>2. CASE ~(second < answer.until)
    <3>1. unlock[r].pc = "lookup" /\ Underway(r) /\ unlock' = [unlock EXCEPT ![r].pc = "verify"]
      BY <1>5, <2>2 DEF LookUpAnswer, Underway, GoTo
    <3>2. /\ Moves(r) /\ unlock'[r].pc = "verify" /\ DOMAIN unlock'[r] = DOMAIN unlock[r]
          /\ unlock'[r].challenge = unlock[r].challenge
          /\ unlock'[r].spelling = unlock[r].spelling /\ unlock'[r].at = unlock[r].at
      BY <3>1 DEF Moves, ServedInv, UnlockTypeOK
    <3> QED
      BY <1>5, <3>1, <3>2, RequestMoves DEF LookUpAnswer, Verified, ServedInv, UnlockTypeOK
  <2> QED
    BY <2>1, <2>2
<1>6. ASSUME NEW r \in Requests, VerifyChallenge(r) PROVE UnlockInv'
  <2>1. CASE expiresAt[unlock[r].challenge] < second
    BY <1>4, <1>6, <2>1 DEF VerifyChallenge
  <2>2. CASE ~(expiresAt[unlock[r].challenge] < second)
    <3>1. /\ unlock[r].pc = "verify" /\ Underway(r)
          /\ unlock' = [unlock EXCEPT ![r].pc = "nonce", ![r].at = second]
      BY <1>6, <2>2 DEF VerifyChallenge, Underway
    <3>2. /\ Moves(r) /\ unlock'[r].pc = "nonce" /\ DOMAIN unlock'[r] = DOMAIN unlock[r]
          /\ unlock'[r].challenge = unlock[r].challenge
          /\ unlock'[r].spelling = unlock[r].spelling /\ unlock'[r].at = second
      BY <3>1 DEF Moves, ServedInv, UnlockTypeOK
    <3>3. /\ unlock[r].challenge \in Challenges /\ second \in Nat
          /\ expiresAt[unlock[r].challenge] \in Nat
      BY <3>1 DEF ServedInv, UnlockTypeOK
    <3>4. second <= expiresAt[unlock[r].challenge]
      BY <2>2, <3>3
    <3> QED
      BY <1>6, <3>1, <3>2, <3>3, <3>4, RequestMoves
      DEF VerifyChallenge, ServedInv, UnlockTypeOK
  <2> QED
    BY <2>1, <2>2
<1>7. ASSUME NEW r \in Requests, ConsumeNonce(r) PROVE UnlockInv'
  <2>1. CASE second < nonceUntil[unlock[r].challenge]
    BY <1>3, <1>7, <2>1 DEF ConsumeNonce
  <2> QED
    BY <1>7, <2>1, NonceConsumed
<1>8. ASSUME NEW r \in Requests, ConsumeSignature(r) PROVE UnlockInv'
  <2>1. CASE second < replayUntil[Signed(r)]
    BY <1>3, <1>8, <2>1 DEF ConsumeSignature
  <2> QED
    BY <1>8, <2>1, SignatureConsumed
<1>9. ASSUME NEW r \in Requests, OpenPrompt(r) PROVE UnlockInv'
  <2>1. CASE Refuse(r) /\ UNCHANGED opened
    BY <1>3, <1>9, <2>1 DEF OpenPrompt
  <2>2. CASE opened' = [opened EXCEPT ![Signed(r)] = @ + 1] /\ Answer(r, "plaintext")
    BY <1>9, <2>2, PromptOpened
  <2> QED
    BY <1>9, <2>1, <2>2 DEF OpenPrompt
<1>10. ASSUME NEW r \in Requests, FailUnlock(r) PROVE UnlockInv'
    BY <1>4, <1>10 DEF FailUnlock
<1>11. ASSUME NEW r \in Requests, StoreAnswer(r) \/ LoseRequest(r) PROVE UnlockInv'
    BY <1>3, <1>11 DEF StoreAnswer, LoseRequest, Refuse
<1>12. CASE SecondPasses \/ UNCHANGED unlockVars
  <2>1. /\ second \in Nat /\ second' \in Nat /\ second <= second'
        /\ UNCHANGED <<expiresAt, nonceUntil, replayUntil, unlock, opened, late, stalled>>
    BY <1>12 DEF SecondPasses, unlockVars, ServedInv, UnlockTypeOK
  <2>2. \A q \in Requests :
           /\ Underway(q)' <=> Underway(q)
           /\ Verified(q)' <=> Verified(q)
           /\ \A d : Holding(q, d)' <=> Holding(q, d)
           /\ \A p : Opening(q, p)' <=> Opening(q, p)
    BY <2>1 DEF Underway, Verified, Holding, Opening, Signed
  <2>3. UnlockTypeOK'
    BY <2>1, <2>2 DEF ServedInv, UnlockTypeOK
  <2>4. \A d \in Challenges : expiresAt[d] # NotIssued => expiresAt[d] <= second' + TokenLife
    BY <2>1, UnlockAssumption DEF ServedInv, UnlockTypeOK
  <2>5. ServedInv'
    BY <2>1, <2>2, <2>3, <2>4 DEF ServedInv
  <2> QED
    BY <2>1, <2>2, <2>5, NonceStays, SignatureStays
<1> QED
    BY <1>1, <1>2, <1>5, <1>6, <1>7, <1>8, <1>9, <1>10, <1>11, <1>12 DEF UnlockNext

\* For any number of requests and any lifetimes: a signed challenge opens its
\* prompt at most once, in one spelling, unless its nonce was consumed when it
\* had expired; one spelling of it does at most once, unless a request stood
\* ReplayLife - TokenLife or longer between the two checks (unlock.ts:459-500).
THEOREM ChallengeOpensOnce == UnlockSpec => []OpenedOnce
<1>1. UnlockInv => OpenedOnce
    BY DEF UnlockInv, NonceInv, SignatureInv, OpenedOnce
<1> QED
    BY <1>1, UnlockInvInit, UnlockInvStep, PTL DEF UnlockSpec, UnlockInv
=============================================================================
