------------------------- MODULE MCIdempotentRequest -------------------------
(***************************************************************************)
(* Model-checking instances of IdempotentRequest, and what the documents   *)
(* say of a replay.                                                        *)
(***************************************************************************)
EXTENDS IdempotentRequest

CONSTANTS c1, c2, p1

TwoClients == {c1, c2}
OnePayload == {p1}
\* Bodies as the route passed them to res.json, before any serialisation.
Answers == {[code |-> 200, body |-> <<"done">>], [code |-> 500, body |-> <<"error">>]}

\* docs/idempotency.md:41-42 "A retry with the same key and the same JSON payload
\* replays the persisted status code and response body", the "final HTTP outcome"
\* (:4) of the first request: a replay is what the route has answered.
ReplaysOriginal ==
    \A i \in DOMAIN sent : sent[i].replay =>
        \E j \in 1..(i - 1) : ~sent[j].replay /\ sent[j].outcome = sent[i].outcome
=============================================================================
