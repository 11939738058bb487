-------------------------- MODULE MCWebhookOutbox --------------------------
(* Model-checking instances of WebhookOutbox. *)
EXTENDS WebhookOutbox, TLC

CONSTANTS e1, e2, e3, c1, c2, w1, w2, k1

OneEvent == {e1}
TwoEvents == {e1, e2}
ThreeEvents == {e1, e2, e3}
OneCaller == {c1}
TwoCallers == {c1, c2}
OneWorker == {w1}
TwoWorkers == {w1, w2}
OneController == {k1}

Symmetry == Permutations(Callers) \cup Permutations(Workers)

\* webhookOutbox.ts:40-46 says the dedupe key "gives a committed event exactly
\* one durable delivery per subscriber even if the caller (or two independent
\* projections of the same event) calls `enqueue` more than once": a call that
\* returned normally has its event stored.
EnqueueDurable == sub.exists => enqueued \subseteq Stored
=============================================================================
