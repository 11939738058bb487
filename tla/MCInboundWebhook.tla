-------------------------- MODULE MCInboundWebhook --------------------------
(* Model-checking instances of InboundWebhook. *)
EXTENDS InboundWebhook

CONSTANTS d1, d2, d3

TwoDeliveries == {d1, d2}
ThreeDeliveries == {d1, d2, d3}

FairInboundSpec == InboundSpec /\ InboundFairness
=============================================================================
