--------------------------- MODULE MCEntitlements ---------------------------
(* Model-checking instances of Entitlements. *)
EXTENDS Entitlements

CONSTANTS q1, q2

TwoAskers == {q1, q2}
=============================================================================
