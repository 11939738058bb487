---------------------------- MODULE MCAuditTrail ----------------------------
(* Model-checking instances of AuditTrail. *)
EXTENDS AuditTrail

CONSTANTS a1, a2

OneRecorder == {a1}
TwoRecorders == {a1, a2}
=============================================================================
