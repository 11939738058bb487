----------------------------- MODULE DisputeCase ----------------------------
(***************************************************************************)
(* What the dispute records of the server promise about one purchase: a    *)
(* purchase awaits its delivery, is closed, or is an open case that the    *)
(* buyer, a maintainer or the contract can still settle; a refund is only  *)
(* ever granted out of an open case, and is final.                         *)
(***************************************************************************)

VARIABLE standing

CaseInit == standing \in {"none", "open"}

Report    == standing = "none" /\ standing' \in {"awaiting", "closed"}
Open      == standing \in {"none", "awaiting", "closed"} /\ standing' = "open"
Close     == standing \in {"awaiting", "open"} /\ standing' = "closed"
Refund    == standing = "open" /\ standing' = "refunded"

CaseNext == Report \/ Open \/ Close \/ Refund

CaseSpec == CaseInit /\ [][CaseNext]_standing
=============================================================================
