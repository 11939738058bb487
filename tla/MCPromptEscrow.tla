--------------------------- MODULE MCPromptEscrow ---------------------------
(***************************************************************************)
(* Model-checking instances of PromptEscrow, and what the contract says of *)
(* its release path.                                                       *)
(***************************************************************************)
EXTENDS PromptEscrow, TLC

CONSTANTS a, b, c

TwoBuyers   == {a, b}
ThreeBuyers == {a, b, c}
BuyerSymmetry == Permutations(Buyers)

\* contract.rs:1827-1831 promises that once the window has closed with no open
\* dispute anyone can settle, "guaranteeing every escrow has a bounded path to
\* Released": such an escrow can always be paid out.
ReleasePathOpen ==
    \A p \in Prompts, x \in Buyers :
        MaySettle(p, x, FALSE) =>
            \E r \in 0..MaxReserve : Affordable(Payout(p, x, r))
=============================================================================
