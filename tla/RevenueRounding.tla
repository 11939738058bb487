-------------------------- MODULE RevenueRounding --------------------------
(***************************************************************************)
(* How settlements share out payments (contracts/revenue-rounding/src/     *)
(* lib.rs, and settle_revenue_rounding of the prompt-hash contract).       *)
(*                                                                         *)
(* Each settled payment is divided by basis points among the shares of its *)
(* payout plan.  A share is rounded down to whole stroops; its fraction is *)
(* carried to the next settlement with the same recipient and role, and    *)
(* the stroops that the fractions add up to wait in a reserve.  Plans      *)
(* differ from payment to payment, so a carry can wait through any number  *)
(* of settlements that do not concern it.                                  *)
(***************************************************************************)
EXTENDS Integers, FiniteSets, Functions

CONSTANTS
    Shares,      \* (recipient, kind, source id): the keys of a carry
    Denominator, \* SHARE_DENOMINATOR
    Payments,    \* the amounts of settled escrows
    MaxDeposit   \* bound on the payments together

ASSUME RoundingAssumption ==
    /\ IsFiniteSet(Shares)
    /\ Denominator \in Nat \ {0}
    /\ Payments \subseteq Nat
    /\ MaxDeposit \in Nat

VARIABLES
    carry,           \* RevenueRoundingCarry of each share
    roundingReserve, \* reserve_stroops of the report
    numerator,       \* cumulative_numerator of the report
    paid,            \* history: stroops transferred to each share
    entitled         \* history: what each share has earned, in stroops / Denominator

roundingVars == <<carry, roundingReserve, numerator, paid, entitled>>

\* The basis points of a plan: validate_splits keeps every bps positive, no two
\* entries of a plan have the same key, and the creator's residual share
\* completes the denominator.  A share that is not in the plan has 0.
Plans == {bps \in [Shares -> 0..Denominator] : SumFunction(bps) = Denominator}

RoundingTypeOK ==
    /\ carry \in [Shares -> 0..(Denominator - 1)]
    /\ roundingReserve \in Nat
    /\ numerator \in Nat
    /\ paid \in [Shares -> Nat]
    /\ entitled \in [Shares -> Nat]

RoundingInit ==
    /\ carry = [s \in Shares |-> 0]
    /\ roundingReserve = 0
    /\ numerator = 0
    /\ paid = [s \in Shares |-> 0]
    /\ entitled = [s \in Shares |-> 0]

\* The share's part of the payment, with the fraction carried forward.
Numerator(payment, bps, s) == payment * bps[s] + carry[s]

Amount(payment, bps, s) == Numerator(payment, bps, s) \div Denominator

\* Mutants: the fraction of this payment replaces the carry; the whole
\* stroops stay in the carry.
RemainderForgetting(payment, bps, s) == (payment * bps[s]) % Denominator

RemainderUnreduced(payment, bps, s) == Numerator(payment, bps, s)

Remainder(payment, bps, s) == Numerator(payment, bps, s) % Denominator

\* Mutant: the payouts are taken from the payment alone, and what they leave
\* is the reserve.
ReserveAfterFresh(payment, bps) ==
    payment - SumFunction([s \in Shares |-> Amount(payment, bps, s)])

ReserveAfter(payment, bps) ==
    roundingReserve + payment - SumFunction([s \in Shares |-> Amount(payment, bps, s)])

\* allocate_round, the transfers, the saved carries and the report are one
\* transaction; a negative reserve (ReserveUnderflow) would revert it.
Settle(payment, bps) ==
    /\ ReserveAfter(payment, bps) >= 0
    /\ SumFunction(entitled) + payment * Denominator <= MaxDeposit * Denominator
    /\ carry' = [s \in Shares |-> IF bps[s] > 0 THEN Remainder(payment, bps, s)
                                                ELSE carry[s]]
    /\ roundingReserve' = ReserveAfter(payment, bps)
    /\ numerator' = numerator +
          SumFunction([s \in Shares |-> (payment * bps[s]) % Denominator])
    /\ paid' = [s \in Shares |-> paid[s] + Amount(payment, bps, s)]
    /\ entitled' = [s \in Shares |-> entitled[s] + payment * bps[s]]

RoundingNext == \E payment \in Payments, bps \in Plans : Settle(payment, bps)

RoundingSpec == RoundingInit /\ [][RoundingNext]_roundingVars

-----------------------------------------------------------------------------
(* Properties *)

\* Every carried fraction is backed by the reserve, and the reserve holds
\* nothing else: stroops neither appear nor strand, whatever plans follow each
\* other.
CarriesBacked == SumFunction(carry) = roundingReserve * Denominator

\* No sequence of settlements can run into ReserveUnderflow, which would leave
\* the next escrow unsettleable.
NeverUnderflows == \A payment \in Payments, bps \in Plans : ReserveAfter(payment, bps) >= 0

\* Each recipient's payouts are exactly its earned share, rounded down once
\* over all settlements instead of once per settlement: it is never a whole
\* stroop behind and never ahead.
PaidToTheStroop ==
    \A s \in Shares :
        /\ paid[s] * Denominator <= entitled[s]
        /\ entitled[s] < (paid[s] + 1) * Denominator

\* The inductive form: what is missing is the carry.
EntitlementExact ==
    \A s \in Shares : paid[s] * Denominator + carry[s] = entitled[s]
=============================================================================
